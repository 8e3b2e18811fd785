# Verification of entservices-helpers

The repository is a library of C++ headers that RDK's Thunder plugins include:
small utilities, and a few classes with state that several threads share. This
directory models the parts with state in TLA+, checks them with TLC on small
instances, and proves the main safety results with TLAPS for every value of the
constants. Line numbers refer to `src/helpers/`; a bare number in the sections on
DSHelper refers to `DeviceSettingsInterface.h`.

## Inventory

| Part | State | Operations | Hard behaviour | What makes it correct |
|---|---|---|---|---|
| DSHelper, link (`DeviceSettingsInterface.h` 763-839, 1684-1718) | the service, the root proxy of the base class | Open, Close, Operational and its two callbacks | DeviceSettings dies and restarts at any time; Operational runs on another thread than the clients | callbacks in order; nothing of a dead activation is left over, but for what finding 1 says |
| DSHelper, proxy cache (863-913, 1735-1762) | map from interface ID to proxy, reference counts | AcquireSubInterface, the caller's Release, _releaseSubInterfaceCache | lock dropped during a COM-RPC call; swap against fill | reference counts exact; no stale proxy |
| DSHelper, configuration (941-1480, 1764-1793) | four stores, four handle maps, a flag, two mutexes | accessors, lazy load, audio reload, reset and clear by Operational | double-checked locking, fetch without a lock and commit later, reload beside load | loaded once per activation, in one piece, of one activation; waiters released |
| Config stores (160-690) | vectors of port types, ports, resolutions | lookups by name, type or index; storing resolutions per type | names are matched case-insensitively in several forms | a lookup finds what was stored |
| API locks (`UtilsSynchro.hpp`) | one recursive mutex per class, one flag per thread | locked calls, UnlockApiGuard, LockApiGuard | nested calls, calls between plugins | mutual exclusion; no deadlock; guards balance |
| IARM handlers (`UtilsSynchroIarm.hpp`) | map from owner and event to handler | register, remove, dispatch | event against removal | a removed handler is not called |
| TpTimer (`tptimer.h`) | active flag, interval, single shot, scheduled job | start, stop, Timed on the timer thread | start and stop racing with the callback | a job is pending exactly if the timer is active |
| Controller access (`UtilsController.h`) | cached token, worker pool jobs | getSecurityToken, getServiceState, activatePlugin | waiting without timeout for a pool job | the wait ends while a worker is left; a job's caller is there; one token for all |
| Direct link (`UtilsJsonrpcDirectLink.h`) | dispatcher, call ID, cached token | Invoke, GetThunderControllerClient | statics without a lock | links carry the token acquired first |
| Interface builder (`PluginInterfaceBuilder.h`) | a reference to an interface | build with retries, move, reset | retry bound, ownership across moves | every reference released once |
| cSettings (`cSettings.h`) | JSON object in memory, file | set, remove, contains, read, write | failed write, crash between truncate and write | what was saved is read back or known to be lost |
| Persisted JSON (`UtilssyncPersistFile.h`) | file | persistJsonSettings | crash between delete and write, overlapping calls | a lone call changes its key and no other; nothing is left unsynced |
| Files (`UtilsFile.h`) | two files | MoveFile | partial failure, crash | the contents are in one of the two |
| System mode file (`UtilsString.h` 232-354) | a file shared by plugins | add, delete, deleteall, checkandadd, get | lost updates, torn lines | an update that runs alone is exact, from any file |
| File content (`UtilsgetFileContent.h`) | none | property lookup with expansion, file search | recursion, order of entries | it finds what is there |
| IARM connection (`UtilsIarm.h`, `utils.cpp`) | connection of the process | init with retries | bound of the retries | it fails only if the daemon was down |
| AbstractPlugin (`AbstractPlugin.h`) | handlers per version | registerMethod, Deinitialize | 8-bit counter | all versions know the same methods, and none after Deinitialize |
| Processes, thread wrapper, RDK profile, telemetry, RFC, small helpers | none | calls into the system or a library | none | |

The parts meet in few places: a client plugin derives from DSHelper and calls it
from its own API methods (which may run under API locks); DSHelper's configuration
uses its proxy cache; everything else is called directly by plugins.

## Modules

| Module | Models |
|---|---|
| `DSLink` | what surrounds DSHelper: DeviceSettings activating and dying, Open, Close, the steps of Operational |
| `DSSubInterface` | the proxy cache, on top of DSLink |
| `DSConfig` | the configuration, on top of DSLink |
| `DSConfigAbs` | what the configuration promises, without threads; DSConfig implements it |
| `DSHelper` | the two together: loads fetch handles through cached proxies |
| `DSStores` | what is in the stores and handle maps, and the lookups |
| `ApiLocks` | the API locks of plugin classes and calls between plugins |
| `IarmHandlers`, `IarmInit` | handlers of IARM events; connecting to IARM |
| `TpTimer` | the timer's thread and the plugin's |
| `WorkerPool`, `SecurityToken` | activatePlugin() on Thunder's worker pool; the remembered token |
| `DirectLink` | GetThunderControllerClient() and the links it makes |
| `InterfaceRef` | the plugin interface builder and its references |
| `Settings`, `PersistedJson`, `MoveFile`, `SystemModeFile` | the files that helpers write |
| `FileSearch`, `PropertyFile`, `Strings` | algorithms on files and strings, as functions |
| `PluginVersions` | AbstractPlugin's handlers per API version |
| `Utilities` | the modules from `IarmHandlers` down side by side, each with its property |
| `DSSubInterfaceProofs`, `DSConfigProofs`, `DSHelperProofs`, `DSStoresProofs`, `ApiLocksProofs` | theorems about the modules they are named for |
| `UtilityStatesProofs`, `UtilityFilesProofs`, `UtilityTextsProofs` | theorems about the modules in `Utilities`: those with a state; `FileSearch` and `PropertyFile`; `Strings` |
| `MC*` | instances for TLC |

### DSLink

`up` and `epoch` are DeviceSettings itself: running or not, and how often it has
activated. A proxy, a store or a handle is represented by the epoch it comes from
and 0 stands for null or empty, so "stale" is a comparison. `root` is what
`Interface()` returns. `op` says which statement of `Operational()` comes next:
`up -> activated -> idle` or `down -> release -> deactivated -> clear -> idle`;
`owner` does the same for Open and Close. The base class and Thunder are not in
this repository. Modelled from their uses: the base class drops the root proxy before
it reports a deactivation (the doc at 1672 says the connection is severed by then);
it makes one call of Operational at a time; it calls Operational(true) from inside
Open if DeviceSettings runs (783-785); whether Close reports a deactivation is left
open. Client threads may call at any time, the notifier's thread only from the two
callbacks (`MayCall`).

### DSSubInterface

`cache` is `_subInterfaceCache`, `toRelease` the local of the same name in
`_releaseSubInterfaceCache()` (once for Operational, once for Close, which may run at the
same time), `refs` the reference count of each proxy. `acq`, `want` and `loc` are a
thread's place in `AcquireSubInterface()` and its locals. Every critical section
of `_subIfaceMutex` is one action (`AcquireFast`, `AcquireMiss`, `StoreFresh`,
`StoreLost`, `SwapOut`); `Interface()` and `QueryInterface` are actions between
them. `late` is a history variable: the proxies that were cached although the
activation they belong to was over, or Close() had already emptied the cache.

- `RefsAccounted`: the count of every proxy is the number of its holders. A missing
  AddRef (use after release), a double Release or a leak all break it.
- `StaleOnlyLate`: the late fill is the only way a stale proxy gets into the cache.
- `NullInDeactivated` is what the code says of itself at 1672-1674 and 1701-1702; it is
  violated by exactly that late fill.

### DSConfig

`loaded`, `store` and `handles` are the flag, the four stores and the four handle
maps, `resolutions` the activations that the video port store's resolutions come from, which a load brings
and clients add to; `initMutex` is `_initMutex`. `_configMutex` is never held across a call, so its
critical sections are single actions: `Commit`, `ReloadCommit`, `ResolutionsStored`, `Read`, and the
two blocks of Operational (`Activated`, `Clear`). What `ResolutionsStored`
(`storeVideoPortResolutionsForType()`) stores was fetched before, without a lock (`ResolutionsFetched`), and
whether or not any config is loaded. `pc` is a thread's place in an
accessor, a load or a reload, `src`, `newStore` and `newHandles` the locals it fills
on the way. COM-RPC calls may fail at every point (`LoadFails`, `ReloadFails`, handles of
epoch 0). `Answers` is the set of answers `GetDeviceSettingConfigs` may give, as the
sets of parts that are not empty. Accessors that skip the lock (1233, 1304, 1325, 1328,
1337) stay in `peek` from the start to the end of their read. `leftover` is a history
variable: the configuration may be of an activation that has ended, because a
load, a reload or a client's resolutions came late or because Close() cleared nothing.

- `OneLoader`: double-checked locking works; a waiter never loads again.
- `StaleOnlyLeftover`, `HandlesHaveConfig`: what a commit, or a store of resolutions, may and may not leave behind.
- `AudioKeptByReload`: a reload never empties the audio handles (958-959).
- `ImplementsAbs`: clients see the configuration appear and vanish in one piece; only resolutions join it
  piece by piece, at any time, and they vanish with the rest.
- `MutexReleased`, `WaitersSkip`: nobody keeps `_initMutex` or waits in vain (1769-1771).
- `ReadersUndisturbed` and `ClearedWhenDown` state a comment and a log message of the code
  and are violated (see Findings).

### DSHelper

Both components over the same link. A load acquires the sub-interface, fetches handles
through it and releases it (`LoadWith`), or goes on without (`LoadWithout`); a client's
`LoadVideoPortResolutionConfig()` does the same (`ResolutionsWith`). `FreshLoad`
and `HandlesOfActivation` relate the two: which activation the handles of a load are of. `CallbackResolutions` says so
of the resolutions that the activation callback fetches and stores as the doc of `LoadVideoPortResolutionConfig()`
shows. `CfgSpec` says that the composition is a behaviour of DSConfig; it needs that what the cache hands out is of
past activations. That it is one of DSSubInterface too follows from the definitions, so it is a lemma of the proofs
(`SubImplementation`) and no property.

### DSStores

DSConfig says when the stores change; `DSStores` says to what. `types`, `ports`, `resolutionsByType`,
`resolutions`, `audioPorts` and `devices` are the stores, `videoHandles`, `audioHandles` and
`deviceHandles` the handle maps: a handle is its name being in the map, since its value is never looked
at. One action per critical section of `_configMutex`: `LoadAllConfigs` with any answer and any
subset of handles (each handle call may fail), `ReloadAudioConfigs`, `storeVideoPortResolutionsForType`,
and the two halves of Operational. A name is the word of its type, an index, and whether it is spelt as
the code spells it, which is all that comparing with and without case can tell apart; the types that the code has no
word for share the default word, and an instance has one of them at most. Lists of resolutions are sequences
and may repeat a name: a load takes an answer as it is (1109-1118), a store adds the names that are not there yet. The accessors
are operators: `ResolveByName`, `PortNamed`, `GetDefaultVideoPortName`, `GetDefaultAudioPortName`,
`isAudioOutputPortConnected`.

- `ResolutionsUnited`: the flat list is exactly what the last load brought and, once each, the names stored since. That is
  less than the docs at 354 and 1261 promise, see Divergences.
- `HandlesOfPorts`, `ConnectedIsConfigured`: handles outlive neither config.
- `NamesAgree`, `DefaultsListed`: what one lookup returns, the other lookups find.

### ApiLocks

`UtilsSynchro.hpp`: `flag` is `isThreadUsingLockedApi`, `holder` and `count` are the recursive
mutexes `ApiLocks<C>::mtx`, one per class. A thread's stack (`level`, `frame`) holds the wrapped
functions and LockApiGuards open on it, each with the place it has reached; `caller`
says who waits for the call a thread serves. The wrapper of `getFunctionToCall()` is `Call`,
`Lock` and `Return` (also where the function throws); a LockApiGuard is `Guard`, `Lock`, `Unlock`,
`LockAgain` and `Return`; an UnlockApiGuard is `GuardBegin`, `GuardEnd` and `Relock`. Between them
another plugin may be called, on another thread (`Invoke`) or, over `JSONRPCDirectLink`, on the
same (`InvokeDirect`). `Nesting` chooses what nests on one thread. The IARM handlers
(`UtilsSynchroIarm.hpp` 50-62) wrap their functions in the same way. Not in the model: a LockApiGuard in a
thread that runs no wrapped function, and the undefined `unlock()` of a mutex the thread does not own,
which is taken to change nothing.

- `LockedInBody`: mutual exclusion, also after an UnlockApiGuard has gone.
- `LevelsAccounted`: levels of the recursive mutex and the code that relies on them match.
- `HoldersNeverWait`, `LockReleased`: plugins that call each other do not deadlock.
- `UnlockedAcrossInvoke` states the comment on UnlockApiGuard and is violated where guards nest.

### IarmHandlers, IarmInit

`handlerOf` is `_registered_iarm_handlers`, `onBus` what the bus knows, `entering` the generic handler's
calls that wait for the class's mutex. The bus may refuse to register or to remove, and does not wait for
calls under way. `RemovedNotCalled`: a call finds the handler registered last or, if its event was removed,
none; and it comes to that only if it waited at the time or the bus refused.
`IarmInit` has several threads in `init()`, each with its retries, over a library that is initialised
and connected once per process and a daemon that may restart. `OthersDoNoHarm`: an attempt fails
only if the daemon was down during it.

### TpTimer

`due` counts the pending jobs, `doing` says where each of the two threads is in start() or stop(),
`timed` where Timed() is. The interval is left out: a pending job may run at any time. `PendingIfActive` holds
as long as a call of the plugin's thread does not meet Timed() between its callback and its
end; `met` is the history of that.

### WorkerPool, SecurityToken, DirectLink

A job is named by the caller whose locals it refers to. A job that activates a plugin may
submit another and wait (`nested`). `JobsHaveCallers` is what makes the references to locals safe; `CallsReturn`
is for `MaxNested` less than the number of workers, beyond which all of them wait for each other.
`SecurityToken` is the function-local static under its mutex, `DirectLink` the pair of statics
without one: a string that is read while it is assigned is `Torn`. `TokensKept` is the conjunction of
`OneAnswer` and `LinksCarryToken`; the second leaves out links made while acquisitions overlapped.

### InterfaceRef

`interface[r]` is None (no variable), FALSE (null) or TRUE (it owns a reference); `references` is the plugin's
count. `overwritten` counts what move assignment loses (71), so that `ReferencesOwned` says that
nothing else is lost.

### Files

`Settings`, `PersistedJson`, `MoveFile` and `SystemModeFile` have an action for each step on a file: between
any two the process may die (in `PersistedJson` the power too: `durable` is what is on the disk), and a
write may fail in part, or its file's deletion. In `Settings` a write may be cut short after any line (`WriteFails`, a full
disk), but not within one. In `MoveFile` the look for the target and its creation are two steps, and another may
create the target in between, or remove it. Contents are functions or sequences of lines; where a string is taken apart (the "=" of
settings, the "|" of callsigns) it is a sequence of letters.

- `SavedIsRead`: what a change of a key has saved is read until its next change, over restarts and changes of other keys; the key may only
  be gone, where a later write was cut short before its line, a start could not read the file, or its value has a "=": `lost` is
  the history of that.
- `PersistedWhole`: a call that meets nothing keeps the other keys; between calls all is synced.
- `NothingLost`: one of the two files has the whole content, unless a read failed; a file that was there when a call looked is not
  written to; a call that fails leaves no target of its own behind, unless it could not delete it.
- `LoneUpdateExact`: an update that no other overlaps does what it was asked, whatever is in the file; of callsigns only
  where the one asked for is not a part of another and not there twice (`Apart`), which is so again after it.

### Algorithms

`FileSearch`, `PropertyFile` and `Strings` translate the loops and the recursion as they are, and compare them with
a definition of the result over all the bounded inputs: `FirstsFound`, `ReferencesFollowed`, `TextKept`. Each
property says under which condition the code agrees with its reference; the rest is under Divergences.

### PluginVersions

`registered` is what each version's handler knows, `versionAPIs` what the plugin has noted; `loop`
is the loop under way, with its counter of `uint8_t`. `VersionsAlike` holds between calls, for current versions
less than the greatest `uint8_t`.

## Runs

| Run | Instance | Shows |
|---|---|---|
| `cache` | 2 clients + notifier, 2 kinds, 2 activations, Open/Close/reopen | `TypeOK`, `RefsAccounted`, `StaleOnlyLate` |
| `cache_stale` | 2 clients + notifier, 1 kind, 1 activation | `NullInDeactivated` violated |
| `config` | 1 client + notifier, 2 activations, answers with audio ports or with video ports, `LiveSpec` | `TypeOK`, `OneLoader`, `StaleOnlyLeftover`, `HandlesHaveConfig`, `AudioKeptByReload`, `ImplementsAbs`, `MutexReleased`, `WaitersSkip` |
| `config_peek` | 2 clients + notifier, 1 activation | `ReadersUndisturbed` violated |
| `config_down` | 1 client + notifier, 1 activation | `ClearedWhenDown` violated |
| `helper` | 1 client + notifier, 2 activations, answers with audio ports and video devices, Close as `ClosesEarly` says | `CfgSpec`, `FreshLoad`, `HandlesOfActivation`, `CallbackResolutions` |
| `apilocks` | 3 threads, 2 classes, LockApiGuards nest up to depth 3 | `TypeOK`, `LockedInBody`, `LevelsAccounted` |
| `apilocks_calls` | 3 threads, 2 classes, direct calls up to depth 3 | `HoldersNeverWait`, `LockReleased`, no deadlock |
| `apilocks_nested` | as `apilocks`, depth 2 | `UnlockedAcrossInvoke` violated |
| `apilocks_direct` | as `apilocks_calls`, depth 2 | `LockedInBody` violated |
| `stores` | 2 configs of different ports, one with a resolution twice, 3 video and 3 audio types, 2 lists of resolutions | the five properties of DSStores |
| `utilities` | the 15 modules from `IarmHandlers` down, each alone | their 14 invariants and `CallsReturn` |

`Utilities` puts modules that have nothing to do with each other into one specification. `part` says
which of them a behaviour is one of; the variables of the others are None and stay so (except the worker pool's,
which are in their initial state, so that its fairness has a meaning). So the state space is the sum of the
fifteen, not their product, and each property is that of its module where `part` is its own.

Bounds of DSHelper. Two threads are enough for a slow path or a load to lose a race against another and
for a swap to come between; `cache` has a third, a second client that is symmetric to the first. Two
activations are the least with something stale that is used. Two kinds show that entries do not
mix; the code treats kinds alike. In `config` an answer has audio ports or video ports: the parts are filled and emptied alike, and two answers that share
none show what a commit must empty. In the `helper` run `ClosesEarly` lets Close() run in a first activation that
nothing was fetched from, with no call under way: with Close() everywhere the run would not finish. The theorems
of `DSHelperProofs` have none of these bounds. Symmetry is used where there is no liveness.

Bounds of the rest. API locks: a call, a call back and a rival take three threads and two classes; depth three is a
call with two guards, or a direct call that comes back to its class. `apilocks` and the two violations
turn the deadlock check off: where LockApiGuards nest, threads may really wait for each other
for ever (finding 4). `apilocks_calls` keeps it on. `stores`: a television with an input, a built-in display and an output,
and a box with two outputs of one type, so that a device changes its ports between activations. `utilities`: two threads
or callers each (three for the token: one that asks, one that waits, one that comes after); two keys, so that one changes
while the other must stay; `MaxFound` 2 for the code's 10, with three directories that agree with a wildcard, and `Retries` 2 for its 20, since only reaching them matters; `MaxUint8` 3
for 255; `MaxLines` 2 and `MaxLetters` 4 keep the shared file small (two modes' lines, two callsigns); `MaxNested` 1 of
2 workers; `MaxCrashes`, `MaxCalls`, `Calls`, `MaxLeaks` and `MaxNoted` stop counters after the second event of their kind.
Its deadlock check is off: the algorithms' behaviours have no second step.

Fairness. `LiveSpec` of ApiLocks: a thread that can go on does, so calls end; nothing is assumed of
who wins a mutex. `LiveSpec` of DSConfig: a thread inside LoadAllConfigs goes on, for COM-RPC calls return or time
out; a thread that waits for `_initMutex` takes it if it stays free and the config
stays loaded. Nothing is assumed of `Operational`, of clients calling, of DeviceSettings
coming up, or that a waiter ever wins against others (a `std::mutex` is not fair); so the only
promise to a waiter is for a config that stays loaded. `Fairness` of WorkerPool: the pool's threads run and a caller whose
event is set is scheduled; nobody has to call.

## Proofs

`DSSubInterfaceProofs`: `IInv` is inductive. It rests on the link's own invariant, whose lemma `LinkInvariance`
`DSConfigProofs` states and proves as well. `RefsAccounted` alone is not: releasing what was
swapped out needs to know that an emptied map holds nothing (`LocalsInv`), and
`StaleOnlyLate` needs that whatever is cached while Close() runs came late (`ClosingLate`).
Each step changes the count and the set of holders of at most one proxy per kind
(`GainingRefs`, `DroppingRefs`), which is how the proof goes through the actions.

`DSConfigProofs`: `CInv` is inductive. `HandlesHaveConfig` needs that what a call has built
has handles only for parts with config (`LocalsInv`), which in turn makes every commit a step of
`DSConfigAbs` (`Implementation`); `OneLoader` carries the mutex; with both, `AudioKept` proves the action property
`AudioKeptByReload`.

`DSHelperProofs`: every step of DSHelper is a step of each component or leaves it alone
(`SubImplementation`, `CfgImplementation`); for the second a load must get proxies of past activations only
(`PastOnly`), and so must a client that stores resolutions. So the components' invariants hold here: `SubP` and `CfgP` are the components with their proofs, and `SubSame`
and `CfgSame` say that they are the same components. On top of them `HInv` is inductive: what a load gets after its
answer is no older than the answer or came late (`GetsNoOlder`), because what is cached is of the latest activation
or came late (`CacheOfLatest`), because a deactivation lets nothing else survive (`StaleOnlyLate`). `Fresh` and
`HandlesMatch` follow. `CallbackInv` follows a callback from its root proxy to what it stores, for `CallbackStoresOwn`: a callback's
calls end before Operational goes on.

`DSStoresProofs`: `SInv` is inductive; handle maps need only that device handles are all there or not at all. `FlatListExact` follows `filed` and
`stored` through every action: what a store adds has new names and none of them twice (`NewIn`).
`NamesAgree` rests on the first match of a list being the first under its own name too (`Canonical`), `DefaultsListed`
on a search for a type's port 0 finding one wherever there is one (`ZeroFound`) and on names that tell ports apart
(`DefaultsOfConfig`).

`ApiLocksProofs`: `Base` says that the stacks are well formed and that a caller waits for the
call it made. Where every call is served by another thread, `PlainInv` is inductive: each step adds or
removes at most one level of code of one class (`OnlyRuns`), so count and holder follow
(`CountMore`, `CountLess`), and `MutualExclusion`, `Balance` and `TypeCorrect` hold. Where no LockApiGuard
nests, `DirectInv` is: only the top of a stack owns a mutex, which gives `NoDeadlock`. Both conditions
are needed: findings 4 and 5 are what happens without them.

`UtilityStatesProofs`, `UtilityFilesProofs` and `UtilityTextsProofs` prove the fourteen invariants of `Utilities`. A step of
`Utilities` is one of the module that the behaviour is of (`OwnStep`, `OwnState`); each module has an inductive invariant
of its own:

| Theorem | Property | The invariant, and why the property alone is not inductive |
|---|---|---|
| `Pending` | `PendingIfActive` | speaks of the moments between calls; within them one thread is at it at a time (`Alone`), and each place in start(), stop() and Timed() fixes what is pending (`UnderWay`, `Between`) |
| `RemovedIsNotCalled` | `RemovedNotCalled` | `EventInv` says of each event which calls may still come, and from it what a call will find |
| `OthersHarmless` | `OthersDoNoHarm` | `AttemptInv`: how far a thread has come is how far the library has come at least, and a daemon that has run since the attempt began runs still; so another thread's success cannot make this one's answer a failure |
| `OneToken` | `TokensKept` | `TokenInv`: who asks has the mutex, and before the answer nobody has got anything. `AcquiresAlone`: as long as acquisitions do not overlap, whoever has found nothing acquired is alone until its link is made; `TokenOfFirst`: the static is what the first success found or is about to find |
| `JobsOutliveNoCaller` | `JobsHaveCallers` | `OneJobEach`: a caller that waits has exactly one job, either queued or run by one worker, or finished (`Finished`); the property counts jobs, so `ImageSize` turns "no two alike" into equal cardinalities |
| `EveryReferenceOwned` | `ReferencesOwned` | the reference that the loop has made and not stored yet is counted too (`OnItsWay`); `QueriesLeft` and `NotSeen` are what a call that gives up has behind it |
| `AllVersionsAlike` | `VersionsAlike` | within the loop the versions that it has passed know the method and the others do not (`AlikeSoFar`), and the counter has not wrapped (`LoopPlace`); what is noted covers what is known (`Notes`) |
| `MovedOrKept` | `NothingLost` | while it is copied, the target is a prefix of the content (`Copied`), the whole of it when the source goes; between the look and the creation the source is whole and whatever is at the target was created by another (`MoveInv`) |
| `JsonKept` | `PersistedWhole` | at each step of a call that nothing has met, what it has in hand is what the file had, with its own key changed (`Undisturbed`), and no other call is undisturbed beside it |
| `UpdatesAreExact` | `LoneUpdateExact` | a call that met no other one is alone and holds what Update() makes of the file it read (`ByItself`); the rest is what Update() does to the first value of each key (`UpdateValue`) and to a list of callsigns (`AddListed`, `DeleteListed`; `AddApart`, `DeleteApart`) |
| `SavedAndRead` | `SavedIsRead` | the same has to hold of the file, and of the file as it will be when the write under way ends (`WholeFile`): a key whose value is kept has no line with another value, and has its line unless it is lost (`KeptInFile`); what is still to be written is in memory (`Writing`), so a write that is cut short loses exactly the keys of the missing lines (`CutShort`); a line is taken apart again as it was put together (`LineOfKey`, `KeyOfLine`), also where the value holds a "=" |
| `FirstsAreThere` | `FirstsFound` | the path keeps its length (`Goes`), so it always has a name to search for; its last name finds the first file of each directory (`CollectFinds`), and a wildcard above it one in each directory that it names (`WalkWild`, `FoundBy`), which are those that hold a file agreeing with the path (`CoversWild`) |
| `ReferencesLead` | `ReferencesFollowed` | a property that leads to a text and is not found refers to one that is not found one deeper; the lines of such a chain differ if nothing refers in a circle (`Chain`), so there are not enough of them to reach the greatest depth |
| `TextsAreKept` | `TextKept` | for each loop, what is so after each letter: `PiecesOf` and `LastPiece` for split(), `Thinned` for the spaces, `Tracks` and `Rests` for a replacement and the one that undoes it, `Encoded` for images: so many letters are put out, and these bits are left over |

`UpdatesAreExact` does need an induction over the lines: FlattenSeq() is a recursive function. It goes without an
induction theorem: of the parts that a claim fails for one is the first (`LeastNumber`, from the well-foundedness of < on the
naturals), and what holds just before it holds for it too (`PutTogether`, `Flattened`, `FlattenedFirst`). The attempt to
prove it showed the property false as it stood: erasing a part of one callsign can leave a second copy of another
("ab|acdb|" without "c" is "ab|ab|"), of which a deletion takes one away. TLC finds this with the callsigns "a", "b" and "aab" and
values of 6 letters; `Apart` now says that the callsign is there once, and the property that it is so after the update too.

The last three are about recursive computations, and rest on two lemmas that turn a definition by recursion into a fact that can be
used. `Recursion`: if what a function is said to be at a place depends only on places of a smaller measure, there is a function
that is so everywhere, and CHOOSE finds it; the proof approximates it up to the least measure that fails, by `LeastNumber`
again. `FoldValues`: FoldLeft(), which the library defines by recursion over the sets of positions not yet folded, has the value that the loop
has after its last turn. With them each loop of the code gets an invariant, and the lemma for its step is all that is particular to it.

`FileSearch` and `PropertyFile` write their recursion as functions (of one tuple, which is what the provers can handle) and `Settings`
its update without `TLC`'s operators, so that the proof modules can extend `Utilities`.

Assumptions. DSHelper: finitely many client threads, the notifier is not one of them, at least one
interface kind, answers are sets of parts. DSStores: well-typed answers, of port types that each have a word of their own (one of them
the default word). `Utilities`:
`ThreadsAssumption` (finitely many threads, workers and clients), `ReferencesAssumption` (finitely many variables, retry counts are
integers), `FilesAssumption` (a file is a sequence of chunks), `SettingsAssumption` (a key is one string without a "=", a value
one string or, with "=", several), `VersionsAssumption` (the current version is less than the greatest `uint8_t`, for 255 the constructor
does not return), `ModesAssumption` (states and callsigns are strings of letters; a callsign has one at least and
never the delimiter), `NoFileAssumption`, `PropertiesAssumption` (a property is one token and none of those that end a name; what refers, refers
to a property), `PathsAssumption` (a search may find something, a path has a name, a directory is listed in the one above it and lists no name
twice), `StringsAssumption` (strings are of letters, images of bytes); all these but the last three also say that None, which stands for "no value", is none of the values it
stands beside. `EmptyString` and `SpelledOut` say that the strings "", "VIDEO" and "|" are strings, as they are by definition: the provers'
translation does not know it. TLC evaluates each of them on the instances.

Model-checked only:

- liveness: `MutexReleased`, `WaitersSkip`, `LockReleased`, `CallsReturn`, since the provers do not reason about ENABLED, which fairness is
  defined by;
- that `apilocks_calls` has no deadlock as a whole; `HoldersNeverWait` is the part of it that is proved.

Every safety invariant and action property of the passing runs has a theorem.

## Findings

1. A slow path of AcquireSubInterface that straddles a deactivation puts a dead proxy into the
   emptied cache (900-911). OnDeviceSettingsDeactivated() can get it, and so can clients of the
   next activation, since nothing empties the cache again.
2. Five accessors and the log lines after the commits read the stores without `_configMutex`.
3. A load that straddles a deactivation commits after the clear and leaves a loaded
   configuration of a plugin that is gone.
4. UnlockApiGuard gives back one level of a recursive mutex (`UtilsSynchro.hpp:93`): below a nested
   LockApiGuard the mutex stays locked across the call it was meant to be free for.
5. A wrapped function resets the thread's flag at its end (`UtilsSynchro.hpp:60`): after a call over a
   direct link the outer function's UnlockApiGuard does not lock again, and the rest of it runs
   without the mutex.

## Divergences

Met while modelling and kept in the models; no run is spent on them, but the properties' conditions leave
room for them. The first five contradict a sentence of the repository, which is quoted; the models reach a state that
contradicts it in a few steps.

- LoadAllConfigs() pushes an answer's resolutions to the flat list without comparing names (1109-1118), so a name that an answer
  gives twice is there twice: not the "deduplicated flat resolution list" of 1261.
- storeVideoPortResolutionsForType() replaces a type's list and only adds to the flat one (1291): resolutions that no type has
  any more stay, so it is a union over time, not the "Deduplicated union across all port types" of 354.
- A change in cSettings returns true when the stream has failed meanwhile (`cSettings.h:179`), against "True if setvalue
  successfull, else False" (80).
- MoveFile() takes a read error for the end of the file, deletes the source and returns true (`UtilsFile.h:55`), against
  `test_UtilsFile.cpp:184` ("MoveFile copies content to destination and deletes source"). The `misread` of the model is that error.
- searchFiles() counts its results anew in every directory (`UtilsgetFileContent.h:152`): "Results are capped at 10" (261) holds for one
  directory, not for the search.
- `storeVideoPortResolutionsForType()` stores what a client fetched earlier, whether or not the plugin still runs or any config is
  loaded (1287): resolutions of a dead activation may be all that the stores have. `leftover` covers it.
- Two port types that the code has no word for share the words "VIDEO" and "AUDIO" (249, 262), so their ports cannot be told apart
  by name; the model has one such type at most.
- The doc of getCachedVideoPortHandle() has "COMPONENT0" as an example; the handle is stored under "Component0" and the maps
  compare case. Nothing fills `_displayHandles`, so getCachedDisplayHandle() (1415) never succeeds.
- TpTimer: a stop() that meets Timed() after it has read `m_isActive` is followed by a start (`tptimer.h:121`); a restart
  in the callback of a single-shot timer is undone.
- Removing an IARM handler while an event waits, or where the bus refuses, lets the generic handler call an empty
  `std::function` (`UtilsSynchroIarm.hpp:56`).
- activatePlugin() from all the pool's threads waits for ever (`UtilsController.h:223`). A failure to get the token is
  remembered (`:57`). The statics of GetThunderControllerClient() have no lock (`UtilsJsonrpcDirectLink.h:174`).
- writeCurlResponse() takes its string by value (`UtilsController.h:85`), so isThunderSecurityConfigured() may read
  an empty answer; the model keeps both outcomes.
- Move assignment of PluginInterfaceRef loses the interface it had (`PluginInterfaceBuilder.h:71`).
- init() makes 21 attempts (`UtilsIarm.h:72`).
- System mode file: a file that had to be created is written with its default state over the update
  (`UtilsString.h:250`); deleting a callsign that is part of another erases a piece of that one, and what is left may be
  a callsign that is there already, which one deletion then does not remove (286-291); overlapping updates are lost.
- ExpandPropertiesInString() (`UtilsgetFileContent.h:281-325`) expands the last variable only, drops the "$" of one without
  a delimiter, and leaves the output empty where there is no "$". A circle of references recurses for ever (60).
- searchFiles() finds the first match of each directory only, as a test says (`test_UtilsgetFileContent.cpp:361`), since names
  pile up on its path; and a second wildcard above the last name is spoilt.
- MoveFile() truncates a file that another has created since the look for the target (`UtilsFile.h:44-46`), and does not look whether
  the target of a failed copy, or the source of a good one, is gone (76-79).
- updateSystemModeFile() looks for a callsign in the whole line, its key included (`UtilsString.h:283-288`); the model looks in the
  value, so its callsigns are those that occur in no key.
- persistJsonSettings() and cSettings lose the file if the process dies between deleting or truncating it and writing it.
- AbstractPlugin's loops over versions never end for 255 (`AbstractPlugin.h:63`); Deinitialize() does not clear
  what it has noted, so a second one unregisters methods that no handler knows.

## Not modelled

Processes, the thread wrapper, the RDK profile, telemetry, RFC and TR-181 access: they forward one call to the system or a library and
keep no state. Build files and tests. Of modelled files: logging and macros everywhere; the front panel store and the fields
of the stores that are only passed on; parsing and formatting of JSON-RPC parameters; in `utils.cpp` the conversions and second
copies of helpers that are modelled from their own headers; TpTimer's interval, connect() and destructor; notifications of AbstractPlugin,
which go to every handler; LockApiGuards in threads that run no wrapped function; DSHelper's pure virtual call in a destructor that did not
call Close() (770).

## Plan

What is left, most useful first:

1. The composition of DSHelper with API locks: accessors that wait for `_initMutex` inside a locked API method.
2. TpTimer's destructor against a callback that runs.
3. DSStores under DSConfig as a refinement: a load's answer as a DSStores step.
