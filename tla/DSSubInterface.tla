--------------------------- MODULE DSSubInterface ---------------------------
(***************************************************************************)
(* The cache of DeviceSettings sub-interface proxies that DSHelper keeps:  *)
(* AcquireSubInterface<T>(), which fills it from any thread, and           *)
(* _releaseSubInterfaceCache(), which Operational(false) and Close() use   *)
(* to empty it.  Both take _subIfaceMutex, but AcquireSubInterface drops   *)
(* it during its COM-RPC round trip.  A critical section of that mutex is  *)
(* one action; what runs between two of them interleaves.                  *)
(*                                                                         *)
(* refs counts the references on the proxies, so that a use after the last *)
(* Release() or a leak shows as a count that does not match its holders.   *)
(***************************************************************************)
EXTENDS DSLink

CONSTANT Kinds  \* the interface IDs that are asked for, the keys of the cache

ASSUME KindsAssumption == Kinds # {}

\* The value of want while no interface is asked for.
AnyKind == CHOOSE k \in Kinds : TRUE

VARIABLES
    cache,      \* _subInterfaceCache: per kind the epoch of the cached proxy
    toRelease,  \* the proxies a caller of _releaseSubInterfaceCache swapped out
    refs,       \* references on the proxy of each kind and epoch
    acq,        \* per thread, how far its AcquireSubInterface() has come
    want,       \* per thread, the interface it asks for
    loc,        \* per thread, its local pointer: root, fresh or the result
    late        \* history: the <<kind, epoch>> cached while they were stale

subVars == <<cache, toRelease, refs, acq, want, loc, late>>
vars == <<linkVars, subVars>>

Releasers == {"operational", "close"}
AcqStates == {"idle", "root", "query", "store", "held"}

TypeOK ==
    /\ LinkTypeOK
    /\ cache \in [Kinds -> EpochOrNone]
    /\ toRelease \in [Releasers -> [Kinds -> EpochOrNone]]
    /\ refs \in [Kinds -> [Epochs -> Nat]]
    /\ acq \in [Threads -> AcqStates]
    /\ want \in [Threads -> Kinds]
    /\ loc \in [Threads -> EpochOrNone]
    /\ late \in SUBSET (Kinds \X Epochs)

EmptyCache == [k \in Kinds |-> 0]

SubInit ==
    /\ cache = EmptyCache
    /\ toRelease = [r \in Releasers |-> EmptyCache]
    /\ refs = [k \in Kinds |-> [e \in Epochs |-> 0]]
    /\ acq = [t \in Threads |-> "idle"]
    /\ want = [t \in Threads |-> AnyKind]
    /\ loc = [t \in Threads |-> 0]
    /\ late = {}

Init == LinkInit /\ SubInit

-----------------------------------------------------------------------------
(* AcquireSubInterface<T>() *)

\* refs after the proxy of epoch e has been AddRef'd
AddRef(k, e) == [refs EXCEPT ![k][e] = @ + 1]

\* refs after one reference to the proxy of epoch e has been released
DropRef(k, e) == [refs EXCEPT ![k][e] = @ - 1]

\* Mutant: the fast path returns the cached proxy without AddRef().
AcquireFastBorrows(t, k) ==
    /\ acq[t] = "idle"
    /\ MayCall(t)
    /\ cache[k] # 0
    /\ acq' = [acq EXCEPT ![t] = "held"]
    /\ want' = [want EXCEPT ![t] = k]
    /\ loc' = [loc EXCEPT ![t] = cache[k]]
    /\ UNCHANGED <<linkVars, cache, toRelease, refs, late>>

\* The fast path: the cached proxy is AddRef'd under the lock and returned.
AcquireFast(t, k) ==
    /\ acq[t] = "idle"
    /\ MayCall(t)
    /\ cache[k] # 0
    /\ acq' = [acq EXCEPT ![t] = "held"]
    /\ want' = [want EXCEPT ![t] = k]
    /\ loc' = [loc EXCEPT ![t] = cache[k]]
    /\ refs' = AddRef(k, cache[k])
    /\ UNCHANGED <<linkVars, cache, toRelease, late>>

\* Nothing cached: the lock is dropped for the slow path.
AcquireMiss(t, k) ==
    /\ acq[t] = "idle"
    /\ MayCall(t)
    /\ cache[k] = 0
    /\ acq' = [acq EXCEPT ![t] = "root"]
    /\ want' = [want EXCEPT ![t] = k]
    /\ UNCHANGED <<linkVars, cache, toRelease, refs, loc, late>>

\* Interface() has no root proxy: nullptr is returned.
NoRoot(t) ==
    /\ acq[t] = "root"
    /\ root = 0
    /\ acq' = [acq EXCEPT ![t] = "idle"]
    /\ want' = [want EXCEPT ![t] = AnyKind]
    /\ UNCHANGED <<linkVars, cache, toRelease, refs, loc, late>>

GetRoot(t) ==
    /\ acq[t] = "root"
    /\ root # 0
    /\ acq' = [acq EXCEPT ![t] = "query"]
    /\ loc' = [loc EXCEPT ![t] = root]
    /\ UNCHANGED <<linkVars, cache, toRelease, refs, want, late>>

\* QueryInterface on the root proxy fails: nullptr is returned.
QueryFails(t) ==
    /\ acq[t] = "query"
    /\ acq' = [acq EXCEPT ![t] = "idle"]
    /\ want' = [want EXCEPT ![t] = AnyKind]
    /\ loc' = [loc EXCEPT ![t] = 0]
    /\ UNCHANGED <<linkVars, cache, toRelease, refs, late>>

\* QueryInterface yields a fresh proxy with one reference, of the activation
\* the root proxy belongs to.
Query(t) ==
    /\ acq[t] = "query"
    /\ acq' = [acq EXCEPT ![t] = "store"]
    /\ refs' = AddRef(want[t], loc[t])
    /\ UNCHANGED <<linkVars, cache, toRelease, want, loc, late>>

\* A proxy is stale once its activation is no longer the one the link serves,
\* or once Close() has emptied the cache.
IsStale(e) == e # root \/ owner \in {"swapped", "close"}

\* Back under the lock: the slot is free, so the fresh proxy goes into it and
\* is AddRef'd for the caller.
StoreFresh(t) ==
    /\ acq[t] = "store"
    /\ cache[want[t]] = 0
    /\ cache' = [cache EXCEPT ![want[t]] = loc[t]]
    /\ acq' = [acq EXCEPT ![t] = "held"]
    /\ refs' = AddRef(want[t], loc[t])
    /\ late' = IF IsStale(loc[t]) THEN late \cup {<<want[t], loc[t]>>} ELSE late
    /\ UNCHANGED <<linkVars, toRelease, want, loc>>

\* Mutant: the thread that lost the race forgets its fresh proxy.
StoreLostLeaks(t) ==
    /\ acq[t] = "store"
    /\ cache[want[t]] # 0
    /\ acq' = [acq EXCEPT ![t] = "held"]
    /\ loc' = [loc EXCEPT ![t] = cache[want[t]]]
    /\ refs' = AddRef(want[t], cache[want[t]])
    /\ UNCHANGED <<linkVars, cache, toRelease, want, late>>

\* Back under the lock: another thread has cached a proxy meanwhile, so the
\* fresh one is released and the cached one AddRef'd and returned.
StoreLost(t) ==
    /\ acq[t] = "store"
    /\ cache[want[t]] # 0
    /\ acq' = [acq EXCEPT ![t] = "held"]
    /\ loc' = [loc EXCEPT ![t] = cache[want[t]]]
    /\ refs' = [DropRef(want[t], loc[t]) EXCEPT ![want[t]][cache[want[t]]] = @ + 1]
    /\ UNCHANGED <<linkVars, cache, toRelease, want, late>>

\* The caller is done with the proxy and calls Release().
Release(t) ==
    /\ acq[t] = "held"
    /\ acq' = [acq EXCEPT ![t] = "idle"]
    /\ want' = [want EXCEPT ![t] = AnyKind]
    /\ loc' = [loc EXCEPT ![t] = 0]
    /\ refs' = DropRef(want[t], loc[t])
    /\ UNCHANGED <<linkVars, cache, toRelease, late>>

Acquire(t) ==
    \/ \E k \in Kinds : AcquireFast(t, k) \/ AcquireMiss(t, k)
    \/ NoRoot(t) \/ GetRoot(t) \/ QueryFails(t) \/ Query(t)
    \/ StoreFresh(t) \/ StoreLost(t)

-----------------------------------------------------------------------------
(* _releaseSubInterfaceCache(): swap under the lock, release outside it. *)

\* Mutant: the cache is read, but not emptied, under the lock.
SwapOutCopies(r) ==
    /\ toRelease' = [toRelease EXCEPT ![r] = cache]
    /\ UNCHANGED <<cache, refs, acq, want, loc, late>>

SwapOut(r) ==
    /\ toRelease' = [toRelease EXCEPT ![r] = cache]
    /\ cache' = EmptyCache
    /\ UNCHANGED <<refs, acq, want, loc, late>>

ReleaseSwapped(r) ==
    /\ refs' = [k \in Kinds |-> [e \in Epochs |->
                  IF toRelease[r][k] = e THEN refs[k][e] - 1 ELSE refs[k][e]]]
    /\ toRelease' = [toRelease EXCEPT ![r] = EmptyCache]
    /\ UNCHANGED <<cache, acq, want, loc, late>>

-----------------------------------------------------------------------------
(* Operational() and Close(), as far as they touch the cache.  A callback  *)
(* returns only after the calls it made have returned.                     *)

Activated     == OpMoves("up", "activated") /\ UNCHANGED subVars
ActivatedEnd  == acq[Notifier] = "idle" /\ OpMoves("activated", "idle") /\ UNCHANGED subVars
DownSwap      == OpMoves("down", "release") /\ SwapOut("operational")
DownRelease   == OpMoves("release", "deactivated") /\ ReleaseSwapped("operational")
DeactivatedEnd == acq[Notifier] = "idle" /\ OpMoves("deactivated", "clear") /\ UNCHANGED subVars
DownEnd       == OpMoves("clear", "idle") /\ UNCHANGED subVars

CloseSwap    == CloseMoves("open", "swapped") /\ SwapOut("close")
CloseRelease == CloseMoves("swapped", "close") /\ ReleaseSwapped("close")

Operational == Activated \/ ActivatedEnd \/ DownSwap \/ DownRelease \/ DeactivatedEnd \/ DownEnd

Next ==
    \/ LinkStep /\ UNCHANGED subVars
    \/ Operational
    \/ CloseSwap \/ CloseRelease
    \/ \E t \in Threads : Acquire(t) \/ Release(t)

Spec == Init /\ [][Next]_vars

-----------------------------------------------------------------------------
(* Properties *)

\* The threads that hold a reference to the proxy of kind k and epoch e.
Holders(k, e) == {t \in Threads : acq[t] \in {"store", "held"} /\ want[t] = k /\ loc[t] = e}

One(b) == IF b THEN 1 ELSE 0

Owed(k, e) ==
    Cardinality(Holders(k, e))
    + One(cache[k] = e)
    + One(toRelease["operational"][k] = e)
    + One(toRelease["close"][k] = e)

\* The reference count of every proxy is exactly the number of its holders:
\* threads inside AcquireSubInterface() or still to call Release(), the cache,
\* and the two places that hold swapped-out entries.  So no thread uses a
\* released proxy, none is released twice, and none is forgotten, whichever way
\* the slow path, a concurrent fill, Operational(false) and Close() interleave.
RefsAccounted ==
    \A k \in Kinds, e \in Epochs : refs[k][e] = Owed(k, e)

\* Outside the moment between a deactivation and the swap in Operational(false),
\* a cached proxy is of the activation Interface() serves, unless a thread whose
\* slow path straddled a deactivation or a Close() put it there.
StaleOnlyLate ==
    \A k \in Kinds :
        cache[k] # 0 /\ op # "down" /\ <<k, cache[k]>> \notin late => cache[k] = root

\* Between the swap in Close() and the end of Close(), whatever is cached came too
\* late for the swap.
ClosingLate ==
    owner \in {"swapped", "close"} =>
        \A k \in Kinds : cache[k] # 0 => <<k, cache[k]>> \in late

\* A slow path past Interface() has a root, and past QueryInterface a proxy.
\* A swapped-out map is empty except until its proxies are released.
LocalsInv ==
    /\ \A t \in Threads : acq[t] \in {"query", "store", "held"} => loc[t] # 0
    /\ op # "release" => toRelease["operational"] = EmptyCache
    /\ owner # "swapped" => toRelease["close"] = EmptyCache

\* The inductive invariant.
IInv ==
    /\ TypeOK
    /\ LinkInv
    /\ LocalsInv
    /\ RefsAccounted
    /\ ClosingLate
    /\ StaleOnlyLate

\* "AcquireSubInterface() returns nullptr at this point" (the comment on
\* OnDeviceSettingsDeactivated()): the callback never gets hold of a proxy.
NullInDeactivated == op = "deactivated" => acq[Notifier] # "held"

=============================================================================
