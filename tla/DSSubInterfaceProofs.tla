------------------------ MODULE DSSubInterfaceProofs ------------------------
(***************************************************************************)
(* Proofs that DSSubInterface keeps its reference counts exact and caches  *)
(* a stale proxy only for a slow path that straddled a deactivation or a   *)
(* Close(), for any number of threads, interfaces and activations.         *)
(***************************************************************************)
EXTENDS DSSubInterface, FiniteSetTheorems, TLAPS

\* The placeholder for no interface is one of the kinds.
LEMMA AnyKindIsKind == AnyKind \in Kinds
BY KindsAssumption DEF AnyKind

-----------------------------------------------------------------------------
(* The link, whose invariant DSConfig and DSSubInterface build on *)

\* Activations, deactivations, Open() and Close() keep the link's variables typed
\* and the root proxy that of the running activation.
LEMMA LinkInvariance ==
    ASSUME LinkTypeOK, LinkInv, [LinkNext]_linkVars
    PROVE  LinkTypeOK' /\ LinkInv'
<1> USE LinkAssumption
<1> USE DEF LinkTypeOK, LinkInv, OwnerStates, EpochOrNone
<1>0. 0 \in EpochOrNone
  OBVIOUS
<1>1. CASE LinkStep
  <2> USE DEF OpStates
  <2>1. CASE PluginUp
    <3>1. epoch + 1 \in EpochOrNone /\ root = 0
      BY <2>1 DEF PluginUp
    <3>2. CASE link
      BY <2>1, <3>1, <3>2 DEF PluginUp
    <3>3. CASE ~link
      BY <2>1, <3>1, <3>3 DEF PluginUp
    <3> QED
      BY <3>2, <3>3
  <2>2. CASE PluginDown
    <3>1. CASE link
      BY <1>0, <2>2, <3>1 DEF PluginDown
    <3>2. CASE ~link
      BY <2>2, <3>2 DEF PluginDown
    <3> QED
      BY <3>1, <3>2
  <2>3. CASE Open
    BY <2>3 DEF Open
  <2>4. CASE OpenReturn
    BY <2>4 DEF OpenReturn
  <2>5. CASE BaseClose
    <3>1. op' \in {"idle", "down"}
      BY <2>5 DEF BaseClose
    <3>2. owner' = "closed" /\ link' = FALSE /\ root' = 0 /\ UNCHANGED <<up, epoch>>
      BY <2>5 DEF BaseClose
    <3>3. LinkTypeOK'
      BY <1>0, <3>1, <3>2
    <3>4. LinkInv'
      BY <3>2
    <3> QED
      BY <3>3, <3>4
  <2> QED
    BY <1>1, <2>1, <2>2, <2>3, <2>4, <2>5 DEF LinkStep
<1>2. ASSUME NEW from \in OpStates, NEW to \in OpStates, OpMoves(from, to)
      PROVE  LinkTypeOK' /\ LinkInv'
  BY <1>2 DEF OpMoves
<1>3. CASE CloseMoves("open", "swapped") \/ CloseMoves("swapped", "close")
  BY <1>3 DEF CloseMoves
<1>4. CASE UNCHANGED linkVars
  BY <1>4 DEF linkVars
<1> QED
  BY <1>1, <1>2, <1>3, <1>4 DEF LinkNext

-----------------------------------------------------------------------------
(* Sets of threads *)

\* A set of threads is finite and has a natural number of members.
LEMMA ThreadSets ==
    ASSUME NEW S \in SUBSET Threads
    PROVE  IsFiniteSet(S) /\ Cardinality(S) \in Nat
<1>1. IsFiniteSet(Threads)
  BY LinkAssumption, FS_AddElement DEF Threads
<1>2. IsFiniteSet(S)
  BY <1>1, FS_Subset
<1> QED
  BY <1>2, FS_CardinalityType

\* One more holder counts one more.
LEMMA AddHolder ==
    ASSUME NEW S \in SUBSET Threads, NEW t, t \notin S
    PROVE  Cardinality(S \cup {t}) = Cardinality(S) + 1
BY ThreadSets, FS_AddElement

\* One holder less counts one less, and there was at least one.
LEMMA DropHolder ==
    ASSUME NEW S \in SUBSET Threads, NEW t \in S
    PROVE  Cardinality(S \ {t}) = Cardinality(S) - 1
BY ThreadSets, FS_RemoveElement

\* What is owed is a natural number, before and after a step.
LEMMA OwedType ==
    ASSUME NEW k, NEW e
    PROVE  Owed(k, e) \in Nat /\ Owed(k, e)' \in Nat
<1>1. Holders(k, e) \in SUBSET Threads /\ Holders(k, e)' \in SUBSET Threads
  BY DEF Holders
<1>2. Cardinality(Holders(k, e)) \in Nat /\ Cardinality(Holders(k, e)') \in Nat
  BY <1>1, ThreadSets
<1>3. \A b : One(b) \in Nat
  BY DEF One
<1>4. Owed(k, e) \in Nat
  BY <1>2, <1>3 DEF Owed
<1>5. Owed(k, e)' \in Nat
  <2>1. Owed(k, e)' = Cardinality(Holders(k, e)') + One(cache[k] = e)'
                      + One(toRelease["operational"][k] = e)' + One(toRelease["close"][k] = e)'
    BY DEF Owed
  <2>2. /\ One(cache[k] = e)' \in Nat
        /\ One(toRelease["operational"][k] = e)' \in Nat
        /\ One(toRelease["close"][k] = e)' \in Nat
    BY DEF One
  <2> QED
    BY <1>2, <2>1, <2>2
<1> QED
  BY <1>4, <1>5

-----------------------------------------------------------------------------
(* Initial states *)

LEMMA InitIInv == Init => IInv
<1> SUFFICES ASSUME Init PROVE IInv
  OBVIOUS
<1> USE LinkAssumption
<1>1. TypeOK
  <2>1. 0 \in EpochOrNone /\ 0 \in Nat
    BY DEF EpochOrNone
  <2>2. LinkTypeOK
    BY <2>1 DEF Init, LinkInit, LinkTypeOK, OwnerStates, OpStates
  <2>3. cache \in [Kinds -> EpochOrNone] /\ toRelease \in [Releasers -> [Kinds -> EpochOrNone]]
    BY <2>1 DEF Init, SubInit, EmptyCache
  <2>4. want \in [Threads -> Kinds]
    BY AnyKindIsKind DEF Init, SubInit
  <2>5. /\ refs \in [Kinds -> [Epochs -> Nat]]
        /\ acq \in [Threads -> AcqStates]
        /\ loc \in [Threads -> EpochOrNone]
        /\ late \in SUBSET (Kinds \X Epochs)
    BY <2>1 DEF Init, SubInit, AcqStates
  <2> QED
    BY <2>2, <2>3, <2>4, <2>5 DEF TypeOK
<1>2. LinkInv /\ LocalsInv /\ ClosingLate /\ StaleOnlyLate
  BY DEF Init, LinkInit, SubInit, LinkInv, LocalsInv, ClosingLate, StaleOnlyLate, EmptyCache,
         Threads, Releasers
<1>3. RefsAccounted
  <2> SUFFICES ASSUME NEW k \in Kinds, NEW e \in Epochs PROVE refs[k][e] = Owed(k, e)
    BY DEF RefsAccounted
  <2>1. Holders(k, e) = {}
    BY DEF Init, SubInit, Holders
  <2>2. Cardinality(Holders(k, e)) = 0
    BY <2>1, FS_EmptySet
  <2>3. e # 0 /\ refs[k][e] = 0 /\ cache[k] = 0
    BY DEF Init, SubInit, EmptyCache, Epochs
  <2>4. toRelease["operational"][k] = 0 /\ toRelease["close"][k] = 0
    BY DEF Init, SubInit, EmptyCache, Releasers
  <2> QED
    BY <2>2, <2>3, <2>4 DEF Owed, One
<1> QED
  BY <1>1, <1>2, <1>3 DEF IInv

-----------------------------------------------------------------------------
(* The reference counts: one lemma for each way a step can change them. *)

\* A step that leaves the holders, the cache and the swapped-out maps alone
\* leaves what is owed alone.
LEMMA OwedSame ==
    ASSUME NEW k \in Kinds, NEW e \in Epochs,
           Holders(k, e)' = Holders(k, e), UNCHANGED <<cache, toRelease>>
    PROVE  Owed(k, e)' = Owed(k, e)
BY DEF Owed, One

\* The holders of each proxy depend on acq, want and loc only.
LEMMA HoldersSame ==
    ASSUME NEW k, NEW e, UNCHANGED <<acq, want, loc>>
    PROVE  Holders(k, e)' = Holders(k, e)
BY DEF Holders

\* A step of thread t leaves the locals of the other threads alone.
OthersSame(t) ==
    \A u \in Threads \ {t} : acq'[u] = acq[u] /\ want'[u] = want[u] /\ loc'[u] = loc[u]

\* A thread that ends up with a proxy it did not hold becomes a holder of it.
LEMMA HoldersGain ==
    ASSUME NEW t \in Threads, NEW k \in Kinds, NEW e \in Epochs,
           acq[t] \notin {"store", "held"}, acq'[t] \in {"store", "held"},
           want'[t] = k, loc'[t] = e, OthersSame(t)
    PROVE  /\ Holders(k, e)' = Holders(k, e) \cup {t} /\ t \notin Holders(k, e)
           /\ \A j \in Kinds, f \in Epochs :
                 <<j, f>> # <<k, e>> => Holders(j, f)' = Holders(j, f)
<1>1. acq'[t] \in {"store", "held"} /\ want'[t] = k /\ loc'[t] = e
  OBVIOUS
<1>2. \A u \in Threads \ {t} : acq'[u] = acq[u] /\ want'[u] = want[u] /\ loc'[u] = loc[u]
  BY DEF OthersSame
<1>3. t \notin Holders(k, e)
  BY DEF Holders
<1>4. Holders(k, e)' = Holders(k, e) \cup {t}
  BY <1>1, <1>2 DEF Holders
<1>5. ASSUME NEW j \in Kinds, NEW f \in Epochs, <<j, f>> # <<k, e>>
      PROVE  Holders(j, f)' = Holders(j, f)
  <2>1. t \notin Holders(j, f) /\ t \notin Holders(j, f)'
    BY <1>1, <1>5 DEF Holders
  <2> QED
    BY <1>2, <2>1 DEF Holders
<1> QED
  BY <1>3, <1>4, <1>5

\* A thread that held no proxy and still holds none changes no holders.
LEMMA HoldersNone ==
    ASSUME NEW t \in Threads, NEW k, NEW e,
           acq[t] \notin {"store", "held"}, acq'[t] \notin {"store", "held"},
           OthersSame(t)
    PROVE  Holders(k, e)' = Holders(k, e)
BY DEF Holders, OthersSame

\* A thread that stays a holder of the same proxy changes no holders.
LEMMA HoldersStay ==
    ASSUME NEW t \in Threads, NEW k, NEW e,
           acq[t] \in {"store", "held"}, acq'[t] \in {"store", "held"},
           want'[t] = want[t], loc'[t] = loc[t], OthersSame(t)
    PROVE  Holders(k, e)' = Holders(k, e)
BY DEF Holders, OthersSame

\* A thread that releases its proxy is no longer a holder of it.
LEMMA HoldersDrop ==
    ASSUME NEW t \in Threads, NEW k \in Kinds, NEW e \in Epochs,
           acq[t] \in {"store", "held"}, acq'[t] \notin {"store", "held"},
           want[t] = k, loc[t] = e, OthersSame(t)
    PROVE  /\ t \in Holders(k, e)
           /\ Holders(k, e)' = Holders(k, e) \ {t}
           /\ \A j \in Kinds, f \in Epochs :
                 <<j, f>> # <<k, e>> => Holders(j, f)' = Holders(j, f)
<1>1. t \in Holders(k, e)
  BY DEF Holders
<1>2. Holders(k, e)' = Holders(k, e) \ {t}
  BY DEF Holders, OthersSame
<1>3. ASSUME NEW j \in Kinds, NEW f \in Epochs, <<j, f>> # <<k, e>>
      PROVE  Holders(j, f)' = Holders(j, f)
  <2>1. t \notin Holders(j, f) /\ t \notin Holders(j, f)'
    BY <1>3 DEF Holders
  <2> QED
    BY <2>1 DEF Holders, OthersSame
<1> QED
  BY <1>1, <1>2, <1>3

\* The counts are exact and are counts.
RefsOK == RefsAccounted /\ refs \in [Kinds -> [Epochs -> Nat]]

\* A step that changes neither a count nor what is owed.
LEMMA RefsKept ==
    ASSUME RefsOK, UNCHANGED refs,
           \A j \in Kinds, f \in Epochs : Owed(j, f)' = Owed(j, f)
    PROVE  RefsOK'
BY DEF RefsOK, RefsAccounted

\* An AddRef() of a proxy that is owed one reference more.
LEMMA RefsGain ==
    ASSUME RefsOK, NEW k \in Kinds, NEW e \in Epochs,
           refs' = AddRef(k, e),
           Owed(k, e)' = Owed(k, e) + 1,
           \A j \in Kinds, f \in Epochs : <<j, f>> # <<k, e>> => Owed(j, f)' = Owed(j, f)
    PROVE  RefsOK'
<1>1. refs' \in [Kinds -> [Epochs -> Nat]]
  BY DEF RefsOK, AddRef
<1>2. ASSUME NEW j \in Kinds, NEW f \in Epochs PROVE refs'[j][f] = Owed(j, f)'
  <2>1. CASE <<j, f>> = <<k, e>>
    BY <2>1 DEF RefsOK, RefsAccounted, AddRef
  <2>2. CASE <<j, f>> # <<k, e>>
    BY <2>2 DEF RefsOK, RefsAccounted, AddRef
  <2> QED
    BY <2>1, <2>2
<1> QED
  BY <1>1, <1>2 DEF RefsOK, RefsAccounted

\* A Release() of a proxy that is owed one reference less.
LEMMA RefsDrop ==
    ASSUME RefsOK, NEW k \in Kinds, NEW e \in Epochs,
           refs' = DropRef(k, e),
           Owed(k, e)' = Owed(k, e) - 1,
           \A j \in Kinds, f \in Epochs : <<j, f>> # <<k, e>> => Owed(j, f)' = Owed(j, f)
    PROVE  RefsOK'
<1>1. refs' \in [Kinds -> [Epochs -> Int]]
  BY DEF RefsOK, DropRef
<1>2. ASSUME NEW j \in Kinds, NEW f \in Epochs PROVE refs'[j][f] = Owed(j, f)'
  <2>1. CASE <<j, f>> = <<k, e>>
    BY <2>1 DEF RefsOK, RefsAccounted, DropRef
  <2>2. CASE <<j, f>> # <<k, e>>
    BY <2>2 DEF RefsOK, RefsAccounted, DropRef
  <2> QED
    BY <2>1, <2>2
<1>3. refs' \in [Kinds -> [Epochs -> Nat]]
  BY <1>1, <1>2, OwedType
<1> QED
  BY <1>2, <1>3 DEF RefsOK, RefsAccounted

\* What is owed follows the holders when the cache does not change.
LEMMA OwedOfHolders ==
    ASSUME NEW k \in Kinds, NEW e \in Epochs, NEW d \in Int,
           Cardinality(Holders(k, e)') = Cardinality(Holders(k, e)) + d,
           UNCHANGED <<cache, toRelease>>
    PROVE  Owed(k, e)' = Owed(k, e) + d
<1>1. Cardinality(Holders(k, e)) \in Nat
  BY ThreadSets DEF Holders
<1> QED
  BY <1>1 DEF Owed, One

\* One thread more holds the proxy, and it has been AddRef'd.
LEMMA GainingRefs ==
    ASSUME RefsOK, NEW t, NEW k \in Kinds, NEW e \in Epochs,
           Holders(k, e)' = Holders(k, e) \cup {t}, t \notin Holders(k, e),
           \A j \in Kinds, f \in Epochs :
               <<j, f>> # <<k, e>> => Holders(j, f)' = Holders(j, f),
           refs' = AddRef(k, e), UNCHANGED <<cache, toRelease>>
    PROVE  RefsOK'
<1>1. Cardinality(Holders(k, e)') = Cardinality(Holders(k, e)) + 1
  BY AddHolder DEF Holders
<1>2. Owed(k, e)' = Owed(k, e) + 1
  BY <1>1, OwedOfHolders
<1>3. \A j \in Kinds, f \in Epochs : <<j, f>> # <<k, e>> => Owed(j, f)' = Owed(j, f)
  BY OwedSame
<1> QED
  BY <1>2, <1>3, RefsGain

\* One thread less holds the proxy, and it has been released.
LEMMA DroppingRefs ==
    ASSUME RefsOK, NEW k \in Kinds, NEW e \in Epochs, NEW t \in Holders(k, e),
           Holders(k, e)' = Holders(k, e) \ {t},
           \A j \in Kinds, f \in Epochs :
               <<j, f>> # <<k, e>> => Holders(j, f)' = Holders(j, f),
           refs' = DropRef(k, e), UNCHANGED <<cache, toRelease>>
    PROVE  RefsOK'
<1>1. Cardinality(Holders(k, e)') = Cardinality(Holders(k, e)) + (-1)
  BY DropHolder, ThreadSets DEF Holders
<1>2. Owed(k, e)' = Owed(k, e) + (-1)
  BY <1>1, OwedOfHolders
<1>3. Owed(k, e)' = Owed(k, e) - 1
  BY <1>2, OwedType
<1>4. \A j \in Kinds, f \in Epochs : <<j, f>> # <<k, e>> => Owed(j, f)' = Owed(j, f)
  BY OwedSame
<1> QED
  BY <1>3, <1>4, RefsDrop

-----------------------------------------------------------------------------
(* The reference counts: one lemma per action that changes them. *)

\* The actions of a thread change no other thread's locals.
LEMMA ThreadStep ==
    ASSUME TypeOK, NEW t \in Threads, Acquire(t) \/ Release(t)
    PROVE  OthersSame(t)
BY DEF TypeOK, OthersSame, Acquire, Release, AcquireFast, AcquireMiss, NoRoot, GetRoot,
       QueryFails, Query, StoreFresh, StoreLost

\* AcquireFast: the caller becomes a holder of the cached proxy.
LEMMA AcquireFastRefs ==
    ASSUME IInv, NEW t \in Threads, NEW k \in Kinds, AcquireFast(t, k)
    PROVE  RefsOK'
<1>1. TypeOK /\ RefsOK /\ cache[k] \in Epochs
  BY DEF IInv, AcquireFast, TypeOK, EpochOrNone, Epochs, RefsOK
<1>2. PICK e \in Epochs : e = cache[k]
  BY <1>1
<1>3. /\ acq[t] = "idle" /\ acq'[t] = "held" /\ want'[t] = k /\ loc'[t] = e
      /\ refs' = AddRef(k, e) /\ UNCHANGED <<cache, toRelease>>
  BY <1>1, <1>2 DEF AcquireFast, TypeOK
<1>4. /\ Holders(k, e)' = Holders(k, e) \cup {t} /\ t \notin Holders(k, e)
      /\ \A j \in Kinds, f \in Epochs : <<j, f>> # <<k, e>> => Holders(j, f)' = Holders(j, f)
  BY <1>1, <1>3, ThreadStep, HoldersGain DEF Acquire
<1> QED
  BY <1>1, <1>3, <1>4, GainingRefs

\* Query: the thread becomes the holder of the fresh proxy.
LEMMA QueryRefs ==
    ASSUME IInv, NEW t \in Threads, Query(t)
    PROVE  RefsOK'
<1>1. TypeOK /\ RefsOK /\ want[t] \in Kinds /\ loc[t] \in Epochs
  BY DEF IInv, Query, LocalsInv, TypeOK, EpochOrNone, Epochs, RefsOK
<1>2. PICK k \in Kinds, e \in Epochs : k = want[t] /\ e = loc[t]
  BY <1>1
<1>3. /\ acq[t] = "query" /\ acq'[t] = "store" /\ want'[t] = k /\ loc'[t] = e
      /\ refs' = AddRef(k, e) /\ UNCHANGED <<cache, toRelease>>
  BY <1>1, <1>2 DEF Query, TypeOK
<1>4. /\ Holders(k, e)' = Holders(k, e) \cup {t} /\ t \notin Holders(k, e)
      /\ \A j \in Kinds, f \in Epochs : <<j, f>> # <<k, e>> => Holders(j, f)' = Holders(j, f)
  BY <1>1, <1>3, ThreadStep, HoldersGain DEF Acquire
<1> QED
  BY <1>1, <1>3, <1>4, GainingRefs

\* Release: the caller is no longer a holder of its proxy.
LEMMA ReleaseRefs ==
    ASSUME IInv, NEW t \in Threads, Release(t)
    PROVE  RefsOK'
<1>1. TypeOK /\ RefsOK /\ want[t] \in Kinds /\ loc[t] \in Epochs
  BY DEF IInv, Release, LocalsInv, TypeOK, EpochOrNone, Epochs, RefsOK
<1>2. PICK k \in Kinds, e \in Epochs : k = want[t] /\ e = loc[t]
  BY <1>1
<1>3. /\ acq[t] = "held" /\ acq'[t] = "idle"
      /\ refs' = DropRef(k, e) /\ UNCHANGED <<cache, toRelease>>
  BY <1>1, <1>2 DEF Release, TypeOK
<1>4. /\ t \in Holders(k, e) /\ Holders(k, e)' = Holders(k, e) \ {t}
      /\ \A j \in Kinds, f \in Epochs : <<j, f>> # <<k, e>> => Holders(j, f)' = Holders(j, f)
  BY <1>1, <1>2, <1>3, ThreadStep, HoldersDrop
<1> QED
  BY <1>1, <1>3, <1>4, DroppingRefs

\* Counts that match what is owed are counts.
LEMMA RefsPointwise ==
    ASSUME refs' \in [Kinds -> [Epochs -> Int]],
           \A j \in Kinds, f \in Epochs : refs'[j][f] = Owed(j, f)'
    PROVE  RefsOK'
BY OwedType DEF RefsOK, RefsAccounted

\* StoreFresh: the thread keeps its reference to the fresh proxy, and the cache
\* becomes a second holder.
LEMMA StoreFreshRefs ==
    ASSUME IInv, NEW t \in Threads, StoreFresh(t)
    PROVE  RefsOK'
<1>1. TypeOK /\ RefsOK /\ want[t] \in Kinds /\ loc[t] \in Epochs
  BY DEF IInv, StoreFresh, LocalsInv, TypeOK, EpochOrNone, Epochs, RefsOK
<1>2. PICK k \in Kinds, e \in Epochs : k = want[t] /\ e = loc[t]
  BY <1>1
<1>3. /\ cache[k] = 0 /\ cache' = [cache EXCEPT ![k] = e]
      /\ refs' = AddRef(k, e) /\ UNCHANGED toRelease
  BY <1>1, <1>2 DEF StoreFresh
<1>4. ASSUME NEW j \in Kinds, NEW f \in Epochs PROVE Holders(j, f)' = Holders(j, f)
  <2>1. /\ acq[t] = "store" /\ acq'[t] = "held" /\ want'[t] = want[t] /\ loc'[t] = loc[t]
    BY <1>1 DEF StoreFresh, TypeOK
  <2> QED
    BY <1>1, <2>1, ThreadStep, HoldersStay DEF Acquire
<1>5. ASSUME NEW j \in Kinds, NEW f \in Epochs, <<j, f>> # <<k, e>>
      PROVE  Owed(j, f)' = Owed(j, f)
  <2>1. (cache'[j] = f) <=> (cache[j] = f)
    BY <1>1, <1>3, <1>5 DEF TypeOK, Epochs
  <2> QED
    BY <1>3, <1>4, <2>1 DEF Owed, One
<1>6. Owed(k, e)' = Owed(k, e) + 1
  <2>1. cache'[k] = e /\ cache[k] # e
    BY <1>1, <1>3 DEF TypeOK, Epochs
  <2>2. Cardinality(Holders(k, e)) \in Nat
    BY ThreadSets DEF Holders
  <2> QED
    BY <1>3, <1>4, <2>1, <2>2 DEF Owed, One
<1> QED
  BY <1>1, <1>3, <1>5, <1>6, RefsGain

\* StoreLost: the thread gives up the fresh proxy for the cached one.
LEMMA StoreLostRefs ==
    ASSUME IInv, NEW t \in Threads, StoreLost(t)
    PROVE  RefsOK'
<1>1. TypeOK /\ RefsOK /\ want[t] \in Kinds /\ loc[t] \in Epochs /\ cache[want[t]] \in Epochs
  BY DEF IInv, StoreLost, LocalsInv, TypeOK, EpochOrNone, Epochs, RefsOK
<1>2. PICK k \in Kinds, e \in Epochs, c \in Epochs :
          k = want[t] /\ e = loc[t] /\ c = cache[want[t]]
  BY <1>1
<1>3. /\ acq[t] = "store" /\ acq'[t] = "held" /\ want'[t] = k /\ loc'[t] = c
      /\ refs' = [DropRef(k, e) EXCEPT ![k][c] = @ + 1] /\ UNCHANGED <<cache, toRelease>>
  <2>1. refs' = [DropRef(k, e) EXCEPT ![k][c] = @ + 1]
    BY <1>2 DEF StoreLost
  <2>2. acq[t] = "store" /\ acq'[t] = "held" /\ UNCHANGED <<cache, toRelease>>
    BY <1>1 DEF StoreLost, TypeOK
  <2>3. want'[t] = k /\ loc'[t] = c
    BY <1>1, <1>2 DEF StoreLost, TypeOK
  <2> QED
    BY <2>1, <2>2, <2>3
<1>4. OthersSame(t)
  BY <1>1, ThreadStep DEF Acquire
<1>5. refs' \in [Kinds -> [Epochs -> Int]]
  BY <1>1, <1>3 DEF RefsOK, DropRef
<1>6. CASE e = c
  <2>1. ASSUME NEW j \in Kinds, NEW f \in Epochs PROVE Owed(j, f)' = Owed(j, f)
    <3>1. want'[t] = want[t] /\ loc'[t] = loc[t]
      BY <1>2, <1>3, <1>6
    <3>2. Holders(j, f)' = Holders(j, f)
      BY <1>3, <1>4, <3>1, HoldersStay
    <3> QED
      BY <1>3, <3>2, OwedSame
  <2>2. ASSUME NEW j \in Kinds, NEW f \in Epochs PROVE refs'[j][f] = refs[j][f]
    BY <1>1, <1>3, <1>6 DEF RefsOK, DropRef
  <2> QED
    BY <1>1, <1>5, <2>1, <2>2, RefsPointwise DEF RefsOK, RefsAccounted
<1>7. CASE e # c
  <2>1. /\ t \in Holders(k, e) /\ Holders(k, e)' = Holders(k, e) \ {t}
        /\ t \notin Holders(k, c) /\ Holders(k, c)' = Holders(k, c) \cup {t}
    BY <1>2, <1>3, <1>4, <1>7 DEF Holders, OthersSame
  <2>2. ASSUME NEW j \in Kinds, NEW f \in Epochs, <<j, f>> # <<k, e>>, <<j, f>> # <<k, c>>
        PROVE  Owed(j, f)' = Owed(j, f)
    <3>1. t \notin Holders(j, f) /\ t \notin Holders(j, f)'
      BY <1>2, <1>3, <2>2 DEF Holders
    <3>2. Holders(j, f)' = Holders(j, f)
      BY <1>4, <3>1 DEF Holders, OthersSame
    <3> QED
      BY <1>3, <3>2, OwedSame
  <2>3. Owed(k, e)' = Owed(k, e) + (-1)
    <3>1. Cardinality(Holders(k, e)') = Cardinality(Holders(k, e)) + (-1)
      BY <2>1, DropHolder, ThreadSets DEF Holders
    <3> QED
      BY <1>3, <3>1, OwedOfHolders
  <2>4. Owed(k, c)' = Owed(k, c) + 1
    <3>1. Cardinality(Holders(k, c)') = Cardinality(Holders(k, c)) + 1
      BY <2>1, AddHolder DEF Holders
    <3> QED
      BY <1>3, <3>1, OwedOfHolders
  <2>5. /\ refs'[k][e] = refs[k][e] - 1
        /\ refs'[k][c] = refs[k][c] + 1
        /\ \A j \in Kinds, f \in Epochs :
              <<j, f>> # <<k, e>> /\ <<j, f>> # <<k, c>> => refs'[j][f] = refs[j][f]
    BY <1>1, <1>3, <1>7 DEF RefsOK, DropRef
  <2>6. ASSUME NEW j \in Kinds, NEW f \in Epochs PROVE refs'[j][f] = Owed(j, f)'
    <3>1. refs[j][f] = Owed(j, f) /\ Owed(j, f) \in Nat
      BY <1>1, OwedType DEF RefsOK, RefsAccounted
    <3>2. CASE <<j, f>> = <<k, e>>
      BY <2>3, <2>5, <3>1, <3>2
    <3>3. CASE <<j, f>> = <<k, c>>
      BY <2>4, <2>5, <3>1, <3>3
    <3>4. CASE <<j, f>> # <<k, e>> /\ <<j, f>> # <<k, c>>
      BY <2>2, <2>5, <3>1, <3>4
    <3> QED
      BY <3>2, <3>3, <3>4
  <2> QED
    BY <1>5, <2>6, RefsPointwise
<1> QED
  BY <1>6, <1>7

\* A swap moves every cached reference to the map that is swapped out, which
\* was empty.
LEMMA SwapOutRefs ==
    ASSUME TypeOK, RefsOK, NEW r \in Releasers, toRelease[r] = EmptyCache, SwapOut(r)
    PROVE  RefsOK'
<1>1. ASSUME NEW k \in Kinds, NEW e \in Epochs PROVE Owed(k, e)' = Owed(k, e)
  <2>1. Holders(k, e)' = Holders(k, e)
    BY HoldersSame DEF SwapOut
  <2>2. e # 0 /\ cache'[k] = 0 /\ toRelease[r][k] = 0 /\ toRelease'[r][k] = cache[k]
    BY DEF SwapOut, EmptyCache, TypeOK, Epochs
  <2>3. \A q \in Releasers \ {r} : toRelease'[q] = toRelease[q]
    BY DEF SwapOut, TypeOK
  <2>4. Cardinality(Holders(k, e)) \in Nat
    BY ThreadSets DEF Holders
  <2> QED
    BY <2>1, <2>2, <2>3, <2>4 DEF Owed, One, Releasers
<1> QED
  BY <1>1, RefsKept DEF SwapOut

\* The loop over the swapped-out map releases each reference it holds, once.
LEMMA ReleaseSwappedRefs ==
    ASSUME TypeOK, RefsOK, NEW r \in Releasers, ReleaseSwapped(r)
    PROVE  RefsOK'
<1>1. refs' \in [Kinds -> [Epochs -> Int]]
  BY DEF RefsOK, ReleaseSwapped
<1>2. ASSUME NEW k \in Kinds, NEW e \in Epochs PROVE refs'[k][e] = Owed(k, e)'
  <2>1. Holders(k, e)' = Holders(k, e) /\ Cardinality(Holders(k, e)) \in Nat
    BY HoldersSame, ThreadSets DEF ReleaseSwapped, Holders
  <2>2. e # 0 /\ toRelease'[r][k] = 0 /\ cache' = cache
    BY DEF ReleaseSwapped, EmptyCache, TypeOK, Epochs
  <2>3. \A q \in Releasers \ {r} : toRelease'[q] = toRelease[q]
    BY DEF ReleaseSwapped, TypeOK
  <2>4. refs'[k][e] = IF toRelease[r][k] = e THEN refs[k][e] - 1 ELSE refs[k][e]
    BY DEF ReleaseSwapped
  <2>5. refs[k][e] = Owed(k, e)
    BY DEF RefsOK, RefsAccounted
  <2> QED
    BY <2>1, <2>2, <2>3, <2>4, <2>5 DEF Owed, One, Releasers
<1> QED
  BY <1>1, <1>2, RefsPointwise

\* Every step keeps the counts.
LEMMA RefsStep == IInv /\ [Next]_vars => RefsOK'
<1> SUFFICES ASSUME IInv, [Next]_vars PROVE RefsOK'
  OBVIOUS
<1>1. TypeOK /\ RefsOK /\ LocalsInv
  BY DEF IInv, RefsOK, TypeOK
<1>2. ASSUME UNCHANGED <<refs, acq, want, loc, cache, toRelease>> PROVE RefsOK'
  BY <1>1, <1>2, HoldersSame, OwedSame, RefsKept
<1>3. ASSUME NEW t \in Threads, acq[t] \notin {"store", "held"}, acq'[t] \notin {"store", "held"},
             OthersSame(t), UNCHANGED <<refs, cache, toRelease>>
      PROVE  RefsOK'
  BY <1>1, <1>3, HoldersNone, OwedSame, RefsKept
<1>4. CASE LinkStep /\ UNCHANGED subVars
  BY <1>2, <1>4 DEF subVars
<1>5. CASE Activated \/ ActivatedEnd \/ DeactivatedEnd \/ DownEnd
  BY <1>2, <1>5 DEF Activated, ActivatedEnd, DeactivatedEnd, DownEnd, subVars
<1>6. CASE DownSwap
  BY <1>1, <1>6, SwapOutRefs DEF DownSwap, OpMoves, LocalsInv, Releasers
<1>7. CASE DownRelease
  BY <1>1, <1>7, ReleaseSwappedRefs DEF DownRelease, Releasers
<1>8. CASE CloseSwap
  BY <1>1, <1>8, SwapOutRefs DEF CloseSwap, CloseMoves, LocalsInv, Releasers
<1>9. CASE CloseRelease
  BY <1>1, <1>9, ReleaseSwappedRefs DEF CloseRelease, Releasers
<1>10. ASSUME NEW t \in Threads, Acquire(t) PROVE RefsOK'
  <2>1. OthersSame(t)
    BY <1>1, <1>10, ThreadStep
  <2>2. ASSUME NEW k \in Kinds, AcquireFast(t, k) PROVE RefsOK'
    BY <2>2, AcquireFastRefs
  <2>3. ASSUME NEW k \in Kinds, AcquireMiss(t, k) PROVE RefsOK'
    BY <1>1, <1>3, <2>1, <2>3 DEF AcquireMiss, TypeOK
  <2>4. CASE NoRoot(t) \/ GetRoot(t) \/ QueryFails(t)
    <3>1. acq[t] \notin {"store", "held"} /\ acq'[t] \notin {"store", "held"}
      BY <1>1, <2>4 DEF NoRoot, GetRoot, QueryFails, TypeOK
    <3>2. UNCHANGED <<refs, cache, toRelease>>
      BY <2>4 DEF NoRoot, GetRoot, QueryFails
    <3> QED
      BY <1>3, <2>1, <3>1, <3>2
  <2>5. CASE Query(t)
    BY <2>5, QueryRefs
  <2>6. CASE StoreFresh(t)
    BY <2>6, StoreFreshRefs
  <2>7. CASE StoreLost(t)
    BY <2>7, StoreLostRefs
  <2> QED
    BY <1>10, <2>2, <2>3, <2>4, <2>5, <2>6, <2>7 DEF Acquire
<1>11. ASSUME NEW t \in Threads, Release(t) PROVE RefsOK'
  BY <1>11, ReleaseRefs
<1>12. CASE UNCHANGED vars
  BY <1>2, <1>12 DEF vars, subVars
<1> QED
  BY <1>4, <1>5, <1>6, <1>7, <1>8, <1>9, <1>10, <1>11, <1>12 DEF Next, Operational

-----------------------------------------------------------------------------
(* The other conjuncts of the invariant *)

\* Every step moves the link as DSLink says, or not at all.
LEMMA StepOfLink == [Next]_vars => [LinkNext]_linkVars
<1> SUFFICES ASSUME [Next]_vars PROVE [LinkNext]_linkVars
  OBVIOUS
<1>1. CASE Operational
  <2> USE DEF OpStates, LinkNext
  <2>1. CASE Activated
    BY <2>1 DEF Activated
  <2>2. CASE ActivatedEnd
    BY <2>2 DEF ActivatedEnd
  <2>3. CASE DownSwap
    BY <2>3 DEF DownSwap
  <2>4. CASE DownRelease
    BY <2>4 DEF DownRelease
  <2>5. CASE DeactivatedEnd
    BY <2>5 DEF DeactivatedEnd
  <2>6. CASE DownEnd
    BY <2>6 DEF DownEnd
  <2> QED
    BY <1>1, <2>1, <2>2, <2>3, <2>4, <2>5, <2>6 DEF Operational
<1>2. CASE CloseSwap \/ CloseRelease
  BY <1>2 DEF CloseSwap, CloseRelease, LinkNext
<1>3. ASSUME NEW t \in Threads, Acquire(t) \/ Release(t) PROVE UNCHANGED linkVars
  BY <1>3 DEF Acquire, Release, AcquireFast, AcquireMiss, NoRoot, GetRoot, QueryFails, Query,
              StoreFresh, StoreLost
<1> QED
  BY <1>1, <1>2, <1>3 DEF Next, LinkNext, vars

\* The types of the cache's own variables.
LEMMA TypeStep == IInv /\ [Next]_vars => TypeOK'
<1> SUFFICES ASSUME IInv, [Next]_vars PROVE TypeOK'
  OBVIOUS
<1>1. LinkTypeOK' /\ refs' \in [Kinds -> [Epochs -> Nat]]
  BY RefsStep, StepOfLink, LinkInvariance DEF IInv, TypeOK, RefsOK
<1>2. TypeOK /\ 0 \in EpochOrNone /\ root \in EpochOrNone /\ EmptyCache \in [Kinds -> EpochOrNone]
  BY LinkAssumption DEF IInv, TypeOK, LinkTypeOK, EpochOrNone, EmptyCache
<1> DEFINE SubTypeOK == /\ cache \in [Kinds -> EpochOrNone]
                        /\ toRelease \in [Releasers -> [Kinds -> EpochOrNone]]
                        /\ acq \in [Threads -> AcqStates]
                        /\ want \in [Threads -> Kinds]
                        /\ loc \in [Threads -> EpochOrNone]
                        /\ late \in SUBSET (Kinds \X Epochs)
<1>3. SubTypeOK
  BY <1>2 DEF TypeOK
<1> USE <1>2, <1>3, AnyKindIsKind DEF AcqStates, Releasers
<1>4. SubTypeOK'
  <2>1. CASE UNCHANGED subVars
    BY <2>1 DEF subVars
  <2>2. ASSUME NEW r \in Releasers, SwapOut(r) PROVE SubTypeOK'
    BY <2>2 DEF SwapOut
  <2>3. ASSUME NEW r \in Releasers, ReleaseSwapped(r) PROVE SubTypeOK'
    BY <2>3 DEF ReleaseSwapped
  <2>4. CASE Operational
    BY <2>1, <2>2, <2>3, <2>4
       DEF Operational, Activated, ActivatedEnd, DownSwap, DownRelease, DeactivatedEnd, DownEnd
  <2>5. CASE CloseSwap \/ CloseRelease
    BY <2>2, <2>3, <2>5 DEF CloseSwap, CloseRelease
  <2>6. ASSUME NEW t \in Threads, Acquire(t) \/ Release(t) PROVE SubTypeOK'
    <3>1. ASSUME NEW k \in Kinds, AcquireFast(t, k) \/ AcquireMiss(t, k) PROVE SubTypeOK'
      BY <3>1 DEF AcquireFast, AcquireMiss
    <3>2. CASE NoRoot(t) \/ GetRoot(t) \/ QueryFails(t) \/ Query(t)
      BY <3>2 DEF NoRoot, GetRoot, QueryFails, Query
    <3>3. CASE StoreFresh(t)
      <4>1. <<want[t], loc[t]>> \in Kinds \X Epochs
        BY <3>3 DEF IInv, LocalsInv, StoreFresh, EpochOrNone, Epochs
      <4> QED
        BY <3>3, <4>1 DEF StoreFresh
    <3>4. CASE StoreLost(t) \/ Release(t)
      BY <3>4 DEF StoreLost, Release
    <3> QED
      BY <2>6, <3>1, <3>2, <3>3, <3>4 DEF Acquire
  <2>7. CASE UNCHANGED vars
    BY <2>1, <2>7 DEF vars
  <2> QED
    BY <2>1, <2>4, <2>5, <2>6, <2>7 DEF Next
<1> QED
  BY <1>1, <1>4 DEF TypeOK

\* A slow path keeps what it has fetched, and a swapped-out map is filled only by
\* the swap and emptied by the loop that follows it.
LEMMA LocalsStep == IInv /\ [Next]_vars => LocalsInv'
<1> SUFFICES ASSUME IInv, [Next]_vars PROVE LocalsInv'
  OBVIOUS
<1> USE DEF LocalsInv, Releasers
<1>1. TypeOK /\ LocalsInv
  BY DEF IInv
<1>2. CASE UNCHANGED subVars /\ (op' = "release" => op = "release")
                             /\ (owner' = "swapped" => owner = "swapped")
                             /\ (op = "release" => op' = "release")
                             /\ (owner = "swapped" => owner' = "swapped")
  BY <1>1, <1>2 DEF subVars
<1>3. CASE LinkStep /\ UNCHANGED subVars
  BY <1>2, <1>3 DEF LinkStep, PluginUp, PluginDown, Open, OpenReturn, BaseClose
<1>4. CASE Operational
  <2>1. CASE Activated \/ ActivatedEnd \/ DeactivatedEnd \/ DownEnd
    BY <1>2, <2>1 DEF Activated, ActivatedEnd, DeactivatedEnd, DownEnd, OpMoves
  <2>2. CASE DownSwap
    BY <1>1, <2>2 DEF DownSwap, OpMoves, SwapOut, TypeOK
  <2>3. CASE DownRelease
    BY <1>1, <2>3 DEF DownRelease, OpMoves, ReleaseSwapped, TypeOK
  <2> QED
    BY <1>4, <2>1, <2>2, <2>3 DEF Operational
<1>5. CASE CloseSwap
  BY <1>1, <1>5 DEF CloseSwap, CloseMoves, SwapOut, TypeOK
<1>6. CASE CloseRelease
  BY <1>1, <1>6 DEF CloseRelease, CloseMoves, ReleaseSwapped, TypeOK
<1>7. ASSUME NEW t \in Threads, Acquire(t) \/ Release(t) PROVE LocalsInv'
  <2>1. OthersSame(t)
    BY <1>1, <1>7, ThreadStep
  <2>2. acq'[t] \in {"query", "store", "held"} => loc'[t] # 0
    BY <1>1, <1>7 DEF Acquire, Release, AcquireFast, AcquireMiss, NoRoot, GetRoot, QueryFails,
                      Query, StoreFresh, StoreLost, TypeOK
  <2>3. UNCHANGED <<op, owner, toRelease>>
    BY <1>7 DEF Acquire, Release, AcquireFast, AcquireMiss, NoRoot, GetRoot, QueryFails,
                Query, StoreFresh, StoreLost, linkVars
  <2> QED
    BY <1>1, <2>1, <2>2, <2>3 DEF OthersSame
<1>8. CASE UNCHANGED vars
  BY <1>2, <1>8 DEF vars, linkVars
<1> QED
  BY <1>3, <1>4, <1>5, <1>6, <1>7, <1>8 DEF Next

\* Only StoreFresh fills the cache, and it records what it caches stale; a new
\* root proxy appears, or the old one goes, only when the cache holds nothing but
\* recorded entries or is about to be swapped out.
LEMMA StaleStep == IInv /\ [Next]_vars => ClosingLate' /\ StaleOnlyLate'
<1> SUFFICES ASSUME IInv, [Next]_vars PROVE ClosingLate' /\ StaleOnlyLate'
  OBVIOUS
<1> USE DEF ClosingLate, StaleOnlyLate
<1>1. TypeOK /\ LinkInv /\ ClosingLate /\ StaleOnlyLate
  BY DEF IInv
<1>2. CASE UNCHANGED <<cache, late, root, owner>> /\ (op' = "down" <=> op = "down")
  BY <1>1, <1>2
<1>3. CASE LinkStep /\ UNCHANGED subVars
  <2>1. UNCHANGED <<cache, late>>
    BY <1>3 DEF subVars
  <2>2. CASE PluginUp
    <3>1. root = 0 /\ op = "idle" /\ owner' = owner
      BY <1>1, <2>2 DEF PluginUp, LinkInv
    <3> QED
      BY <1>1, <2>1, <3>1
  <2>3. CASE PluginDown
    BY <1>1, <2>1, <2>3 DEF PluginDown
  <2>4. CASE Open
    <3>1. root = 0 /\ op = "idle" /\ owner' = "opening"
      BY <1>1, <2>4 DEF Open, LinkInv
    <3> QED
      BY <1>1, <2>1, <3>1
  <2>5. CASE OpenReturn
    BY <1>1, <2>1, <2>5 DEF OpenReturn
  <2>6. CASE BaseClose
    BY <1>1, <2>1, <2>6 DEF BaseClose
  <2> QED
    BY <1>3, <2>2, <2>3, <2>4, <2>5, <2>6 DEF LinkStep
<1>4. ASSUME NEW r, SwapOut(r) PROVE ClosingLate' /\ StaleOnlyLate'
  BY <1>4 DEF SwapOut, EmptyCache
<1>5. CASE Operational
  <2>1. CASE Activated \/ ActivatedEnd \/ DownRelease \/ DeactivatedEnd \/ DownEnd
    BY <1>2, <2>1 DEF Activated, ActivatedEnd, DownRelease, DeactivatedEnd, DownEnd, OpMoves,
                      ReleaseSwapped, subVars
  <2>2. CASE DownSwap
    BY <1>4, <2>2 DEF DownSwap
  <2> QED
    BY <1>5, <2>1, <2>2 DEF Operational
<1>6. CASE CloseSwap
  BY <1>4, <1>6 DEF CloseSwap, CloseMoves
<1>7. CASE CloseRelease
  BY <1>1, <1>7 DEF CloseRelease, CloseMoves, ReleaseSwapped
<1>8. ASSUME NEW t \in Threads, Acquire(t) \/ Release(t) PROVE ClosingLate' /\ StaleOnlyLate'
  <2>1. CASE StoreFresh(t)
    <3>1. want[t] \in Kinds /\ UNCHANGED <<op, owner, root>> /\ late \subseteq late'
      BY <1>1, <2>1 DEF StoreFresh, TypeOK, linkVars
    <3>2. cache'[want[t]] = loc[t] /\ \A k \in Kinds \ {want[t]} : cache'[k] = cache[k]
      BY <1>1, <2>1 DEF StoreFresh, TypeOK
    <3>3. IsStale(loc[t]) => <<want[t], loc[t]>> \in late'
      BY <2>1 DEF StoreFresh
    <3> QED
      BY <1>1, <3>1, <3>2, <3>3 DEF IsStale
  <2>2. CASE ~StoreFresh(t)
    BY <1>2, <1>8, <2>2
       DEF Acquire, Release, AcquireFast, AcquireMiss, NoRoot, GetRoot, QueryFails, Query,
           StoreLost, linkVars
  <2> QED
    BY <2>1, <2>2
<1>9. CASE UNCHANGED vars
  BY <1>2, <1>9 DEF vars, linkVars, subVars
<1> QED
  BY <1>3, <1>5, <1>6, <1>7, <1>8, <1>9 DEF Next

-----------------------------------------------------------------------------
(* Theorems *)

\* The invariant holds in every reachable state.
THEOREM Invariance == Spec => []IInv
<1>1. IInv /\ [Next]_vars => IInv'
  BY TypeStep, RefsStep, LocalsStep, StaleStep, StepOfLink, LinkInvariance DEF IInv, TypeOK, RefsOK
<1> QED
  BY InitIInv, <1>1, PTL DEF Spec

\* Every variable keeps its type; in particular no reference count of a proxy
\* becomes negative, so AcquireSubInterface(), its callers, Operational(false)
\* and Close() never release a proxy once too often.
THEOREM TypeCorrect == Spec => []TypeOK
BY Invariance, PTL DEF IInv

\* The reference count of every proxy is the number of its holders, for any
\* number of threads, interfaces and activations: AcquireSubInterface() returns
\* no released proxy and the cache's swap forgets none.
THEOREM RefsExact == Spec => []RefsAccounted
BY Invariance, PTL DEF IInv

\* A stale proxy stays cached only if a slow path that straddled a deactivation
\* or a Close() put it there: Operational(false) and Close() miss nothing else.
THEOREM NoOtherStale == Spec => []StaleOnlyLate
BY Invariance, PTL DEF IInv
=============================================================================
