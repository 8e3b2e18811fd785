--------------------------- MODULE DSHelperProofs ---------------------------
(***************************************************************************)
(* DSHelper implements DSSubInterface and DSConfig: what is proved of each *)
(* of them alone holds of the two together; and from that, that the        *)
(* handles a load fetches are of the activation its answer is of.          *)
(***************************************************************************)
EXTENDS DSHelper, TLAPS

-----------------------------------------------------------------------------
(* The sub-interface cache *)

\* What a load or an accessor does by itself leaves the cache and the link alone.
LEMMA SubConfigStep ==
  ASSUME NEW t \in Threads, ConfigStep(t)
  PROVE  UNCHANGED <<linkVars, subVars>>
<1>1. UNCHANGED subVars
  BY DEF ConfigStep
<1>2. UNCHANGED linkVars
  <2>1. CASE Cfg!Accessor(t)
    BY <2>1 DEF Cfg!Accessor, Cfg!EnsureFast, Cfg!EnsureSlow, Cfg!EnsureSkip, Cfg!EnsureLoad,
                Cfg!Read, Cfg!PeekBegin, Cfg!PeekEnd, Cfg!linkVars, linkVars
  <2>2. CASE Cfg!LoadFails(t) \/ Cfg!LoadAnswer(t) \/ Cfg!Commit(t) \/ Cfg!LoadReturn(t)
    BY <2>2 DEF Cfg!LoadFails, Cfg!LoadAnswer, Cfg!Commit, Cfg!LoadReturn, Cfg!linkVars, linkVars
  <2>3. CASE Cfg!ReloadCall(t) \/ Cfg!ReloadAnswer(t) \/ Cfg!ReloadCommit(t)
             \/ Cfg!ReloadReturn(t) \/ Cfg!ReloadFails(t)
    BY <2>3 DEF Cfg!ReloadCall, Cfg!ReloadAnswer, Cfg!ReloadCommit, Cfg!ReloadReturn,
                Cfg!ReloadFails, Cfg!linkVars, linkVars
  <2>4. CASE Cfg!ResolutionsStored(t)
    BY <2>4 DEF Cfg!ResolutionsStored, Cfg!linkVars, linkVars
  <2> QED
    BY <2>1, <2>2, <2>3, <2>4 DEF ConfigStep
<1> QED
  BY <1>1, <1>2

\* Every step of DSHelper is a step of DSSubInterface or leaves its state alone.
LEMMA SubStep == [Next]_vars => [Sub!Next]_(Sub!vars)
<1> SUFFICES ASSUME [Next]_vars PROVE [Sub!Next]_(Sub!vars)
  OBVIOUS
<1>0. Sub!Threads = Threads
  BY DEF Threads, Sub!Threads
<1>1. ASSUME NEW t \in Threads, ThreadStep(t) PROVE [Sub!Next]_(Sub!vars)
  <2>1. CASE ConfigStep(t)
    BY <2>1, SubConfigStep DEF linkVars, subVars, Sub!vars, Sub!subVars, Sub!linkVars
  <2>2. CASE AcquireCall(t)
    BY <1>0, <2>2 DEF AcquireCall, Sub!Next, Sub!Acquire
  <2>3. CASE AcquireGoesOn(t) \/ ClientDone(t) \/ LoadWithout(t) \/ LoadWith(t)
             \/ ReloadWithout(t) \/ ReloadWith(t) \/ ResolutionsWith(t)
    BY <1>0, <2>3 DEF AcquireGoesOn, ClientDone, LoadWithout, LoadWith, ReloadWithout, ReloadWith,
                      ResolutionsWith, Sub!Next, Sub!Acquire
  <2> QED
    BY <1>1, <2>1, <2>2, <2>3 DEF ThreadStep
<1>2. CASE Cfg!LinkChanges /\ UNCHANGED subVars
  BY <1>2 DEF Cfg!LinkChanges, subVars, Sub!Next, Sub!subVars, Sub!LinkStep,
              Cfg!PluginUp, Sub!PluginUp, Cfg!PluginDown, Sub!PluginDown,
              Cfg!Open, Sub!Open, Cfg!OpenReturn, Sub!OpenReturn
<1>3. CASE Operational
  BY <1>3 DEF Operational, Sub!Next, Sub!Operational
<1>4. CASE Closing
  BY <1>4 DEF Closing, Cfg!CloseEnds, Cfg!BaseClose, Sub!BaseClose, subVars,
              Sub!Next, Sub!subVars, Sub!LinkStep
<1>5. CASE UNCHANGED vars
  BY <1>5 DEF vars, linkVars, subVars, Sub!vars, Sub!subVars, Sub!linkVars
<1> QED
  BY <1>1, <1>2, <1>3, <1>4, <1>5 DEF Next

\* DSHelper uses the sub-interface cache only the way DSSubInterface says, whatever
\* the loads and reloads do around it.
LEMMA SubImplementation == Spec => SubSpec
<1>1. Init => Sub!Init
  BY DEF Init, Sub!Init, LinkInit, Sub!LinkInit
<1> QED
  BY <1>1, SubStep, PTL DEF Spec, SubSpec, Sub!Spec

-----------------------------------------------------------------------------
(* The invariants of the components, here.  The modules that prove them     *)
(* extend the components, so the same definitions have two names.           *)

SubP == INSTANCE DSSubInterfaceProofs
CfgP == INSTANCE DSConfigProofs

LEMMA AssumptionsHere ==
    /\ SubP!LinkAssumption /\ SubP!KindsAssumption
    /\ CfgP!LinkAssumption /\ CfgP!AnswersAssumption
<1>1. SubP!IsFiniteSet(Clients) /\ CfgP!IsFiniteSet(Clients)
  BY LinkAssumption DEF LinkAssumption, IsFiniteSet, SubP!IsFiniteSet, CfgP!IsFiniteSet
<1>2. SubP!LinkAssumption /\ SubP!KindsAssumption
  BY <1>1, LinkAssumption DEF SubP!LinkAssumption, SubP!KindsAssumption, LinkAssumption, Kinds
<1>3. CfgP!LinkAssumption /\ CfgP!AnswersAssumption
  BY <1>1, LinkAssumption, AnswersAssumption
  DEF CfgP!LinkAssumption, CfgP!AnswersAssumption, LinkAssumption, AnswersAssumption,
      Cfg!Parts, CfgP!Parts
<1> QED
  BY <1>2, <1>3

LEMMA SubSame == Sub!Spec => SubP!Spec
<1>1. Sub!Init => SubP!Init
  BY DEF Sub!Init, SubP!Init, Sub!LinkInit, SubP!LinkInit, Sub!SubInit, SubP!SubInit, Sub!EmptyCache,
         SubP!EmptyCache, Sub!Releasers, SubP!Releasers, Sub!Epochs, SubP!Epochs, Sub!Threads,
         SubP!Threads, Sub!AnyKind, SubP!AnyKind
<1>2. [Sub!Next]_(Sub!vars) => [SubP!Next]_(SubP!vars)
  BY DEF Sub!Next, SubP!Next, Sub!vars, SubP!vars,
         Sub!LinkStep, SubP!LinkStep, Sub!PluginUp, SubP!PluginUp, Sub!PluginDown, SubP!PluginDown,
         Sub!Open, SubP!Open, Sub!OpenReturn, SubP!OpenReturn, Sub!BaseClose, SubP!BaseClose,
         Sub!OpMoves, SubP!OpMoves, Sub!CloseMoves, SubP!CloseMoves, Sub!MayCall, SubP!MayCall,
         Sub!Operational, SubP!Operational, Sub!Activated, SubP!Activated, Sub!ActivatedEnd,
         SubP!ActivatedEnd, Sub!DownSwap, SubP!DownSwap, Sub!DownRelease, SubP!DownRelease,
         Sub!DeactivatedEnd, SubP!DeactivatedEnd, Sub!DownEnd, SubP!DownEnd, Sub!CloseSwap,
         SubP!CloseSwap, Sub!CloseRelease, SubP!CloseRelease, Sub!SwapOut, SubP!SwapOut,
         Sub!ReleaseSwapped, SubP!ReleaseSwapped, Sub!EmptyCache, SubP!EmptyCache, Sub!Acquire,
         SubP!Acquire, Sub!AcquireFast, SubP!AcquireFast, Sub!AcquireMiss, SubP!AcquireMiss,
         Sub!NoRoot, SubP!NoRoot, Sub!GetRoot, SubP!GetRoot, Sub!QueryFails, SubP!QueryFails,
         Sub!Query, SubP!Query, Sub!StoreFresh, SubP!StoreFresh, Sub!StoreLost, SubP!StoreLost,
         Sub!Release, SubP!Release, Sub!AddRef, SubP!AddRef, Sub!DropRef, SubP!DropRef,
         Sub!IsStale, SubP!IsStale, Sub!AnyKind, SubP!AnyKind, Sub!Threads, SubP!Threads,
         Sub!Epochs, SubP!Epochs, Sub!subVars, SubP!subVars, Sub!linkVars, SubP!linkVars
<1> QED
  BY <1>1, <1>2, PTL DEF Sub!Spec, SubP!Spec

\* A thread past Interface() has a proxy.
LEMMA HasProxyHolds == Spec => []HasProxy
<1>1. SubP!IInv => HasProxy
  BY DEF SubP!IInv, SubP!LocalsInv, SubP!Threads, Threads, HasProxy
<1>2. SubP!Spec => []SubP!IInv
  BY SubP!Invariance, AssumptionsHere
<1> QED
  BY <1>1, <1>2, SubSame, SubImplementation, PTL DEF SubSpec

-----------------------------------------------------------------------------
(* The configuration *)

\* No step makes up a proxy of an activation still to come.
LEMMA PastOnlyStep == PastOnly /\ [Next]_vars => PastOnly'
<1> SUFFICES ASSUME PastOnly, [Sub!Next]_(Sub!vars) PROVE PastOnly'
  BY SubStep
<1>0. Sub!Threads = Threads /\ Sub!AnyKind \in Kinds
  BY DEF Threads, Sub!Threads, Sub!AnyKind, Kinds
<1> USE DEF PastOnly
<1>1. CASE Sub!LinkStep /\ UNCHANGED Sub!subVars
  <2>1. CASE Sub!PluginUp
    BY <1>1, <2>1 DEF Sub!PluginUp, Sub!subVars
  <2>2. CASE Sub!PluginDown \/ Sub!Open \/ Sub!OpenReturn \/ Sub!BaseClose
    BY <1>1, <2>2 DEF Sub!PluginDown, Sub!Open, Sub!OpenReturn, Sub!BaseClose, Sub!subVars
  <2> QED
    BY <1>1, <2>1, <2>2 DEF Sub!LinkStep
<1>2. CASE Sub!Operational
  BY <1>2 DEF Sub!Operational, Sub!Activated, Sub!ActivatedEnd, Sub!DownSwap, Sub!DownRelease,
              Sub!DeactivatedEnd, Sub!DownEnd, Sub!OpMoves, Sub!SwapOut, Sub!ReleaseSwapped,
              Sub!EmptyCache, Sub!subVars
<1>3. CASE Sub!CloseSwap \/ Sub!CloseRelease
  BY <1>3 DEF Sub!CloseSwap, Sub!CloseRelease, Sub!CloseMoves, Sub!SwapOut, Sub!ReleaseSwapped,
              Sub!EmptyCache
<1>4. ASSUME NEW t \in Threads, Sub!Acquire(t) \/ Sub!Release(t) PROVE PastOnly'
  <2>1. ASSUME NEW k \in Kinds, Sub!AcquireFast(t, k) \/ Sub!AcquireMiss(t, k) PROVE PastOnly'
    BY <2>1 DEF Sub!AcquireFast, Sub!AcquireMiss, Sub!linkVars
  <2>2. CASE Sub!NoRoot(t) \/ Sub!GetRoot(t) \/ Sub!QueryFails(t) \/ Sub!Query(t) \/ Sub!Release(t)
    BY <1>0, <2>2 DEF Sub!NoRoot, Sub!GetRoot, Sub!QueryFails, Sub!Query, Sub!Release, Sub!linkVars
  <2>3. CASE Sub!StoreFresh(t) \/ Sub!StoreLost(t)
    BY <2>3 DEF Sub!StoreFresh, Sub!StoreLost, Sub!linkVars
  <2> QED
    BY <1>4, <2>1, <2>2, <2>3 DEF Sub!Acquire
<1>5. CASE UNCHANGED Sub!vars
  BY <1>5 DEF Sub!vars, Sub!linkVars, Sub!subVars
<1> QED
  BY <1>0, <1>1, <1>2, <1>3, <1>4, <1>5 DEF Sub!Next

\* Every step of DSHelper is a step of DSConfig or leaves its state alone.
LEMMA CfgStep == PastOnly /\ HasProxy /\ [Next]_vars => [Cfg!Next]_(Cfg!vars)
<1> SUFFICES ASSUME PastOnly, HasProxy, [Next]_vars PROVE [Cfg!Next]_(Cfg!vars)
  OBVIOUS
<1>0. Cfg!Threads = Threads
  BY DEF Threads, Cfg!Threads
<1> DEFINE Still == UNCHANGED <<linkVars, cfgVars>>
<1>1. Still => [Cfg!Next]_(Cfg!vars)
  BY DEF linkVars, cfgVars, Cfg!vars, Cfg!linkVars, Cfg!cfgVars, Cfg!cfgShared, Cfg!cfgLocals
<1>2. ASSUME NEW t \in Threads, ThreadStep(t) PROVE [Cfg!Next]_(Cfg!vars)
  <2>1. CASE AcquireCall(t)
    <3> Still
      BY <2>1 DEF AcquireCall, Sub!AcquireFast, Sub!AcquireMiss, Sub!linkVars, linkVars
    <3> QED
      BY <1>1
  <2>2. CASE AcquireGoesOn(t) \/ ClientDone(t)
    <3> Still
      BY <2>2 DEF AcquireGoesOn, ClientDone, Sub!GetRoot, Sub!Query, Sub!StoreFresh, Sub!StoreLost,
                  Sub!NoRoot, Sub!QueryFails, Sub!Release, Sub!linkVars, linkVars
    <3> QED
      BY <1>1
  <2>3. CASE LoadWithout(t)
    <3>1. PICK k \in Kinds : Cfg!LoadHandles(t, k, 0)
      BY <2>3 DEF LoadWithout
    <3>2. k \in DOMAIN Cfg!AfterPart /\ 0 \in 0 .. epoch
      BY DEF Kinds, Cfg!AfterPart, PastOnly
    <3> QED
      BY <1>0, <3>1, <3>2 DEF Cfg!Next, Cfg!Load
  <2>4. CASE LoadWith(t)
    <3>1. PICK k \in Kinds, e \in {0, loc[t]} : Cfg!LoadHandles(t, k, e)
      BY <2>4 DEF LoadWith
    <3>2. k \in DOMAIN Cfg!AfterPart /\ e \in 0 .. epoch
      BY DEF Kinds, Cfg!AfterPart, PastOnly
    <3> QED
      BY <1>0, <3>1, <3>2 DEF Cfg!Next, Cfg!Load
  <2>5. CASE ReloadWithout(t)
    BY <1>0, <2>5 DEF ReloadWithout, Cfg!Next, Cfg!Reload
  <2>6. CASE ReloadWith(t)
    <3>1. loc[t] \in 0 .. epoch
      BY DEF PastOnly
    <3> QED
      BY <1>0, <2>6, <3>1 DEF ReloadWith, Cfg!Next, Cfg!Reload
  <2>7. CASE ResolutionsWith(t)
    <3>1. loc[t] \in 1 .. epoch
      BY <2>7 DEF PastOnly, HasProxy, ResolutionsWith, Sub!Release
    <3> QED
      BY <1>0, <2>7, <3>1 DEF ResolutionsWith, Cfg!Next, Cfg!Resolutions
  <2>8. CASE ConfigStep(t)
    BY <1>0, <2>8 DEF ConfigStep, Cfg!Next, Cfg!Load, Cfg!Reload, Cfg!Resolutions
  <2> QED
    BY <1>2, <2>1, <2>2, <2>3, <2>4, <2>5, <2>6, <2>7, <2>8 DEF ThreadStep
<1>3. CASE Cfg!LinkChanges /\ UNCHANGED subVars
  BY <1>3 DEF Cfg!Next
<1>4. CASE Operational
  BY <1>4 DEF Operational, Cfg!Next, Cfg!Operational
<1>5. CASE Closing
  BY <1>5 DEF Closing, Cfg!Next
<1>6. CASE UNCHANGED vars
  BY <1>1, <1>6 DEF vars
<1> QED
  BY <1>2, <1>3, <1>4, <1>5, <1>6 DEF Next

\* Loads, reloads and accessors behave as DSConfig says, with the proxies that the
\* sub-interface cache really gives them.
THEOREM CfgImplementation == Spec => CfgSpec
<1>1. Init => Cfg!Init
  BY DEF Init, Cfg!Init, LinkInit, Cfg!LinkInit
<1>2. Init => PastOnly
  BY DEF Init, LinkInit, Sub!SubInit, PastOnly, Sub!EmptyCache, Sub!Threads, Threads, Sub!AnyKind, Kinds
<1> QED
  BY <1>1, <1>2, PastOnlyStep, HasProxyHolds, CfgStep, PTL DEF Spec, CfgSpec, Cfg!Spec

-----------------------------------------------------------------------------
(* The invariants of both components, here *)

LEMMA CfgSame == Cfg!Spec => CfgP!Spec
<1>1. Cfg!Init => CfgP!Init
  BY DEF Cfg!Init, CfgP!Init, Cfg!LinkInit, CfgP!LinkInit, Cfg!CfgInit, CfgP!CfgInit, Cfg!EmptyStore,
         CfgP!EmptyStore, Cfg!NoHandles, CfgP!NoHandles, Cfg!Parts, CfgP!Parts,
         Cfg!HandleParts, CfgP!HandleParts, Cfg!Threads, CfgP!Threads
<1>2. [Cfg!Next]_(Cfg!vars) => [CfgP!Next]_(CfgP!vars)
  BY DEF Cfg!Next, CfgP!Next, Cfg!vars, CfgP!vars,
         Cfg!LinkChanges, CfgP!LinkChanges, Cfg!CloseEnds, CfgP!CloseEnds, Cfg!CloseSteps,
         CfgP!CloseSteps, Cfg!Operational, CfgP!Operational, Cfg!Accessor, CfgP!Accessor,
         Cfg!Load, CfgP!Load, Cfg!Reload, CfgP!Reload, Cfg!Resolutions, CfgP!Resolutions,
         Cfg!ResolutionsFetched, CfgP!ResolutionsFetched, Cfg!ResolutionsStored,
         CfgP!ResolutionsStored, Cfg!PluginUp, CfgP!PluginUp,
         Cfg!PluginDown, CfgP!PluginDown, Cfg!Open, CfgP!Open, Cfg!OpenReturn, CfgP!OpenReturn,
         Cfg!BaseClose, CfgP!BaseClose, Cfg!OpMoves, CfgP!OpMoves, Cfg!CloseMoves,
         CfgP!CloseMoves, Cfg!MayCall, CfgP!MayCall, Cfg!Activated, CfgP!Activated,
         Cfg!ActivatedEnd, CfgP!ActivatedEnd, Cfg!DownRelease, CfgP!DownRelease,
         Cfg!DeactivatedEnd, CfgP!DeactivatedEnd, Cfg!Clear, CfgP!Clear, Cfg!EnsureFast,
         CfgP!EnsureFast, Cfg!EnsureSlow, CfgP!EnsureSlow, Cfg!EnsureSkip, CfgP!EnsureSkip,
         Cfg!EnsureLoad, CfgP!EnsureLoad, Cfg!Read, CfgP!Read, Cfg!PeekBegin, CfgP!PeekBegin,
         Cfg!PeekEnd, CfgP!PeekEnd, Cfg!LoadFails, CfgP!LoadFails, Cfg!LoadAnswer,
         CfgP!LoadAnswer, Cfg!AfterPart, CfgP!AfterPart, Cfg!LoadHandles, CfgP!LoadHandles,
         Cfg!Commit, CfgP!Commit, Cfg!LoadReturn, CfgP!LoadReturn, Cfg!ReloadCall,
         CfgP!ReloadCall, Cfg!ReloadFails, CfgP!ReloadFails, Cfg!ReloadAnswer,
         CfgP!ReloadAnswer, Cfg!ReloadHandles, CfgP!ReloadHandles, Cfg!ReloadCommit,
         CfgP!ReloadCommit, Cfg!ReloadReturn, CfgP!ReloadReturn, Cfg!Goto, CfgP!Goto,
         Cfg!LeaveScope, CfgP!LeaveScope, Cfg!KeepLocals, CfgP!KeepLocals, Cfg!Answered,
         CfgP!Answered, Cfg!Fetched, CfgP!Fetched, Cfg!EmptyStore, CfgP!EmptyStore,
         Cfg!NoHandles, CfgP!NoHandles, Cfg!Parts, CfgP!Parts, Cfg!HandleParts,
         CfgP!HandleParts, Cfg!Threads, CfgP!Threads, Cfg!cfgShared, CfgP!cfgShared,
         Cfg!cfgLocals, CfgP!cfgLocals, Cfg!cfgVars, CfgP!cfgVars, Cfg!linkVars, CfgP!linkVars
<1> QED
  BY <1>1, <1>2, PTL DEF Cfg!Spec, CfgP!Spec

\* What the invariants of the components say of this module's variables.
Side ==
    /\ LinkInv
    /\ acq \in [Threads -> Sub!AcqStates]
    /\ Sub!StaleOnlyLate
    /\ pc \in [Threads -> Cfg!PcStates]
    /\ src \in [Threads -> EpochOrNone]
    /\ newHandles \in [Threads -> Cfg!HandleMaps]
    /\ handles \in Cfg!HandleMaps
    /\ Cfg!LocalsInv
    /\ Cfg!HandlesHaveConfig

LEMMA SideHolds == Spec => []Side
<1>1. SubP!IInv => LinkInv /\ acq \in [Threads -> Sub!AcqStates] /\ Sub!StaleOnlyLate
  BY DEF SubP!IInv, SubP!TypeOK, SubP!LinkInv, LinkInv, SubP!AcqStates, Sub!AcqStates,
         SubP!Threads, Threads, SubP!StaleOnlyLate, Sub!StaleOnlyLate
<1>2. CfgP!CInv => /\ pc \in [Threads -> Cfg!PcStates]
                   /\ src \in [Threads -> EpochOrNone]
                   /\ newHandles \in [Threads -> Cfg!HandleMaps]
                   /\ handles \in Cfg!HandleMaps
  BY DEF CfgP!CInv, CfgP!TypeOK, CfgP!Threads, Threads, CfgP!EpochOrNone, EpochOrNone,
         CfgP!PcStates, Cfg!PcStates, CfgP!LoadStates, Cfg!LoadStates, CfgP!ReloadStates, Cfg!ReloadStates,
         CfgP!HandleMaps, Cfg!HandleMaps, CfgP!HandleParts, Cfg!HandleParts, Cfg!EpochOrNone
<1>3. CfgP!CInv => Cfg!LocalsInv /\ Cfg!HandlesHaveConfig
  BY DEF CfgP!CInv, CfgP!LocalsInv, Cfg!LocalsInv, CfgP!LocalsOf, Cfg!LocalsOf,
         CfgP!Building, Cfg!Building, CfgP!NoHandles, Cfg!NoHandles, CfgP!Parts, Cfg!Parts,
         CfgP!HandleParts, Cfg!HandleParts, CfgP!Threads, Cfg!Threads,
         CfgP!HandlesHaveConfig, Cfg!HandlesHaveConfig
<1>4. SubP!Spec => []SubP!IInv
  BY SubP!Invariance, AssumptionsHere
<1>5. CfgP!Spec => []CfgP!CInv
  BY CfgP!Invariance, AssumptionsHere
<1> QED
  BY <1>1, <1>2, <1>3, <1>4, <1>5, SubSame, CfgSame, SubImplementation, CfgImplementation, PTL
  DEF SubSpec, CfgSpec, Side

-----------------------------------------------------------------------------
(* The cache and a thread's locals *)

\* Proxies that came late stay noted, and activations are counted up.
LEMMA LateGrows ==
    ASSUME PastOnly, [Next]_vars
    PROVE  late \subseteq late' /\ epoch' \in Nat /\ epoch' >= epoch
<1> USE DEF PastOnly
<1>0. [Sub!Next]_(Sub!vars)
  BY SubStep
<1>1. CASE Sub!LinkStep /\ UNCHANGED Sub!subVars
  BY <1>1 DEF Sub!LinkStep, Sub!PluginUp, Sub!PluginDown, Sub!Open, Sub!OpenReturn, Sub!BaseClose,
              Sub!subVars
<1>2. CASE Sub!Operational
  BY <1>2 DEF Sub!Operational, Sub!Activated, Sub!ActivatedEnd, Sub!DownSwap, Sub!DownRelease,
              Sub!DeactivatedEnd, Sub!DownEnd, Sub!OpMoves, Sub!SwapOut, Sub!ReleaseSwapped, Sub!subVars
<1>3. CASE Sub!CloseSwap \/ Sub!CloseRelease
  BY <1>3 DEF Sub!CloseSwap, Sub!CloseRelease, Sub!CloseMoves, Sub!SwapOut, Sub!ReleaseSwapped
<1>4. ASSUME NEW t \in Sub!Threads, Sub!Acquire(t) \/ Sub!Release(t)
      PROVE  late \subseteq late' /\ epoch' = epoch
  BY <1>4 DEF Sub!Acquire, Sub!AcquireFast, Sub!AcquireMiss, Sub!NoRoot, Sub!GetRoot, Sub!QueryFails,
              Sub!Query, Sub!StoreFresh, Sub!StoreLost, Sub!Release, Sub!linkVars
<1>5. CASE UNCHANGED Sub!vars
  BY <1>5 DEF Sub!vars, Sub!linkVars, Sub!subVars
<1> QED
  BY <1>0, <1>1, <1>2, <1>3, <1>4, <1>5 DEF Sub!Next

\* The cache gets nothing older than the latest activation unless it is too late; and when
\* the next one begins, all that is left there came late.
LEMMA CacheStep ==
    ASSUME PastOnly, CacheOfLatest, Side, [Next]_vars
    PROVE  CacheOfLatest'
<1> USE DEF PastOnly, CacheOfLatest
<1>0. [Sub!Next]_(Sub!vars) /\ Sub!Threads = Threads
  BY SubStep DEF Sub!Threads, Threads
<1>1. CASE Sub!LinkStep /\ UNCHANGED Sub!subVars
  <2>1. CASE Sub!PluginUp
    <3>1. root = 0 /\ op # "down"
      BY <2>1 DEF Sub!PluginUp, Side, LinkInv
    <3>2. ASSUME NEW k \in Kinds, cache[k] # 0 PROVE <<k, cache[k]>> \in late
      BY <3>1, <3>2 DEF Side, Sub!StaleOnlyLate
    <3> QED
      BY <1>1, <3>2 DEF Sub!subVars
  <2>2. CASE Sub!PluginDown \/ Sub!Open \/ Sub!OpenReturn \/ Sub!BaseClose
    BY <1>1, <2>2 DEF Sub!PluginDown, Sub!Open, Sub!OpenReturn, Sub!BaseClose, Sub!subVars
  <2> QED
    BY <1>1, <2>1, <2>2 DEF Sub!LinkStep
<1>2. CASE Sub!Operational
  BY <1>2 DEF Sub!Operational, Sub!Activated, Sub!ActivatedEnd, Sub!DownSwap, Sub!DownRelease,
              Sub!DeactivatedEnd, Sub!DownEnd, Sub!OpMoves, Sub!SwapOut, Sub!ReleaseSwapped,
              Sub!EmptyCache, Sub!subVars
<1>3. CASE Sub!CloseSwap \/ Sub!CloseRelease
  BY <1>3 DEF Sub!CloseSwap, Sub!CloseRelease, Sub!CloseMoves, Sub!SwapOut, Sub!ReleaseSwapped,
              Sub!EmptyCache
<1>4. ASSUME NEW t \in Threads, Sub!Acquire(t) \/ Sub!Release(t) PROVE CacheOfLatest'
  <2>1. CASE Sub!StoreFresh(t)
    <3>1. cache' = [cache EXCEPT ![want[t]] = loc[t]] /\ epoch' = epoch /\ late \subseteq late'
      BY <2>1 DEF Sub!StoreFresh, Sub!linkVars
    <3>2. loc[t] = root \/ <<want[t], loc[t]>> \in late'
      BY <2>1 DEF Sub!StoreFresh, Sub!IsStale
    <3>3. root \in {0, epoch}
      BY DEF Side, LinkInv
    <3> QED
      BY <3>1, <3>2, <3>3
  <2>2. UNCHANGED <<cache, late, epoch>> \/ Sub!StoreFresh(t)
    BY <1>4 DEF Sub!Acquire, Sub!AcquireFast, Sub!AcquireMiss, Sub!NoRoot, Sub!GetRoot, Sub!QueryFails,
                Sub!Query, Sub!StoreLost, Sub!Release, Sub!linkVars
  <2> QED
    BY <2>1, <2>2
<1>5. CASE UNCHANGED Sub!vars
  BY <1>5 DEF Sub!vars, Sub!linkVars, Sub!subVars
<1> QED
  BY <1>0, <1>1, <1>2, <1>3, <1>4, <1>5 DEF Sub!Next

\* What a thread that takes no step knows does not age: nothing in it is of a later activation.
LEMMA Undisturbed ==
    ASSUME PastOnly, [Next]_vars, NEW t \in Threads, GetsNoOlder(t), src[t] \in Nat,
           UNCHANGED <<acq[t], want[t], loc[t], pc[t], src[t], newHandles[t]>>
    PROVE  GetsNoOlder(t)'
<1>1. late \subseteq late' /\ epoch \in Nat /\ epoch' \in Nat /\ epoch' >= epoch
  BY LateGrows DEF PastOnly
<1>2. \A k \in Kinds : newHandles'[t][k] \in 0 .. epoch'
  BY <1>1 DEF GetsNoOlder
<1>3. (acq[t] # "idle" => pc[t] = "idle" \/ Needs(t, want[t]))'
  BY DEF GetsNoOlder, Needs
<1>4. CASE pc[t] \in Cfg!Building
  BY <1>1, <1>2, <1>3, <1>4 DEF GetsNoOlder, NotBefore
<1>5. CASE pc[t] \notin Cfg!Building
  BY <1>2, <1>3, <1>5 DEF GetsNoOlder, Cfg!Building
<1> QED
  BY <1>4, <1>5

\* The steps of one thread leave the locals of the others alone.
LEMMA OthersInAcquire ==
    ASSUME PastOnly, Side, NEW s \in Threads, NEW t \in Threads, s # t,
           Sub!Acquire(s) \/ Sub!Release(s)
    PROVE  UNCHANGED <<acq[t], want[t], loc[t]>>
BY DEF PastOnly, Side, Sub!Acquire, Sub!AcquireFast, Sub!AcquireMiss, Sub!NoRoot, Sub!GetRoot,
       Sub!QueryFails, Sub!Query, Sub!StoreFresh, Sub!StoreLost, Sub!Release

LEMMA OthersInCalls ==
    ASSUME Side, NEW s \in Threads, NEW t \in Threads, s # t,
           \/ Cfg!Accessor(s)
           \/ Cfg!LoadFails(s) \/ Cfg!LoadAnswer(s) \/ Cfg!Commit(s) \/ Cfg!LoadReturn(s)
           \/ Cfg!ReloadCall(s) \/ Cfg!ReloadFails(s) \/ Cfg!ReloadAnswer(s)
           \/ Cfg!ReloadCommit(s) \/ Cfg!ReloadReturn(s)
           \/ \E k \in Kinds, e \in Nat : Cfg!LoadHandles(s, k, e)
           \/ \E e \in Nat : Cfg!ReloadHandles(s, e) \/ Cfg!ResolutionsFetched(s, e)
           \/ Cfg!ResolutionsStored(s)
    PROVE  UNCHANGED <<pc[t], src[t], newHandles[t]>>
<1> USE DEF Side
<1>1. CASE Cfg!Accessor(s)
  BY <1>1 DEF Cfg!Accessor, Cfg!EnsureFast, Cfg!EnsureSlow, Cfg!EnsureSkip, Cfg!EnsureLoad,
              Cfg!Read, Cfg!PeekBegin, Cfg!PeekEnd, Cfg!Goto, Cfg!KeepLocals
<1>2. CASE Cfg!LoadFails(s) \/ Cfg!LoadAnswer(s) \/ Cfg!Commit(s) \/ Cfg!LoadReturn(s)
  BY <1>2 DEF Cfg!LoadFails, Cfg!LoadAnswer, Cfg!Commit, Cfg!LoadReturn, Cfg!Goto, Cfg!KeepLocals,
              Cfg!Answered, Cfg!LeaveScope
<1>3. CASE Cfg!ReloadCall(s) \/ Cfg!ReloadFails(s) \/ Cfg!ReloadAnswer(s)
           \/ Cfg!ReloadCommit(s) \/ Cfg!ReloadReturn(s)
  BY <1>3 DEF Cfg!ReloadCall, Cfg!ReloadFails, Cfg!ReloadAnswer, Cfg!ReloadCommit, Cfg!ReloadReturn,
              Cfg!Goto, Cfg!KeepLocals, Cfg!Answered, Cfg!LeaveScope
<1>4. ASSUME NEW k \in Kinds, NEW e \in Nat, Cfg!LoadHandles(s, k, e) \/ Cfg!ReloadHandles(s, e)
      PROVE  UNCHANGED <<pc[t], src[t], newHandles[t]>>
  BY <1>4 DEF Cfg!LoadHandles, Cfg!ReloadHandles, Cfg!Goto, Cfg!Fetched
<1>5. ASSUME NEW e \in Nat, Cfg!ResolutionsFetched(s, e) \/ Cfg!ResolutionsStored(s)
      PROVE  UNCHANGED <<pc[t], src[t], newHandles[t]>>
  BY <1>5 DEF Cfg!ResolutionsFetched, Cfg!ResolutionsStored, Cfg!Goto, Cfg!LeaveScope
<1> QED
  BY <1>1, <1>2, <1>3, <1>4, <1>5 DEF Kinds

LEMMA OthersLocals ==
    ASSUME PastOnly, Side, NEW s \in Threads, ThreadStep(s), NEW t \in Threads, s # t
    PROVE  UNCHANGED <<acq[t], want[t], loc[t], pc[t], src[t], newHandles[t]>>
<1>1. UNCHANGED <<acq[t], want[t], loc[t]>>
  <2>1. Sub!Acquire(s) \/ Sub!Release(s) \/ UNCHANGED subVars
    BY DEF ThreadStep, AcquireCall, AcquireGoesOn, ClientDone, LoadWithout, LoadWith, ReloadWithout,
           ReloadWith, ResolutionsWith, ConfigStep, Sub!Acquire
  <2> QED
    BY <2>1, OthersInAcquire DEF subVars
<1>2. UNCHANGED <<pc[t], src[t], newHandles[t]>>
  <2>1. CASE AcquireCall(s) \/ AcquireGoesOn(s) \/ ClientDone(s)
    BY <2>1 DEF AcquireCall, AcquireGoesOn, ClientDone, cfgVars
  <2>2. CASE LoadWithout(s) \/ LoadWith(s)
    <3>1. PICK k \in Kinds, e \in {0, loc[s]} : Cfg!LoadHandles(s, k, e)
      BY <2>2 DEF LoadWithout, LoadWith
    <3>2. e \in Nat
      BY DEF PastOnly
    <3> QED
      BY <3>1, <3>2, OthersInCalls
  <2>3. CASE ReloadWithout(s) \/ ReloadWith(s)
    <3>1. loc[s] \in Nat
      BY DEF PastOnly
    <3>2. Cfg!ReloadFails(s) \/ Cfg!ReloadHandles(s, loc[s])
      BY <2>3 DEF ReloadWithout, ReloadWith
    <3> QED
      BY <3>1, <3>2, OthersInCalls
  <2>4. CASE ResolutionsWith(s)
    <3>1. loc[s] \in Nat /\ Cfg!ResolutionsFetched(s, loc[s])
      BY <2>4 DEF PastOnly, ResolutionsWith
    <3> QED
      BY <3>1, OthersInCalls
  <2>5. CASE ConfigStep(s)
    BY <2>5, OthersInCalls DEF ConfigStep
  <2> QED
    BY <2>1, <2>2, <2>3, <2>4, <2>5 DEF ThreadStep
<1> QED
  BY <1>1, <1>2

\* What AcquireSubInterface() gets is of the latest activation, or came late.
LEMMA AcquireStep ==
    ASSUME PastOnly, CacheOfLatest, Side, NEW t \in Threads, GetsNoOlder(t),
           AcquireCall(t) \/ AcquireGoesOn(t) \/ ClientDone(t),
           late \subseteq late'
    PROVE  GetsNoOlder(t)'
<1> USE DEF PastOnly, Side
<1>1. UNCHANGED <<epoch, root, pc, src, newHandles>>
  BY DEF AcquireCall, AcquireGoesOn, ClientDone, cfgVars, Sub!AcquireFast, Sub!AcquireMiss, Sub!NoRoot,
         Sub!GetRoot, Sub!QueryFails, Sub!Query, Sub!StoreFresh, Sub!StoreLost, Sub!Release, Sub!linkVars
<1>2. ASSUME NEW k \in Kinds, pc[t] \in Cfg!Building, cache[k] # 0
      PROVE  NotBefore(src[t], k, cache[k])
  BY <1>2 DEF CacheOfLatest, GetsNoOlder, NotBefore
<1>3. /\ \A k \in Kinds : newHandles'[t][k] \in 0 .. epoch'
      /\ pc'[t] \in Cfg!Building =>
            /\ src'[t] \in 1 .. epoch'
            /\ \A k \in Kinds : \/ newHandles'[t][k] = 0
                                \/ newHandles'[t][k] >= src'[t] \/ <<k, newHandles'[t][k]>> \in late'
  BY <1>1 DEF GetsNoOlder, NotBefore, Cfg!Building
<1> DEFINE Wants(a, w) == a # "idle" => pc[t] = "idle" \/ Needs(t, w)
           Gets(a, w, l) == pc[t] \in Cfg!Building =>
               /\ a \in {"query", "store"} => l >= src[t]
               /\ a = "held" => l >= src[t] \/ <<w, l>> \in late'
<1>4. SUFFICES Wants(acq'[t], want'[t]) /\ Gets(acq'[t], want'[t], loc'[t])
  BY <1>1, <1>3 DEF GetsNoOlder, NotBefore, Needs, Cfg!Building
<1>5. Wants(acq[t], want[t]) /\ Gets(acq[t], want[t], loc[t])
  BY DEF GetsNoOlder, NotBefore
<1>6. CASE AcquireCall(t)
  <2>1. PICK k \in Kinds : /\ pc[t] = "idle" \/ Needs(t, k)
                           /\ Sub!AcquireFast(t, k) \/ Sub!AcquireMiss(t, k)
    BY <1>6 DEF AcquireCall
  <2>2. CASE Sub!AcquireFast(t, k)
    <3>1. acq'[t] = "held" /\ want'[t] = k /\ loc'[t] = cache[k] /\ cache[k] # 0
      BY <2>2 DEF Sub!AcquireFast
    <3>2. Gets(acq'[t], want'[t], loc'[t])
      BY <1>2, <3>1 DEF NotBefore
    <3> QED
      BY <2>1, <3>1, <3>2
  <2>3. CASE Sub!AcquireMiss(t, k)
    <3>1. acq'[t] = "root" /\ want'[t] = k
      BY <2>3 DEF Sub!AcquireMiss
    <3> QED
      BY <2>1, <3>1
  <2> QED
    BY <2>1, <2>2, <2>3
<1>7. CASE AcquireGoesOn(t)
  <2>1. CASE Sub!GetRoot(t)
    <3>1. acq'[t] = "query" /\ want'[t] = want[t] /\ loc'[t] = root /\ acq[t] # "idle" /\ root = epoch
      BY <2>1 DEF Sub!GetRoot, LinkInv
    <3>2. pc[t] \in Cfg!Building => src[t] \in 1 .. epoch
      BY DEF GetsNoOlder
    <3> QED
      BY <1>5, <3>1, <3>2
  <2>2. CASE Sub!Query(t)
    <3>1. acq[t] = "query" /\ acq'[t] = "store" /\ want'[t] = want[t] /\ loc'[t] = loc[t]
      BY <2>2 DEF Sub!Query
    <3> QED
      BY <1>5, <3>1
  <2>3. CASE Sub!StoreFresh(t)
    <3>1. acq[t] = "store" /\ acq'[t] = "held" /\ want'[t] = want[t] /\ loc'[t] = loc[t]
      BY <2>3 DEF Sub!StoreFresh
    <3> QED
      BY <1>5, <3>1
  <2>4. CASE Sub!StoreLost(t)
    <3>1. /\ acq[t] = "store" /\ acq'[t] = "held" /\ want'[t] = want[t]
          /\ loc'[t] = cache[want[t]] /\ cache[want[t]] # 0 /\ want[t] \in Kinds
      BY <2>4 DEF Sub!StoreLost
    <3> QED
      BY <1>2, <1>5, <3>1 DEF NotBefore
  <2> QED
    BY <1>7, <2>1, <2>2, <2>3, <2>4 DEF AcquireGoesOn
<1>8. CASE ClientDone(t)
  <2>1. acq'[t] = "idle"
    BY <1>8 DEF ClientDone, Sub!NoRoot, Sub!QueryFails, Sub!Release
  <2> QED
    BY <2>1
<1> QED
  BY <1>6, <1>7, <1>8

\* The handles that a load or a reload adds are those of the proxy it holds.
LEMMA FetchStep ==
    ASSUME PastOnly, Side, NEW t \in Threads, GetsNoOlder(t),
           \/ LoadWithout(t) \/ LoadWith(t) \/ ReloadWithout(t) \/ ReloadWith(t)
           \/ ResolutionsWith(t),
           late \subseteq late'
    PROVE  GetsNoOlder(t)'
<1> USE DEF PastOnly, Side
<1>1. acq'[t] = "idle" /\ epoch' = epoch
  BY DEF LoadWithout, LoadWith, ReloadWithout, ReloadWith, ResolutionsWith, Sub!NoRoot,
         Sub!QueryFails, Sub!Release, Sub!linkVars
<1>2. ASSUME NEW k \in Kinds, NEW e \in 0 .. epoch, pc[t] \in Cfg!Building, src'[t] = src[t],
             e = 0 \/ NotBefore(src[t], k, e),
             newHandles'[t] = [newHandles[t] EXCEPT ![k] = e]
      PROVE  GetsNoOlder(t)'
  <2>1. ASSUME NEW j \in Kinds PROVE newHandles'[t][j] = IF j = k THEN e ELSE newHandles[t][j]
    BY <1>2 DEF Cfg!HandleMaps, Cfg!HandleParts, Kinds
  <2> QED
    BY <1>1, <1>2, <2>1 DEF GetsNoOlder, NotBefore
<1>3. acq[t] = "held" /\ pc[t] \in Cfg!Building => NotBefore(src[t], want[t], loc[t])
  BY DEF GetsNoOlder
<1>4. ASSUME NEW k \in Kinds, NEW e \in {0, loc[t]}, Cfg!LoadHandles(t, k, e), e = 0 \/ acq[t] = "held"
      PROVE  GetsNoOlder(t)'
  <2>1. pc[t] = k /\ src' = src /\ newHandles'[t] = [newHandles[t] EXCEPT ![k] = e]
    BY <1>4 DEF Cfg!LoadHandles, Cfg!Goto, Cfg!Fetched
  <2>2. pc[t] \in Cfg!Building /\ (acq[t] = "held" => want[t] = k)
    BY <2>1 DEF Kinds, Cfg!Building, GetsNoOlder, Needs
  <2> QED
    BY <1>2, <1>3, <1>4, <2>1, <2>2
<1>5. CASE LoadWithout(t)
  BY <1>4, <1>5 DEF LoadWithout
<1>6. CASE LoadWith(t)
  BY <1>4, <1>6 DEF LoadWith, Sub!Release
<1>7. CASE ReloadWithout(t)
  <2>1. pc'[t] = "idle" /\ newHandles'[t] = Cfg!NoHandles
    BY <1>7 DEF ReloadWithout, Cfg!ReloadFails, Cfg!Goto, Cfg!LeaveScope
  <2> QED
    BY <1>1, <2>1 DEF GetsNoOlder, Cfg!Building, Cfg!NoHandles, Cfg!HandleParts, Kinds
<1>8. CASE ReloadWith(t)
  <2>1. /\ pc[t] = "raudio" /\ acq[t] = "held" /\ src' = src
        /\ newHandles'[t] = [newHandles[t] EXCEPT !["audio"] = loc[t]]
    BY <1>8 DEF ReloadWith, Sub!Release, Cfg!ReloadHandles, Cfg!Goto, Cfg!Fetched
  <2>2. pc[t] \in Cfg!Building /\ want[t] = "audio" /\ "audio" \in Kinds
    BY <2>1 DEF Kinds, Cfg!Building, GetsNoOlder, Needs
  <2> QED
    BY <1>2, <1>3, <2>1, <2>2
<1>9. CASE ResolutionsWith(t)
  <2>1. pc'[t] = "resolutions" /\ newHandles'[t] = newHandles[t]
    BY <1>9 DEF ResolutionsWith, Cfg!ResolutionsFetched, Cfg!Goto
  <2> QED
    BY <1>1, <2>1 DEF GetsNoOlder, Cfg!Building
<1> QED
  BY <1>5, <1>6, <1>7, <1>8, <1>9

\* An answer comes with no handles yet, and what a call has fetched goes with its scope.
LEMMA ConfigStepGets ==
    ASSUME PastOnly, Side, NEW t \in Threads, GetsNoOlder(t), ConfigStep(t)
    PROVE  GetsNoOlder(t)'
<1> USE DEF PastOnly, Side
<1>1. acq[t] = "idle" /\ acq' = acq /\ late' = late /\ epoch' = epoch
  BY SubConfigStep DEF ConfigStep, subVars, linkVars
<1>2. (pc[t] \notin Cfg!Building => newHandles[t] = Cfg!NoHandles) /\ Cfg!Threads = Threads
  BY DEF Cfg!LocalsInv, Cfg!LocalsOf, Cfg!Threads, Threads
<1>3. ASSUME pc'[t] \notin Cfg!Building, newHandles'[t] \in {newHandles[t], Cfg!NoHandles}
      PROVE  GetsNoOlder(t)'
  BY <1>1, <1>3 DEF GetsNoOlder, Cfg!NoHandles, Cfg!HandleParts, Kinds, Cfg!Building
<1>4. CASE Cfg!Accessor(t) \/ Cfg!LoadFails(t) \/ Cfg!LoadReturn(t) \/ Cfg!ReloadCall(t)
           \/ Cfg!ReloadReturn(t)
  <2>1. newHandles' = newHandles /\ pc'[t] \in {"ensure", "read", "peek", "idle", "config", "rconfig"}
    BY <1>4 DEF Cfg!Accessor, Cfg!EnsureFast, Cfg!EnsureSlow, Cfg!EnsureSkip, Cfg!EnsureLoad,
                Cfg!Read, Cfg!PeekBegin, Cfg!PeekEnd, Cfg!LoadFails, Cfg!LoadReturn,
                Cfg!ReloadCall, Cfg!ReloadReturn, Cfg!Goto, Cfg!KeepLocals
  <2> QED
    BY <1>3, <2>1 DEF Cfg!Building
<1>5. CASE Cfg!Commit(t) \/ Cfg!ReloadCommit(t) \/ Cfg!ReloadFails(t) \/ Cfg!ResolutionsStored(t)
  <2>1. newHandles'[t] = Cfg!NoHandles /\ pc'[t] \in {"log", "rlog", "idle"}
    BY <1>5 DEF Cfg!Commit, Cfg!ReloadCommit, Cfg!ReloadFails, Cfg!ResolutionsStored, Cfg!Goto,
                Cfg!LeaveScope
  <2> QED
    BY <1>3, <2>1 DEF Cfg!Building
<1>6. CASE Cfg!LoadAnswer(t) \/ Cfg!ReloadAnswer(t)
  <2>1. pc[t] \in {"config", "rconfig"} /\ newHandles' = newHandles /\ src'[t] = root /\ root = epoch
    BY <1>6 DEF Cfg!LoadAnswer, Cfg!ReloadAnswer, Cfg!Goto, Cfg!Answered, LinkInv
  <2>2. root # 0
    BY <1>6 DEF Cfg!LoadAnswer, Cfg!ReloadAnswer, Cfg!Answered
  <2>3. \A k \in Kinds : newHandles'[t][k] = 0
    BY <1>2, <2>1 DEF Cfg!Building, Cfg!NoHandles, Cfg!HandleParts, Kinds
  <2> QED
    BY <1>1, <2>1, <2>2, <2>3 DEF GetsNoOlder
<1> QED
  BY <1>4, <1>5, <1>6 DEF ConfigStep

-----------------------------------------------------------------------------
(* The handles in use *)

\* A load or a reload that commits an answer of the activation that runs has handles of that
\* activation, or some that came late.
LEMMA CommittedHandles ==
    ASSUME PastOnly, Side, NEW t \in Threads, GetsNoOlder(t), pc[t] \in {"commit", "rcommit"},
           src[t] = root, NEW k \in Kinds
    PROVE  newHandles[t][k] \in {0, root} \/ <<k, newHandles[t][k]>> \in late
<1>1. pc[t] \in Cfg!Building
  BY DEF Cfg!Building
<1>2. src[t] = epoch
  BY <1>1 DEF Side, LinkInv, GetsNoOlder
<1> QED
  BY <1>1, <1>2 DEF GetsNoOlder, NotBefore, PastOnly

LEMMA HandlesStep ==
    ASSUME HInv, Side, [Next]_vars
    PROVE  HandlesOfActivation'
<1> USE DEF HInv, PastOnly, Side
<1> DEFINE OfActivation == \A k \in Kinds : handles[k] \in {0, root} \/ <<k, handles[k]>> \in late
<1>0. late \subseteq late'
  BY LateGrows
<1>1. ASSUME NEW t \in Threads, ThreadStep(t) PROVE HandlesOfActivation'
  <2>0. UNCHANGED linkVars
    <3>1. CASE ConfigStep(t)
      BY <3>1, SubConfigStep
    <3> QED
      BY <1>1, <3>1 DEF ThreadStep, AcquireCall, AcquireGoesOn, ClientDone, LoadWithout, LoadWith,
           ReloadWithout, ReloadWith, ResolutionsWith, Sub!AcquireFast, Sub!AcquireMiss, Sub!NoRoot, Sub!GetRoot,
           Sub!QueryFails, Sub!Query, Sub!StoreFresh, Sub!StoreLost, Sub!Release, Sub!linkVars, linkVars
  <2>1. CASE UNCHANGED <<handles, leftover>>
    BY <1>0, <2>0, <2>1 DEF HandlesOfActivation, linkVars
  <2>2. CASE Cfg!Commit(t)
    <3>1. /\ pc[t] = "commit" /\ leftover' = (src[t] # root)
          /\ \A k \in Kinds : handles'[k] = newHandles[t][k]
      BY <2>2 DEF Cfg!Commit, Cfg!Goto, Cfg!HandleMaps, Cfg!HandleParts, Kinds
    <3>2. src[t] = root => (OfActivation)'
      BY <1>0, <2>0, <3>1, CommittedHandles DEF linkVars
    <3> QED
      BY <3>1, <3>2 DEF HandlesOfActivation
  <2>3. CASE Cfg!ReloadCommit(t)
    <3>1. /\ pc[t] = "rcommit" /\ leftover' = (leftover \/ src[t] # root)
          /\ \A k \in Kinds : handles'[k] \in {handles[k], newHandles[t][k]}
      BY <2>3 DEF Cfg!ReloadCommit, Cfg!Goto, Cfg!HandleMaps, Cfg!HandleParts, Kinds
    <3>2. src[t] = root /\ OfActivation => (OfActivation)'
      BY <1>0, <2>0, <3>1, CommittedHandles DEF linkVars
    <3> QED
      BY <2>0, <3>1, <3>2 DEF HandlesOfActivation, linkVars
  <2>4. CASE Cfg!ResolutionsStored(t)
    <3>1. handles' = handles /\ (leftover => leftover')
      BY <2>4 DEF Cfg!ResolutionsStored
    <3> QED
      BY <1>0, <2>0, <3>1 DEF HandlesOfActivation, linkVars
  <2>5. \/ UNCHANGED <<handles, leftover>>
        \/ Cfg!Commit(t) \/ Cfg!ReloadCommit(t) \/ Cfg!ResolutionsStored(t)
    <3>1. CASE ConfigStep(t)
      BY <3>1 DEF ConfigStep, Cfg!Accessor, Cfg!EnsureFast, Cfg!EnsureSlow, Cfg!EnsureSkip, Cfg!EnsureLoad,
                  Cfg!Read, Cfg!PeekBegin, Cfg!PeekEnd, Cfg!LoadFails, Cfg!LoadAnswer, Cfg!LoadReturn,
                  Cfg!ReloadCall, Cfg!ReloadFails, Cfg!ReloadAnswer, Cfg!ReloadReturn, Cfg!cfgShared
    <3>2. CASE \/ LoadWithout(t) \/ LoadWith(t) \/ ReloadWithout(t) \/ ReloadWith(t)
               \/ ResolutionsWith(t)
      BY <3>2 DEF LoadWithout, LoadWith, ReloadWithout, ReloadWith, ResolutionsWith,
                  Cfg!ResolutionsFetched, Cfg!LoadHandles, Cfg!ReloadHandles,
                  Cfg!ReloadFails, Cfg!cfgShared
    <3> QED
      BY <1>1, <3>1, <3>2 DEF ThreadStep, AcquireCall, AcquireGoesOn, ClientDone, cfgVars
  <2> QED
    BY <2>1, <2>2, <2>3, <2>4, <2>5
<1>2. CASE Cfg!LinkChanges /\ UNCHANGED subVars
  <2>1. UNCHANGED <<handles, leftover, late>>
    BY <1>2 DEF Cfg!LinkChanges, Cfg!cfgVars, Cfg!cfgShared, subVars
  <2>2. (op = "idle" /\ root' = root) \/ op' \notin {"idle", "activated"}
    BY <1>2 DEF Cfg!LinkChanges, Cfg!PluginUp, Cfg!PluginDown, Cfg!Open, Cfg!OpenReturn
  <2> QED
    BY <2>1, <2>2 DEF HandlesOfActivation
<1>3. CASE Operational
  <2>1. CASE Cfg!Activated \/ Cfg!Clear
    <3>1. \A k \in Kinds : handles'[k] = 0
      BY <2>1 DEF Cfg!Activated, Cfg!Clear, Cfg!NoHandles, Cfg!HandleParts, Kinds
    <3> QED
      BY <3>1 DEF HandlesOfActivation
  <2>2. CASE Cfg!ActivatedEnd
    BY <1>0, <2>2 DEF Cfg!ActivatedEnd, Cfg!OpMoves, Cfg!cfgVars, Cfg!cfgShared, HandlesOfActivation
  <2>3. CASE Cfg!DownRelease \/ Cfg!DeactivatedEnd
    BY <2>3 DEF Cfg!DownRelease, Cfg!DeactivatedEnd, Cfg!OpMoves, HandlesOfActivation
  <2> QED
    BY <1>3, <2>1, <2>2, <2>3 DEF Operational
<1>4. CASE Closing
  <2>1. CASE Cfg!CloseSteps
    BY <1>0, <2>1 DEF Cfg!CloseSteps, Cfg!CloseMoves, Cfg!cfgVars, Cfg!cfgShared, HandlesOfActivation
  <2>2. CASE Cfg!CloseEnds
    <3>1. (~leftover' => ~leftover /\ store = Cfg!EmptyStore) /\ handles' = handles
      BY <2>2 DEF Cfg!CloseEnds
    <3>2. ASSUME store = Cfg!EmptyStore, NEW k \in Kinds PROVE handles[k] = 0
      BY <3>2 DEF Cfg!HandlesHaveConfig, Cfg!EmptyStore, Cfg!Parts, Cfg!HandleParts, Kinds
    <3> QED
      BY <3>1, <3>2 DEF HandlesOfActivation
  <2> QED
    BY <1>4, <2>1, <2>2 DEF Closing
<1>5. CASE UNCHANGED vars
  BY <1>5 DEF vars, linkVars, subVars, cfgVars, HandlesOfActivation
<1> QED
  BY <1>1, <1>2, <1>3, <1>4, <1>5 DEF Next

-----------------------------------------------------------------------------
(* The callbacks *)

\* What the callbacks' thread has and does keeps its invariant; nothing else moves the
\* link meanwhile, and what the cache gives it is of the root proxy or came late.
LEMMA CallbackThread ==
    ASSUME PastOnly, Side, CallbackInv, ThreadStep(Notifier), late \subseteq late'
    PROVE  CallbackInv'
<1> DEFINE t == Notifier
<1> USE DEF CallbackInv, CallbackResolutions
<1>0. t \in Threads /\ acq \in [Threads -> Sub!AcqStates] /\ pc \in [Threads -> Cfg!PcStates]
      /\ loc \in [Threads -> 0 .. epoch] /\ want \in [Threads -> Kinds]
      /\ src \in [Threads -> EpochOrNone]
  BY DEF Threads, Side, PastOnly
<1>1. UNCHANGED linkVars
  <2>1. CASE ConfigStep(t)
    BY <1>0, <2>1, SubConfigStep
  <2> QED
    BY <2>1 DEF ThreadStep, AcquireCall, AcquireGoesOn, ClientDone, LoadWithout, LoadWith, ReloadWithout,
         ReloadWith, ResolutionsWith, Sub!AcquireFast, Sub!AcquireMiss, Sub!NoRoot, Sub!GetRoot,
         Sub!QueryFails, Sub!Query, Sub!StoreFresh, Sub!StoreLost, Sub!Release, Sub!linkVars, linkVars
<1>2. UNCHANGED <<root, op>>
  BY <1>1 DEF linkVars
<1>3. CASE AcquireCall(t)
  <2>1. PICK k \in Kinds : Sub!AcquireFast(t, k) \/ Sub!AcquireMiss(t, k)
    BY <1>3 DEF AcquireCall
  <2>2. op \in {"activated", "deactivated"}
    BY <2>1 DEF Sub!AcquireFast, Sub!AcquireMiss, Sub!MayCall
  <2>3. UNCHANGED <<pc, src>>
    BY <1>3 DEF AcquireCall, cfgVars
  <2>4. CASE Sub!AcquireFast(t, k)
    <3>1. acq'[t] = "held" /\ want'[t] = k /\ loc'[t] = cache[k] /\ cache[k] # 0
      BY <1>0, <2>4 DEF Sub!AcquireFast
    <3>2. cache[k] = root \/ <<k, cache[k]>> \in late
      BY <2>2, <3>1 DEF Side, Sub!StaleOnlyLate
    <3> QED
      BY <1>2, <2>2, <2>3, <3>1, <3>2
  <2>5. CASE Sub!AcquireMiss(t, k)
    <3>1. acq'[t] = "root"
      BY <1>0, <2>5 DEF Sub!AcquireMiss
    <3> QED
      BY <1>2, <2>2, <2>3, <3>1
  <2> QED
    BY <2>1, <2>4, <2>5
<1>4. CASE AcquireGoesOn(t)
  <2>1. UNCHANGED <<pc, src>> /\ acq[t] # "idle"
    BY <1>4 DEF AcquireGoesOn, cfgVars, Sub!GetRoot, Sub!Query, Sub!StoreFresh, Sub!StoreLost
  <2>2. CASE Sub!GetRoot(t)
    <3>1. acq'[t] = "query" /\ loc'[t] = root
      BY <1>0, <2>2 DEF Sub!GetRoot
    <3> QED
      BY <1>2, <2>1, <3>1
  <2>3. CASE Sub!Query(t)
    <3>1. acq[t] = "query" /\ acq'[t] = "store" /\ loc'[t] = loc[t]
      BY <1>0, <2>3 DEF Sub!Query
    <3> QED
      BY <1>2, <2>1, <3>1
  <2>4. CASE Sub!StoreFresh(t)
    <3>1. acq[t] = "store" /\ acq'[t] = "held" /\ loc'[t] = loc[t]
      BY <1>0, <2>4 DEF Sub!StoreFresh
    <3> QED
      BY <1>2, <2>1, <3>1
  <2>5. CASE Sub!StoreLost(t)
    <3>1. /\ acq'[t] = "held" /\ want'[t] = want[t] /\ loc'[t] = cache[want[t]]
          /\ cache[want[t]] # 0 /\ want[t] \in Kinds
      BY <1>0, <2>5 DEF Sub!StoreLost
    <3>2. cache[want[t]] = root \/ <<want[t], cache[want[t]]>> \in late
      BY <2>1, <3>1 DEF Side, Sub!StaleOnlyLate
    <3> QED
      BY <1>2, <2>1, <3>1, <3>2
  <2> QED
    BY <1>4, <2>2, <2>3, <2>4, <2>5 DEF AcquireGoesOn
<1>5. CASE ClientDone(t)
  <2>1. UNCHANGED <<pc, src>> /\ acq'[t] = "idle"
    BY <1>0, <1>5 DEF ClientDone, cfgVars, Sub!NoRoot, Sub!QueryFails, Sub!Release
  <2> QED
    BY <1>2, <2>1
<1>6. CASE LoadWithout(t) \/ LoadWith(t) \/ ReloadWithout(t) \/ ReloadWith(t)
  <2>1. acq[t] # "idle" /\ acq'[t] = "idle"
    BY <1>0, <1>6 DEF LoadWithout, LoadWith, ReloadWithout, ReloadWith, Sub!NoRoot, Sub!QueryFails,
                      Sub!Release
  <2>2. pc'[t] # "resolutions"
    BY <1>0, <1>6 DEF LoadWithout, LoadWith, ReloadWithout, ReloadWith, Cfg!LoadHandles, Cfg!AfterPart,
                      Cfg!ReloadFails, Cfg!ReloadHandles, Cfg!Goto, Kinds
  <2> QED
    BY <1>2, <2>1, <2>2
<1>7. CASE ResolutionsWith(t)
  <2>1. /\ acq[t] = "held" /\ acq'[t] = "idle" /\ want[t] = "videoPort"
        /\ src'[t] = loc[t] /\ pc'[t] = "resolutions"
    BY <1>0, <1>7 DEF ResolutionsWith, Sub!Release, Cfg!ResolutionsFetched, Cfg!Goto
  <2> QED
    BY <1>2, <2>1
<1>8. CASE ConfigStep(t)
  <2>1. acq[t] = "idle" /\ acq'[t] = "idle"
    BY <1>8 DEF ConfigStep, subVars
  <2>2. pc'[t] # "resolutions"
    BY <1>0, <1>8 DEF ConfigStep, Cfg!Accessor, Cfg!EnsureFast, Cfg!EnsureSlow, Cfg!EnsureSkip,
         Cfg!EnsureLoad, Cfg!Read, Cfg!PeekBegin, Cfg!PeekEnd, Cfg!LoadFails, Cfg!LoadAnswer, Cfg!Commit,
         Cfg!LoadReturn, Cfg!ReloadCall, Cfg!ReloadAnswer, Cfg!ReloadCommit, Cfg!ReloadReturn,
         Cfg!ReloadFails, Cfg!ResolutionsStored, Cfg!Goto
  <2>3. pc'[t] # "idle" => pc[t] # "idle" \/ op \in {"activated", "deactivated"}
    BY <1>0, <1>8 DEF ConfigStep, Cfg!Accessor, Cfg!EnsureFast, Cfg!EnsureSlow, Cfg!EnsureSkip,
         Cfg!EnsureLoad, Cfg!Read, Cfg!PeekBegin, Cfg!PeekEnd, Cfg!LoadFails, Cfg!LoadAnswer, Cfg!Commit,
         Cfg!LoadReturn, Cfg!ReloadCall, Cfg!ReloadAnswer, Cfg!ReloadCommit, Cfg!ReloadReturn,
         Cfg!ReloadFails, Cfg!ResolutionsStored, Cfg!Goto, Cfg!MayCall
  <2> QED
    BY <1>2, <2>1, <2>2, <2>3
<1> QED
  BY <1>3, <1>4, <1>5, <1>6, <1>7, <1>8 DEF ThreadStep

LEMMA CallbackStep ==
    ASSUME PastOnly, Side, CallbackInv, [Next]_vars
    PROVE  CallbackInv'
<1> USE DEF CallbackInv, CallbackResolutions
<1>0. Notifier \in Threads /\ late \subseteq late'
  BY LateGrows DEF Threads
<1>1. ASSUME NEW s \in Threads, s # Notifier, ThreadStep(s) PROVE CallbackInv'
  <2>1. UNCHANGED <<acq[Notifier], want[Notifier], loc[Notifier], pc[Notifier], src[Notifier]>>
    BY <1>0, <1>1, OthersLocals
  <2>2. UNCHANGED linkVars
    <3>1. CASE ConfigStep(s)
      BY <3>1, SubConfigStep
    <3> QED
      BY <1>1, <3>1 DEF ThreadStep, AcquireCall, AcquireGoesOn, ClientDone, LoadWithout, LoadWith,
           ReloadWithout, ReloadWith, ResolutionsWith, Sub!AcquireFast, Sub!AcquireMiss, Sub!NoRoot,
           Sub!GetRoot, Sub!QueryFails, Sub!Query, Sub!StoreFresh, Sub!StoreLost, Sub!Release,
           Sub!linkVars, linkVars
  <2> QED
    BY <1>0, <2>1, <2>2 DEF linkVars
<1>2. CASE Operational \/ Closing \/ (Cfg!LinkChanges /\ UNCHANGED subVars) \/ UNCHANGED vars
  <2>1. UNCHANGED <<acq, want, loc>>
    BY <1>2 DEF Operational, Closing, Sub!Activated, Sub!ActivatedEnd, Sub!DownSwap, Sub!DownRelease,
                Sub!DeactivatedEnd, Sub!DownEnd, Sub!CloseSwap, Sub!CloseRelease, Sub!SwapOut,
                Sub!ReleaseSwapped, Sub!subVars, subVars, vars
  <2>2. UNCHANGED <<pc, src>>
    BY <1>2 DEF Operational, Closing, Cfg!LinkChanges, Cfg!Activated, Cfg!ActivatedEnd, Cfg!DownRelease,
                Cfg!DeactivatedEnd, Cfg!Clear, Cfg!CloseSteps, Cfg!CloseEnds, Cfg!cfgVars, Cfg!cfgLocals,
                cfgVars, vars
  <2>3. \/ acq[Notifier] = "idle" /\ pc[Notifier] = "idle"
        \/ UNCHANGED <<root, op>>
    <3>1. op \in {"activated", "deactivated"} \/ (acq[Notifier] = "idle" /\ pc[Notifier] = "idle")
      OBVIOUS
    <3> QED
      BY <1>2, <3>1 DEF Operational, Closing, Cfg!LinkChanges, Cfg!PluginUp, Cfg!PluginDown, Cfg!Open,
           Cfg!OpenReturn, Cfg!Activated, Cfg!ActivatedEnd, Cfg!DownRelease, Cfg!DeactivatedEnd, Cfg!Clear,
           Cfg!CloseSteps, Cfg!CloseEnds, Cfg!BaseClose, Cfg!OpMoves, Cfg!CloseMoves, Sub!ActivatedEnd,
           Sub!DeactivatedEnd, linkVars, vars
  <2> QED
    BY <1>0, <2>1, <2>2, <2>3
<1> QED
  BY <1>0, <1>1, <1>2, CallbackThread DEF Next

-----------------------------------------------------------------------------
(* Theorems *)

LEMMA InitHInv == Init => HInv
<1> SUFFICES ASSUME Init PROVE HInv
  OBVIOUS
<1>1. Sub!Threads = Threads /\ Cfg!Threads = Threads /\ Sub!AnyKind \in Kinds
  BY DEF Threads, Sub!Threads, Cfg!Threads, Sub!AnyKind, Kinds
<1>2. PastOnly /\ CacheOfLatest
  BY <1>1 DEF Init, LinkInit, Sub!SubInit, PastOnly, CacheOfLatest, Sub!EmptyCache
<1>3. ASSUME NEW t \in Threads PROVE GetsNoOlder(t)
  BY <1>1 DEF Init, LinkInit, Sub!SubInit, Cfg!CfgInit, GetsNoOlder, Cfg!NoHandles, Cfg!HandleParts,
              Kinds, Cfg!Building
<1>4. HandlesOfActivation
  BY DEF Init, Cfg!CfgInit, HandlesOfActivation, Cfg!NoHandles, Cfg!HandleParts, Kinds
<1> QED
  BY <1>2, <1>3, <1>4 DEF HInv

LEMMA GetsStep ==
    ASSUME HInv, Side, [Next]_vars, NEW t \in Threads
    PROVE  GetsNoOlder(t)'
<1> USE DEF HInv
<1>0. src[t] \in Nat /\ late \subseteq late'
  BY LateGrows DEF Side, EpochOrNone
<1>1. CASE ThreadStep(t)
  BY <1>0, <1>1, AcquireStep, FetchStep, ConfigStepGets DEF ThreadStep
<1>2. ASSUME NEW s \in Threads, s # t, ThreadStep(s) PROVE GetsNoOlder(t)'
  BY <1>0, <1>2, OthersLocals, Undisturbed
<1>3. CASE Operational \/ Closing \/ (Cfg!LinkChanges /\ UNCHANGED subVars) \/ UNCHANGED vars
  <2>1. UNCHANGED <<acq, want, loc>>
    BY <1>3 DEF Operational, Closing, Sub!Activated, Sub!ActivatedEnd, Sub!DownSwap, Sub!DownRelease,
                Sub!DeactivatedEnd, Sub!DownEnd, Sub!CloseSwap, Sub!CloseRelease, Sub!SwapOut,
                Sub!ReleaseSwapped, Sub!subVars, subVars, vars
  <2>2. UNCHANGED <<pc, src, newHandles>>
    BY <1>3 DEF Operational, Closing, Cfg!LinkChanges, Cfg!Activated, Cfg!ActivatedEnd, Cfg!DownRelease,
                Cfg!DeactivatedEnd, Cfg!Clear, Cfg!CloseSteps, Cfg!CloseEnds, Cfg!cfgVars, Cfg!cfgLocals,
                cfgVars, vars
  <2> QED
    BY <1>0, <2>1, <2>2, Undisturbed
<1> QED
  BY <1>1, <1>2, <1>3 DEF Next

\* The invariant of the composition, on top of those of its components.
THEOREM Invariance == Spec => []HInv
<1>1. HInv /\ Side /\ [Next]_vars => HInv'
  BY PastOnlyStep, CacheStep, GetsStep, HandlesStep DEF HInv
<1> QED
  BY InitHInv, SideHolds, <1>1, PTL DEF Spec

\* A load whose answer is of the latest activation commits handles of that activation,
\* even if DeviceSettings died and came back while it fetched them, unless one came
\* through a proxy that AcquireSubInterface() had cached too late.
THEOREM Fresh == Spec => []FreshLoad
<1>1. HInv => FreshLoad
  <2> SUFFICES ASSUME HInv, NEW t \in Threads, pc[t] = "commit", src[t] = epoch, NEW k \in Kinds
               PROVE  newHandles[t][k] \in {0, epoch} \/ <<k, newHandles[t][k]>> \in late
    BY DEF FreshLoad
  <2>1. GetsNoOlder(t) /\ epoch \in Nat /\ pc[t] \in Cfg!Building
    BY DEF HInv, PastOnly, Cfg!Building
  <2> QED
    BY <2>1 DEF GetsNoOlder, NotBefore
<1> QED
  BY <1>1, Invariance, PTL

\* Accessors never mix the config of one activation with handles of another, beyond what
\* late commits and late fills of the cache leave behind.
THEOREM HandlesMatch == Spec => []HandlesOfActivation
BY Invariance, PTL DEF HInv

\* What OnDeviceSettingsActivated() fetches and stores as its documentation shows is of
\* the activation it is called for, whatever other threads do to the cache meanwhile,
\* unless one of them had cached a proxy too late.
THEOREM CallbackStoresOwn == Spec => []CallbackResolutions
<1>1. Init => CallbackInv
  BY DEF Init, LinkInit, Sub!SubInit, Cfg!CfgInit, CallbackInv, CallbackResolutions, Threads,
         Sub!Threads, Cfg!Threads
<1>2. HInv /\ Side /\ CallbackInv /\ [Next]_vars => CallbackInv'
  BY CallbackStep DEF HInv
<1>3. CallbackInv => CallbackResolutions
  BY DEF CallbackInv
<1> QED
  BY <1>1, <1>2, <1>3, Invariance, SideHolds, PTL DEF Spec
=============================================================================
