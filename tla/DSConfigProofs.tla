--------------------------- MODULE DSConfigProofs ---------------------------
(***************************************************************************)
(* Proofs that DSConfig loads its configuration in one thread at a time    *)
(* and never twice, keeps older data only where it has recorded that it    *)
(* does, and implements the abstract configuration of DSConfigAbs, for any *)
(* number of threads and activations.                                      *)
(***************************************************************************)
EXTENDS DSConfig, TLAPS

\* 0 and the empty values have the types of the variables.
LEMMA Empties ==
    /\ 0 \in EpochOrNone
    /\ EmptyStore \in Stores
    /\ NoHandles \in HandleMaps
    /\ \A p \in Parts : EmptyStore[p] = 0
    /\ \A p \in HandleParts : NoHandles[p] = 0
BY LinkAssumption DEF EpochOrNone, EmptyStore, Stores, NoHandles, HandleMaps

\* The inductive invariant holds initially: nothing is loaded, nothing is on its way.
LEMMA InitCInv == Init => CInv
<1> SUFFICES ASSUME Init PROVE CInv
  OBVIOUS
<1> USE Empties DEF Init, CfgInit, LinkInit
<1>1. TypeOK
  BY DEF TypeOK, LinkTypeOK, OwnerStates, OpStates, PcStates
<1>2. LinkInv
  BY DEF LinkInv
<1>3. LocalsInv
  BY DEF LocalsInv, LocalsOf
<1>4. OneLoader
  BY DEF OneLoader, LoadStates
<1>5. StaleOnlyLeftover /\ HandlesHaveConfig
  BY DEF StaleOnlyLeftover, HandlesHaveConfig
<1> QED
  BY <1>1, <1>2, <1>3, <1>4, <1>5 DEF CInv

-----------------------------------------------------------------------------
(* The link, whose invariant DSConfig and DSSubInterface build on *)

\* Activations, deactivations, Open() and Close() keep the link's variables typed
\* and the root proxy that of the running activation.
LEMMA LinkInvariance ==
    ASSUME LinkTypeOK, LinkInv, [LinkNext]_linkVars
    PROVE  LinkTypeOK' /\ LinkInv'
<1> USE LinkAssumption
<1> USE DEF LinkTypeOK, LinkInv, OwnerStates, EpochOrNone
<1>0. 0 \in EpochOrNone
  OBVIOUS
<1>1. CASE LinkStep
  <2> USE DEF OpStates
  <2>1. CASE PluginUp
    <3>1. epoch + 1 \in EpochOrNone /\ root = 0
      BY <2>1 DEF PluginUp
    <3>2. CASE link
      BY <2>1, <3>1, <3>2 DEF PluginUp
    <3>3. CASE ~link
      BY <2>1, <3>1, <3>3 DEF PluginUp
    <3> QED
      BY <3>2, <3>3
  <2>2. CASE PluginDown
    <3>1. CASE link
      BY <1>0, <2>2, <3>1 DEF PluginDown
    <3>2. CASE ~link
      BY <2>2, <3>2 DEF PluginDown
    <3> QED
      BY <3>1, <3>2
  <2>3. CASE Open
    BY <2>3 DEF Open
  <2>4. CASE OpenReturn
    BY <2>4 DEF OpenReturn
  <2>5. CASE BaseClose
    <3>1. op' \in {"idle", "down"}
      BY <2>5 DEF BaseClose
    <3>2. owner' = "closed" /\ link' = FALSE /\ root' = 0 /\ UNCHANGED <<up, epoch>>
      BY <2>5 DEF BaseClose
    <3>3. LinkTypeOK'
      BY <1>0, <3>1, <3>2
    <3>4. LinkInv'
      BY <3>2
    <3> QED
      BY <3>3, <3>4
  <2> QED
    BY <1>1, <2>1, <2>2, <2>3, <2>4, <2>5 DEF LinkStep
<1>2. ASSUME NEW from \in OpStates, NEW to \in OpStates, OpMoves(from, to)
      PROVE  LinkTypeOK' /\ LinkInv'
  BY <1>2 DEF OpMoves
<1>3. CASE CloseMoves("open", "swapped") \/ CloseMoves("swapped", "close")
  BY <1>3 DEF CloseMoves
<1>4. CASE UNCHANGED linkVars
  BY <1>4 DEF linkVars
<1> QED
  BY <1>1, <1>2, <1>3, <1>4 DEF LinkNext

-----------------------------------------------------------------------------
(* The steps of a thread change no other thread's locals. *)

OthersSame(t) ==
    \A u \in Threads \ {t} :
        /\ pc'[u] = pc[u]
        /\ src'[u] = src[u]
        /\ newStore'[u] = newStore[u]
        /\ newHandles'[u] = newHandles[u]

ThreadStep(t) == Accessor(t) \/ Load(t) \/ Reload(t) \/ Resolutions(t)

\* A step of thread t's call moves its pc and no other thread's.
LEMMA GotoStep ==
    ASSUME TypeOK, NEW t \in Threads, NEW from, NEW to \in PcStates, Goto(t, from, to)
    PROVE  /\ pc[t] = from /\ pc'[t] = to
           /\ pc' \in [Threads -> PcStates]
           /\ \A u \in Threads \ {t} : pc'[u] = pc[u]
BY DEF TypeOK, Goto

\* A step that keeps the locals keeps their types.
LEMMA KeepStep ==
    ASSUME KeepLocals
    PROVE  \A u \in Threads : /\ src'[u] = src[u]
                              /\ newStore'[u] = newStore[u]
                              /\ newHandles'[u] = newHandles[u]
BY DEF KeepLocals

\* Leaving the scope empties thread t's locals and no other thread's.
LEMMA LeaveStep ==
    ASSUME TypeOK, NEW t \in Threads, LeaveScope(t)
    PROVE  \A u \in Threads \ {t} : /\ src'[u] = src[u]
                                    /\ newStore'[u] = newStore[u]
                                    /\ newHandles'[u] = newHandles[u]
BY DEF TypeOK, LeaveScope

\* What is built from an answer is of the activation that gave it.
LEMMA AnsweredStep ==
    ASSUME TypeOK, NEW t \in Threads, NEW filled \in SUBSET Parts, Answered(t, filled)
    PROVE  /\ src'[t] = root /\ root # 0
           /\ newStore'[t] \in [Parts -> {0, root}]
           /\ \A p \in filled : newStore'[t][p] = root
           /\ newHandles'[t] = newHandles[t]
           /\ \A u \in Threads \ {t} : /\ src'[u] = src[u]
                                       /\ newStore'[u] = newStore[u]
                                       /\ newHandles'[u] = newHandles[u]
BY DEF TypeOK, Answered

\* Fetching the handles of a part changes thread t's handles of that part only.
LEMMA FetchedStep ==
    ASSUME TypeOK, NEW t \in Threads, NEW p \in Parts \cap HandleParts, NEW e \in EpochOrNone,
           Fetched(t, p, e)
    PROVE  /\ src'[t] = src[t] /\ newStore'[t] = newStore[t]
           /\ newHandles'[t][p] = e /\ (e # 0 => newStore[t][p] # 0)
           /\ \A q \in HandleParts \ {p} : newHandles'[t][q] = newHandles[t][q]
           /\ newHandles'[t] \in HandleMaps
           /\ \A u \in Threads \ {t} : /\ src'[u] = src[u]
                                       /\ newStore'[u] = newStore[u]
                                       /\ newHandles'[u] = newHandles[u]
BY DEF TypeOK, Fetched, HandleMaps

\* The epochs that a commit and a client's call leave in the stored resolutions.
LEMMA ResolutionEpochs ==
    ASSUME TypeOK, NEW t \in Threads
    PROVE  /\ SUBSET ({newStore[t]["videoPort"]} \ {0}) \subseteq SUBSET Epochs
           /\ src[t] # 0 => src[t] \in Epochs
<1>1. EpochOrNone \ {0} = Epochs /\ "videoPort" \in Parts
  BY LinkAssumption DEF EpochOrNone, Epochs, Parts
<1>2. newStore[t]["videoPort"] \in EpochOrNone /\ src[t] \in EpochOrNone
  BY <1>1 DEF TypeOK, Stores
<1> QED
  BY <1>1, <1>2

\* The order in which a load fetches its handles.
LEMMA AfterPartFacts ==
    /\ DOMAIN AfterPart = {"videoPort", "audio", "videoDevice"}
    /\ AfterPart["videoPort"] = "audio"
    /\ AfterPart["audio"] = "videoDevice"
    /\ AfterPart["videoDevice"] = "commit"
BY DEF AfterPart

-----------------------------------------------------------------------------
(* Types *)

LocalTypeOK ==
    /\ pc \in [Threads -> PcStates]
    /\ src \in [Threads -> EpochOrNone]
    /\ newStore \in [Threads -> Stores]
    /\ newHandles \in [Threads -> HandleMaps]

SharedTypeOK ==
    /\ loaded \in BOOLEAN
    /\ store \in Stores
    /\ handles \in HandleMaps
    /\ resolutions \in SUBSET Epochs
    /\ initMutex \in SUBSET Threads
    /\ leftover \in BOOLEAN

\* The steps of a thread keep the types of its locals.
LEMMA LocalTypeStep ==
    ASSUME TypeOK, NEW t \in Threads, ThreadStep(t)
    PROVE  LocalTypeOK'
<1>1. LocalTypeOK /\ root \in EpochOrNone /\ epoch \in EpochOrNone
  BY DEF TypeOK, LocalTypeOK, LinkTypeOK
<1>2. ASSUME NEW from, NEW to \in PcStates, Goto(t, from, to) PROVE pc' \in [Threads -> PcStates]
  BY <1>2, GotoStep
<1>3. ASSUME KeepLocals, pc' \in [Threads -> PcStates] PROVE LocalTypeOK'
  BY <1>1, <1>3 DEF KeepLocals, LocalTypeOK
<1>4. ASSUME LeaveScope(t), pc' \in [Threads -> PcStates] PROVE LocalTypeOK'
  BY <1>1, <1>4, Empties DEF LeaveScope, LocalTypeOK
<1>5. ASSUME NEW filled \in SUBSET Parts, Answered(t, filled), pc' \in [Threads -> PcStates]
      PROVE  LocalTypeOK'
  <2>1. [p \in Parts |-> IF p \in filled THEN root ELSE 0] \in Stores
    BY <1>1, Empties DEF Stores
  <2> QED
    BY <1>1, <1>5, <2>1 DEF Answered, LocalTypeOK
<1>6. ASSUME NEW p \in HandleParts, NEW e \in 0 .. epoch, Fetched(t, p, e),
             pc' \in [Threads -> PcStates]
      PROVE  LocalTypeOK'
  <2>1. e \in EpochOrNone
    BY <1>1, LinkAssumption DEF EpochOrNone
  <2> QED
    BY <1>1, <1>6, <2>1 DEF Fetched, LocalTypeOK, HandleMaps
<1> USE DEF PcStates, LoadStates, ReloadStates
<1>7. CASE Accessor(t)
  BY <1>2, <1>3, <1>7 DEF Accessor, EnsureFast, EnsureSlow, EnsureSkip, EnsureLoad, Read,
                          PeekBegin, PeekEnd
<1>8. CASE Load(t)
  <2>1. CASE LoadFails(t) \/ LoadReturn(t)
    BY <1>2, <1>3, <2>1 DEF LoadFails, LoadReturn
  <2>2. CASE LoadAnswer(t)
    BY <1>2, <1>5, <2>2, AnswersAssumption DEF LoadAnswer
  <2>3. ASSUME NEW p \in DOMAIN AfterPart, NEW e \in 0 .. epoch, LoadHandles(t, p, e)
        PROVE  LocalTypeOK'
    <3>1. p \in HandleParts /\ AfterPart[p] \in PcStates
      BY AfterPartFacts DEF HandleParts
    <3> QED
      BY <1>2, <1>6, <2>3, <3>1 DEF LoadHandles
  <2>4. CASE Commit(t)
    BY <1>2, <1>4, <2>4 DEF Commit
  <2> QED
    BY <1>8, <2>1, <2>2, <2>3, <2>4 DEF Load
<1>9. CASE Reload(t)
  <2>1. CASE ReloadCall(t) \/ ReloadReturn(t)
    BY <1>2, <1>3, <2>1 DEF ReloadCall, ReloadReturn
  <2>2. CASE ReloadFails(t)
    BY <1>2, <1>4, <2>2 DEF ReloadFails
  <2>3. CASE ReloadAnswer(t)
    BY <1>2, <1>5, <2>3, AnswersAssumption DEF ReloadAnswer
  <2>4. ASSUME NEW e \in 0 .. epoch, ReloadHandles(t, e) PROVE LocalTypeOK'
    <3>1. "audio" \in HandleParts
      BY DEF HandleParts
    <3> QED
      BY <1>2, <1>6, <2>4, <3>1 DEF ReloadHandles
  <2>5. CASE ReloadCommit(t)
    BY <1>2, <1>4, <2>5 DEF ReloadCommit
  <2> QED
    BY <1>9, <2>1, <2>2, <2>3, <2>4, <2>5 DEF Reload
<1>10. CASE Resolutions(t)
  <2>1. ASSUME NEW e \in 1 .. epoch, ResolutionsFetched(t, e) PROVE LocalTypeOK'
    <3>1. e \in EpochOrNone /\ pc' \in [Threads -> PcStates]
      BY <1>1, <1>2, <2>1, LinkAssumption DEF EpochOrNone, ResolutionsFetched
    <3> QED
      BY <1>1, <2>1, <3>1 DEF ResolutionsFetched, LocalTypeOK
  <2>2. CASE ResolutionsStored(t)
    BY <1>2, <1>4, <2>2 DEF ResolutionsStored
  <2> QED
    BY <1>10, <2>1, <2>2 DEF Resolutions
<1> QED
  BY <1>7, <1>8, <1>9, <1>10 DEF ThreadStep

\* The shared variables change in the two commits, the callbacks and Close().
LEMMA SharedTypeStep == TypeOK /\ LocalsInv /\ [Next]_vars => SharedTypeOK'
<1> SUFFICES ASSUME TypeOK, LocalsInv, [Next]_vars PROVE SharedTypeOK'
  OBVIOUS
<1>1. SharedTypeOK
  BY DEF TypeOK, SharedTypeOK
<1>2. CASE UNCHANGED <<cfgShared, initMutex>>
  BY <1>1, <1>2 DEF SharedTypeOK, cfgShared
<1>3. CASE LinkChanges \/ CloseSteps \/ UNCHANGED vars
  BY <1>2, <1>3 DEF LinkChanges, CloseSteps, vars, cfgVars
<1>4. CASE CloseEnds
  BY <1>1, <1>4 DEF CloseEnds, SharedTypeOK
<1>5. CASE Operational
  <2>1. CASE Activated \/ Clear
    BY <1>1, <2>1, Empties DEF Activated, Clear, SharedTypeOK
  <2>2. CASE ActivatedEnd \/ DownRelease \/ DeactivatedEnd
    BY <1>2, <2>2 DEF ActivatedEnd, DownRelease, DeactivatedEnd, cfgVars
  <2> QED
    BY <1>5, <2>1, <2>2 DEF Operational
<1>6. ASSUME NEW t \in Threads, ThreadStep(t) PROVE SharedTypeOK'
  <2>1. CASE EnsureLoad(t) \/ LoadFails(t) \/ LoadReturn(t)
    BY <1>1, <2>1 DEF EnsureLoad, LoadFails, LoadReturn, SharedTypeOK, cfgShared
  <2>2. CASE Commit(t)
    <3>1. [newHandles[t] EXCEPT !["display"] = handles["display"]] \in HandleMaps
      BY DEF TypeOK, HandleMaps, HandleParts
    <3> QED
      BY <1>1, <2>2, <3>1, ResolutionEpochs DEF Commit, SharedTypeOK, TypeOK
  <2>3. CASE ReloadCommit(t)
    <3>1. /\ [store EXCEPT !["audio"] = newStore[t]["audio"]] \in Stores
          /\ [handles EXCEPT !["audio"] = newHandles[t]["audio"]] \in HandleMaps
      BY DEF TypeOK, HandleMaps, HandleParts, Stores, Parts
    <3> QED
      BY <1>1, <2>3, <3>1 DEF ReloadCommit, SharedTypeOK
  <2>4. CASE ResolutionsStored(t)
    <3>1. src[t] \in Epochs
      BY <2>4, ResolutionEpochs DEF ResolutionsStored, Goto, LocalsInv, LocalsOf
    <3> QED
      BY <1>1, <2>4, <3>1 DEF ResolutionsStored, SharedTypeOK
  <2>5. CASE ~(\/ EnsureLoad(t) \/ LoadFails(t) \/ LoadReturn(t) \/ Commit(t)
               \/ ReloadCommit(t) \/ ResolutionsStored(t))
    <3>1. CASE Accessor(t)
      BY <1>2, <2>5, <3>1 DEF Accessor, EnsureFast, EnsureSlow, EnsureSkip, Read, PeekBegin,
                              PeekEnd
    <3>2. CASE Load(t)
      BY <1>2, <2>5, <3>2 DEF Load, LoadAnswer, LoadHandles
    <3>3. CASE Reload(t)
      BY <1>2, <2>5, <3>3 DEF Reload, ReloadCall, ReloadFails, ReloadAnswer, ReloadHandles,
                              ReloadReturn
    <3>4. CASE Resolutions(t)
      BY <1>2, <2>5, <3>4 DEF Resolutions, ResolutionsFetched
    <3> QED
      BY <1>6, <3>1, <3>2, <3>3, <3>4 DEF ThreadStep
  <2> QED
    BY <2>1, <2>2, <2>3, <2>4, <2>5
<1> QED
  BY <1>3, <1>4, <1>5, <1>6 DEF Next, ThreadStep

-----------------------------------------------------------------------------
(* One load at a time, and none once the config is loaded *)

LEMMA LoaderStep == CInv /\ [Next]_vars => OneLoader'
<1> SUFFICES ASSUME CInv, [Next]_vars PROVE OneLoader'
  OBVIOUS
<1>1. TypeOK /\ OneLoader
  BY DEF CInv
<1>2. CASE UNCHANGED <<pc, initMutex>> /\ (loaded' => loaded)
  BY <1>1, <1>2 DEF OneLoader
<1>3. CASE LinkChanges \/ CloseEnds \/ CloseSteps \/ UNCHANGED vars
  BY <1>2, <1>3 DEF LinkChanges, CloseEnds, CloseSteps, vars, cfgVars, cfgShared, cfgLocals
<1>4. CASE Operational
  BY <1>2, <1>4 DEF Operational, Activated, ActivatedEnd, DownRelease, DeactivatedEnd, Clear,
                    cfgVars, cfgShared, cfgLocals
<1>5. ASSUME NEW t \in Threads, ThreadStep(t) PROVE OneLoader'
  <2> USE DEF OneLoader, LoadStates
  <2>1. ASSUME NEW from, NEW to, Goto(t, from, to)
        PROVE  pc[t] = from /\ pc'[t] = to /\ \A u \in Threads \ {t} : pc'[u] = pc[u]
    BY <1>1, <2>1 DEF TypeOK, Goto
  <2>2. CASE EnsureLoad(t)
    BY <1>1, <2>1, <2>2 DEF EnsureLoad, cfgShared
  <2>3. CASE LoadFails(t) \/ LoadReturn(t)
    BY <1>1, <2>1, <2>3 DEF LoadFails, LoadReturn, cfgShared
  <2>4. CASE LoadAnswer(t)
    BY <1>1, <2>1, <2>4 DEF LoadAnswer, cfgShared
  <2>5. ASSUME NEW p \in DOMAIN AfterPart, NEW e, LoadHandles(t, p, e) PROVE OneLoader'
    BY <1>1, <2>1, <2>5, AfterPartFacts DEF LoadHandles, cfgShared
  <2>6. CASE Commit(t)
    BY <1>1, <2>1, <2>6 DEF Commit
  <2>7. CASE Reload(t)
    <3>1. pc[t] \notin LoadStates /\ pc'[t] \notin LoadStates /\ UNCHANGED <<initMutex, loaded>>
          /\ \A u \in Threads \ {t} : pc'[u] = pc[u]
      BY <2>1, <2>7 DEF Reload, ReloadCall, ReloadFails, ReloadAnswer, ReloadHandles,
                        ReloadCommit, ReloadReturn, cfgShared
    <3> QED
      BY <1>1, <3>1
  <2>8. CASE Accessor(t) /\ ~EnsureLoad(t)
    <3>1. pc[t] \notin LoadStates /\ pc'[t] \notin LoadStates /\ UNCHANGED <<initMutex, loaded>>
          /\ \A u \in Threads \ {t} : pc'[u] = pc[u]
      BY <2>1, <2>8 DEF Accessor, EnsureFast, EnsureSlow, EnsureSkip, Read, PeekBegin, PeekEnd,
                        cfgShared
    <3> QED
      BY <1>1, <3>1
  <2>9. CASE Resolutions(t)
    <3>1. pc[t] \notin LoadStates /\ pc'[t] \notin LoadStates /\ UNCHANGED <<initMutex, loaded>>
          /\ \A u \in Threads \ {t} : pc'[u] = pc[u]
      BY <2>1, <2>9 DEF Resolutions, ResolutionsFetched, ResolutionsStored, cfgShared
    <3> QED
      BY <1>1, <3>1
  <2> QED
    BY <1>5, <2>2, <2>3, <2>4, <2>5, <2>6, <2>7, <2>8, <2>9 DEF ThreadStep, Load
<1> QED
  BY <1>3, <1>4, <1>5 DEF Next, ThreadStep

-----------------------------------------------------------------------------
(* What a load or a reload builds is of one activation. *)

\* A thread whose locals do not change keeps its part of the invariant.
LEMMA LocalsKept ==
    ASSUME NEW t, LocalsOf(t), pc'[t] = pc[t], src'[t] = src[t],
           newStore'[t] = newStore[t], newHandles'[t] = newHandles[t]
    PROVE  LocalsOf(t)'
BY DEF LocalsOf

\* A thread that has left its scope, or was not building anything, satisfies it.
LEMMA LocalsIdle ==
    ASSUME NEW t, pc'[t] \notin Building, pc'[t] # "resolutions", newHandles'[t] = NoHandles
    PROVE  LocalsOf(t)'
BY DEF LocalsOf, Building

\* What a call has built so far stays of one activation, whatever the others do.
LEMMA LocalsStep == CInv /\ [Next]_vars => LocalsInv'
<1> SUFFICES ASSUME CInv, [Next]_vars PROVE LocalsInv'
  OBVIOUS
<1>1. TypeOK /\ LocalsInv /\ epoch \in EpochOrNone
  BY DEF CInv, TypeOK, LinkTypeOK
<1>2. CASE UNCHANGED cfgLocals
  BY <1>1, <1>2, LocalsKept DEF LocalsInv, cfgLocals
<1>3. CASE LinkChanges \/ CloseEnds \/ CloseSteps \/ UNCHANGED vars
  BY <1>2, <1>3 DEF LinkChanges, CloseEnds, CloseSteps, vars, cfgVars
<1>4. CASE Operational
  BY <1>2, <1>4 DEF Operational, Activated, ActivatedEnd, DownRelease, DeactivatedEnd, Clear,
                    cfgVars
<1>5. ASSUME NEW t \in Threads, ThreadStep(t) PROVE LocalsInv'
  <2>1. ASSUME OthersSame(t), LocalsOf(t)' PROVE LocalsInv'
    BY <1>1, <2>1, LocalsKept DEF LocalsInv, OthersSame
  <2>2. ASSUME NEW from, NEW to, Goto(t, from, to)
        PROVE  pc[t] = from /\ pc'[t] = to /\ \A u \in Threads \ {t} : pc'[u] = pc[u]
    BY <1>1, <2>2 DEF TypeOK, Goto
  <2>3. ASSUME KeepLocals, pc[t] \notin Building, pc'[t] \notin Building \cup {"resolutions"},
               \A u \in Threads \ {t} : pc'[u] = pc[u]
        PROVE  LocalsInv'
    BY <1>1, <2>1, <2>3, KeepStep, LocalsIdle DEF OthersSame, LocalsInv, LocalsOf
  <2>4. ASSUME LeaveScope(t), pc'[t] \notin Building \cup {"resolutions"},
               \A u \in Threads \ {t} : pc'[u] = pc[u]
        PROVE  LocalsInv'
    <3>1. newHandles'[t] = NoHandles
      BY <1>1, <2>4 DEF LeaveScope, TypeOK
    <3> QED
      BY <1>1, <2>1, <2>4, <3>1, LeaveStep, LocalsIdle DEF OthersSame
  <2>5. ASSUME NEW filled \in Answers, Answered(t, filled), newHandles[t] = NoHandles,
               \A u \in Threads \ {t} : pc'[u] = pc[u],
               pc'[t] = "videoPort" \/ (pc'[t] = "raudio" /\ "audio" \in filled)
        PROVE  LocalsInv'
    <3>1. filled \in SUBSET Parts
      BY AnswersAssumption
    <3>2. LocalsOf(t)'
      BY <1>1, <2>5, <3>1, AnsweredStep, Empties DEF LocalsOf, Building
    <3> QED
      BY <1>1, <2>1, <2>5, <3>1, <3>2, AnsweredStep DEF OthersSame
  <2>6. CASE Accessor(t)
    BY <2>2, <2>3, <2>6 DEF Accessor, EnsureFast, EnsureSlow, EnsureSkip, EnsureLoad, Read,
                            PeekBegin, PeekEnd, Building
  <2>7. CASE LoadFails(t) \/ LoadReturn(t) \/ ReloadCall(t) \/ ReloadReturn(t)
    BY <2>2, <2>3, <2>7 DEF LoadFails, LoadReturn, ReloadCall, ReloadReturn, Building
  <2>8. CASE Commit(t) \/ ReloadCommit(t) \/ ReloadFails(t) \/ ResolutionsStored(t)
    BY <2>2, <2>4, <2>8 DEF Commit, ReloadCommit, ReloadFails, ResolutionsStored, Building
  <2>9. CASE LoadAnswer(t) \/ ReloadAnswer(t)
    <3>1. newHandles[t] = NoHandles
      BY <1>1, <2>2, <2>9 DEF LoadAnswer, ReloadAnswer, LocalsInv, LocalsOf, Building
    <3> QED
      BY <2>2, <2>5, <2>9, <3>1 DEF LoadAnswer, ReloadAnswer
  <2>10. ASSUME NEW p \in DOMAIN AfterPart, NEW e \in 0 .. epoch, LoadHandles(t, p, e)
         PROVE  LocalsInv'
    <3>1. p \in Parts \cap HandleParts /\ e \in EpochOrNone
      BY <1>1, AfterPartFacts, LinkAssumption DEF Parts, HandleParts, EpochOrNone
    <3>2. /\ pc[t] \in {"videoPort", "audio", "videoDevice"}
          /\ pc'[t] \in {"audio", "videoDevice", "commit"}
          /\ \A u \in Threads \ {t} : pc'[u] = pc[u]
          /\ Fetched(t, p, e)
      BY <2>2, <2>10, AfterPartFacts DEF LoadHandles
    <3>3. /\ src'[t] = src[t] /\ newStore'[t] = newStore[t]
          /\ newHandles'[t][p] # 0 => newStore[t][p] # 0
          /\ \A q \in HandleParts \ {p} : newHandles'[t][q] = newHandles[t][q]
          /\ OthersSame(t)
      BY <1>1, <3>1, <3>2, FetchedStep DEF OthersSame
    <3>4. LocalsOf(t)'
      BY <1>1, <3>2, <3>3 DEF LocalsInv, LocalsOf, Building
    <3> QED
      BY <2>1, <3>3, <3>4
  <2>11. ASSUME NEW e \in 0 .. epoch, ReloadHandles(t, e) PROVE LocalsInv'
    <3>1. "audio" \in Parts \cap HandleParts /\ e \in EpochOrNone
      BY <1>1, LinkAssumption DEF Parts, HandleParts, EpochOrNone
    <3>2. /\ pc[t] = "raudio" /\ pc'[t] = "rcommit" /\ e # 0
          /\ \A u \in Threads \ {t} : pc'[u] = pc[u]
          /\ Fetched(t, "audio", e)
      BY <2>2, <2>11 DEF ReloadHandles
    <3>3. /\ src'[t] = src[t] /\ newStore'[t] = newStore[t] /\ newHandles'[t]["audio"] = e
          /\ OthersSame(t)
      BY <1>1, <3>1, <3>2, FetchedStep DEF OthersSame
    <3>4. LocalsOf(t)'
      BY <1>1, <3>2, <3>3 DEF LocalsInv, LocalsOf, Building
    <3> QED
      BY <2>1, <3>3, <3>4
  <2>12. ASSUME NEW e \in 1 .. epoch, ResolutionsFetched(t, e) PROVE LocalsInv'
    <3>1. /\ pc[t] = "idle" /\ pc'[t] = "resolutions"
          /\ \A u \in Threads \ {t} : pc'[u] = pc[u]
      BY <2>2, <2>12 DEF ResolutionsFetched
    <3>2. src'[t] = e /\ e # 0 /\ newHandles'[t] = newHandles[t] /\ OthersSame(t)
      BY <1>1, <2>12, <3>1 DEF ResolutionsFetched, TypeOK, OthersSame
    <3>3. LocalsOf(t)'
      BY <1>1, <3>1, <3>2 DEF LocalsInv, LocalsOf, Building
    <3> QED
      BY <2>1, <3>2, <3>3
  <2> QED
    BY <1>5, <2>6, <2>7, <2>8, <2>9, <2>10, <2>11, <2>12 DEF ThreadStep, Load, Reload, Resolutions
<1> QED
  BY <1>3, <1>4, <1>5 DEF Next, ThreadStep

-----------------------------------------------------------------------------
(* What clients see *)

\* Each step does one of the things the abstract configuration allows, or
\* nothing, to what clients see.
LEMMA AbstractStep == CInv /\ [Next]_vars => [Abs!AbsNext]_(Abs!absVars)
<1> SUFFICES ASSUME CInv, [Next]_vars PROVE [Abs!AbsNext]_(Abs!absVars)
  OBVIOUS
<1> USE DEF Abs!absVars, Abs!AbsNext
<1>1. TypeOK /\ OneLoader /\ LocalsInv
  BY DEF CInv
<1>2. CASE UNCHANGED cfgShared
  BY <1>2 DEF cfgShared
<1>3. CASE LinkChanges \/ CloseSteps \/ UNCHANGED vars
  BY <1>2, <1>3 DEF LinkChanges, CloseSteps, vars, cfgVars
<1>4. CASE CloseEnds
  BY <1>4 DEF CloseEnds
<1>5. CASE Activated
  BY <1>5 DEF Activated, Abs!Reset, NoHandles
<1>6. CASE Clear
  BY <1>6 DEF Clear, Abs!Clear, NoHandles, EmptyStore
<1>7. CASE ActivatedEnd \/ DownRelease \/ DeactivatedEnd
  BY <1>2, <1>7 DEF ActivatedEnd, DownRelease, DeactivatedEnd, cfgVars
<1>8. ASSUME NEW t \in Threads, Commit(t) PROVE Abs!AbsNext
  <2>1. pc[t] = "commit"
    BY <1>8 DEF Commit, Goto
  <2>2. LocalsOf(t) /\ ~loaded
    BY <1>1, <2>1 DEF LocalsInv, OneLoader, LoadStates
  <2>3. src[t] \in 1 .. MaxEpoch
    BY <1>1, <2>1, <2>2 DEF LocalsOf, TypeOK, EpochOrNone
  <2>4. newStore[t] \in [Parts -> {0, src[t]}]
    BY <2>1, <2>2 DEF LocalsOf
  <2>5. handles' \in [HandleParts -> 0 .. MaxEpoch]
    <3>1. newHandles[t] \in HandleMaps /\ handles \in HandleMaps
      BY <1>1 DEF TypeOK
    <3>2. [newHandles[t] EXCEPT !["display"] = handles["display"]] \in HandleMaps
      BY <3>1 DEF HandleMaps, HandleParts
    <3> QED
      BY <1>8, <3>2 DEF Commit, HandleMaps, EpochOrNone
  <2>6. \A p \in Parts \cap HandleParts : handles'[p] # 0 => store'[p] # 0
    <3>1. \A p \in Parts : p # "display"
      BY DEF Parts
    <3>2. \A p \in Parts \cap HandleParts : handles'[p] = newHandles[t][p]
      BY <1>1, <1>8, <3>1 DEF Commit, TypeOK, HandleMaps
    <3> QED
      BY <1>8, <2>1, <2>2, <3>2 DEF LocalsOf, Commit
  <2>7. loaded' = TRUE /\ store' = newStore[t]
    BY <1>8 DEF Commit
  <2>8. resolutions' \in SUBSET {src[t]}
    <3>1. newStore[t]["videoPort"] \in {0, src[t]}
      BY <2>4 DEF Parts
    <3> QED
      BY <1>8, <3>1 DEF Commit
  <2>9. Abs!Fill(src[t])
    BY <2>2, <2>4, <2>5, <2>6, <2>7, <2>8 DEF Abs!Fill
  <2> QED
    BY <2>3, <2>9
<1>9. ASSUME NEW t \in Threads, ReloadCommit(t) PROVE Abs!AbsNext
  <2>1. pc[t] = "rcommit"
    BY <1>9 DEF ReloadCommit, Goto
  <2>2. LocalsOf(t)
    BY <1>1 DEF LocalsInv
  <2>3. /\ newStore[t]["audio"] \in 1 .. MaxEpoch
        /\ newHandles[t]["audio"] \in 1 .. MaxEpoch
    BY <1>1, <2>1, <2>2
       DEF LocalsOf, TypeOK, Stores, HandleMaps, EpochOrNone, Parts, HandleParts
  <2>4. Abs!ReplaceAudio(newStore[t]["audio"], newHandles[t]["audio"])
    BY <1>9 DEF ReloadCommit, Abs!ReplaceAudio
  <2> QED
    BY <2>3, <2>4
<1>10. ASSUME NEW t \in Threads, ResolutionsStored(t) PROVE Abs!AbsNext
  <2>1. src[t] \in 1 .. MaxEpoch
    BY <1>1, <1>10, ResolutionEpochs DEF ResolutionsStored, Goto, LocalsInv, LocalsOf, Epochs
  <2>2. Abs!AddResolutions(src[t])
    BY <1>10 DEF ResolutionsStored, Abs!AddResolutions
  <2> QED
    BY <2>1, <2>2
<1>11. ASSUME NEW t \in Threads, ThreadStep(t), ~Commit(t), ~ReloadCommit(t), ~ResolutionsStored(t)
       PROVE  UNCHANGED cfgShared
  <2>1. CASE Accessor(t)
    BY <2>1 DEF Accessor, EnsureFast, EnsureSlow, EnsureSkip, EnsureLoad, Read, PeekBegin, PeekEnd
  <2>2. CASE Load(t)
    BY <1>11, <2>2 DEF Load, LoadFails, LoadAnswer, LoadHandles, LoadReturn
  <2>3. CASE Reload(t)
    BY <1>11, <2>3 DEF Reload, ReloadCall, ReloadFails, ReloadAnswer, ReloadHandles, ReloadReturn
  <2>4. CASE Resolutions(t)
    BY <1>11, <2>4 DEF Resolutions, ResolutionsFetched
  <2> QED
    BY <1>11, <2>1, <2>2, <2>3, <2>4 DEF ThreadStep
<1> QED
  BY <1>2, <1>3, <1>4, <1>5, <1>6, <1>7, <1>8, <1>9, <1>10, <1>11 DEF Next, Operational, ThreadStep

\* The abstract steps keep handles only where there is config.
LEMMA HandlesStep == CInv /\ [Next]_vars => HandlesHaveConfig'
<1> SUFFICES ASSUME CInv, [Abs!AbsNext]_(Abs!absVars) PROVE HandlesHaveConfig'
  BY AbstractStep
<1> USE DEF HandlesHaveConfig
<1>1. HandlesHaveConfig /\ store \in Stores /\ handles \in HandleMaps
  BY DEF CInv, TypeOK
<1>2. ASSUME NEW e \in 1 .. MaxEpoch, Abs!Fill(e) PROVE HandlesHaveConfig'
  BY <1>2 DEF Abs!Fill
<1>3. ASSUME NEW e \in 1 .. MaxEpoch, NEW h \in 1 .. MaxEpoch, Abs!ReplaceAudio(e, h)
      PROVE  HandlesHaveConfig'
  BY <1>1, <1>3 DEF Abs!ReplaceAudio, Stores, HandleMaps
<1>4. CASE Abs!Reset \/ Abs!Clear
  BY <1>4 DEF Abs!Reset, Abs!Clear
<1>5. ASSUME NEW e \in 1 .. MaxEpoch, Abs!AddResolutions(e) PROVE HandlesHaveConfig'
  BY <1>1, <1>5 DEF Abs!AddResolutions
<1>6. CASE UNCHANGED Abs!absVars
  BY <1>1, <1>6 DEF Abs!absVars
<1> QED
  BY <1>2, <1>3, <1>4, <1>5, <1>6 DEF Abs!AbsNext

\* The stores get older data only from a commit whose answer is no longer of the
\* root's activation, or from a Close(), and both are recorded.
LEMMA StaleStep == CInv /\ [Next]_vars => StaleOnlyLeftover'
<1> SUFFICES ASSUME CInv, [Next]_vars PROVE StaleOnlyLeftover'
  OBVIOUS
<1> USE DEF StaleOnlyLeftover
<1>1. TypeOK /\ LinkInv /\ LocalsInv /\ StaleOnlyLeftover
  BY DEF CInv
<1>2. CASE UNCHANGED cfgShared /\ UNCHANGED <<root, op>>
  BY <1>1, <1>2 DEF cfgShared
<1>3. CASE LinkChanges
  <2>1. UNCHANGED cfgShared
    BY <1>3 DEF LinkChanges, cfgVars
  <2>2. CASE PluginUp \/ Open
    <3>1. root = 0 /\ op = "idle"
      BY <1>1, <2>2 DEF PluginUp, Open, LinkInv
    <3>2. resolutions \subseteq {0} => resolutions = {}
      BY <1>1 DEF TypeOK, Epochs
    <3> QED
      BY <1>1, <2>1, <3>1, <3>2 DEF cfgShared
  <2>3. CASE PluginDown
    <3>1. CASE link
      BY <2>3, <3>1 DEF PluginDown
    <3>2. CASE ~link
      BY <1>1, <2>1, <2>3, <3>2 DEF PluginDown, cfgShared
    <3> QED
      BY <3>1, <3>2
  <2>4. CASE OpenReturn
    BY <1>2, <2>1, <2>4 DEF OpenReturn
  <2> QED
    BY <1>3, <2>2, <2>3, <2>4 DEF LinkChanges
<1>4. CASE CloseSteps
  BY <1>2, <1>4 DEF CloseSteps, CloseMoves, cfgVars
<1>5. CASE CloseEnds
  <2>1. ~leftover' => ~loaded' /\ store' = EmptyStore /\ resolutions' = {}
    BY <1>5 DEF CloseEnds
  <2> QED
    BY <2>1, Empties
<1>6. CASE Operational
  <2>1. CASE Activated
    <3>1. op = "up" /\ loaded' = FALSE /\ UNCHANGED <<store, resolutions, leftover, root>>
      BY <2>1 DEF Activated, OpMoves
    <3> QED
      BY <1>1, <3>1
  <2>2. CASE ActivatedEnd
    <3>1. op = "activated" /\ UNCHANGED <<loaded, store, resolutions, leftover, root>>
      BY <2>2 DEF ActivatedEnd, OpMoves, cfgVars, cfgShared
    <3> QED
      BY <1>1, <3>1
  <2>3. CASE DownRelease \/ DeactivatedEnd
    BY <2>3 DEF DownRelease, DeactivatedEnd, OpMoves
  <2>4. CASE Clear
    BY <2>4, Empties DEF Clear
  <2> QED
    BY <1>6, <2>1, <2>2, <2>3, <2>4 DEF Operational
<1>7. ASSUME NEW t \in Threads, Commit(t) PROVE StaleOnlyLeftover'
  <2>1. pc[t] = "commit"
    BY <1>7 DEF Commit, Goto
  <2>2. src[t] # 0 /\ newStore[t] \in [Parts -> {0, src[t]}]
    BY <1>1, <2>1 DEF LocalsInv, LocalsOf
  <2>3. store' = newStore[t] /\ (~leftover' => src[t] = root) /\ root' = root
    BY <1>7 DEF Commit, linkVars
  <2>4. resolutions' \subseteq {src[t]}
    <3>1. newStore[t]["videoPort"] \in {0, src[t]}
      BY <2>2 DEF Parts
    <3> QED
      BY <1>7, <3>1 DEF Commit
  <2> QED
    BY <2>2, <2>3, <2>4
<1>8. ASSUME NEW t \in Threads, ReloadCommit(t) PROVE StaleOnlyLeftover'
  <2>1. pc[t] = "rcommit"
    BY <1>8 DEF ReloadCommit, Goto
  <2>2. newStore[t]["audio"] = src[t]
    BY <1>1, <2>1 DEF LocalsInv, LocalsOf
  <2>3. /\ \A p \in Parts : store'[p] \in {store[p], src[t]}
        /\ ~leftover' => ~leftover /\ src[t] = root
        /\ UNCHANGED <<loaded, resolutions, root, op>>
    BY <1>1, <1>8, <2>2 DEF ReloadCommit, TypeOK, Stores, linkVars
  <2> QED
    BY <1>1, <2>3
<1>9. ASSUME NEW t \in Threads, ResolutionsStored(t) PROVE StaleOnlyLeftover'
  <2>1. /\ resolutions' = resolutions \cup {src[t]}
        /\ ~leftover' => ~leftover /\ src[t] = root
        /\ UNCHANGED <<loaded, store, root, op>>
    BY <1>9 DEF ResolutionsStored, linkVars
  <2> QED
    BY <1>1, <2>1
<1>10. ASSUME NEW t \in Threads, ThreadStep(t), ~Commit(t), ~ReloadCommit(t), ~ResolutionsStored(t)
       PROVE  UNCHANGED cfgShared /\ UNCHANGED <<root, op>>
  <2>1. CASE Accessor(t)
    BY <2>1 DEF Accessor, EnsureFast, EnsureSlow, EnsureSkip, EnsureLoad, Read, PeekBegin, PeekEnd,
                linkVars
  <2>2. CASE Load(t)
    BY <1>10, <2>2 DEF Load, LoadFails, LoadAnswer, LoadHandles, LoadReturn, linkVars
  <2>3. CASE Reload(t)
    BY <1>10, <2>3 DEF Reload, ReloadCall, ReloadFails, ReloadAnswer, ReloadHandles, ReloadReturn,
                      linkVars
  <2>4. CASE Resolutions(t)
    BY <1>10, <2>4 DEF Resolutions, ResolutionsFetched, linkVars
  <2> QED
    BY <1>10, <2>1, <2>2, <2>3, <2>4 DEF ThreadStep
<1>11. CASE UNCHANGED vars
  BY <1>2, <1>11 DEF vars, linkVars, cfgVars
<1> QED
  BY <1>2, <1>3, <1>4, <1>5, <1>6, <1>7, <1>8, <1>9, <1>10, <1>11 DEF Next, ThreadStep

\* Every step moves the link as DSLink says, or not at all.
LEMMA StepOfLink == [Next]_vars => [LinkNext]_linkVars
<1> SUFFICES ASSUME [Next]_vars PROVE [LinkNext]_linkVars
  OBVIOUS
<1>1. CASE LinkChanges \/ CloseEnds \/ CloseSteps
  BY <1>1 DEF LinkChanges, CloseEnds, CloseSteps, LinkNext, LinkStep
<1>2. CASE Operational
  <2> USE DEF OpStates, LinkNext
  <2>1. CASE Activated \/ ActivatedEnd
    BY <2>1 DEF Activated, ActivatedEnd
  <2>2. CASE DownRelease
    BY <2>2 DEF DownRelease
  <2>3. CASE DeactivatedEnd \/ Clear
    BY <2>3 DEF DeactivatedEnd, Clear
  <2> QED
    BY <1>2, <2>1, <2>2, <2>3 DEF Operational
<1>3. ASSUME NEW t \in Threads, ThreadStep(t) PROVE UNCHANGED linkVars
  <2>1. CASE Accessor(t)
    BY <2>1 DEF Accessor, EnsureFast, EnsureSlow, EnsureSkip, EnsureLoad, Read, PeekBegin, PeekEnd
  <2>2. CASE Load(t)
    BY <2>2 DEF Load, LoadFails, LoadAnswer, LoadHandles, LoadReturn, Commit
  <2>3. CASE Reload(t)
    BY <2>3 DEF Reload, ReloadCall, ReloadFails, ReloadAnswer, ReloadHandles, ReloadReturn,
                ReloadCommit
  <2>4. CASE Resolutions(t)
    BY <2>4 DEF Resolutions, ResolutionsFetched, ResolutionsStored
  <2> QED
    BY <1>3, <2>1, <2>2, <2>3, <2>4 DEF ThreadStep
<1> QED
  BY <1>1, <1>2, <1>3 DEF Next, ThreadStep, vars

\* Every step keeps the types.
LEMMA TypeStep == CInv /\ [Next]_vars => TypeOK'
<1> SUFFICES ASSUME CInv, [Next]_vars PROVE TypeOK'
  OBVIOUS
<1>1. TypeOK /\ LinkTypeOK'
  BY StepOfLink, LinkInvariance DEF CInv, TypeOK
<1>2. SharedTypeOK'
  BY <1>1, SharedTypeStep DEF CInv
<1>3. LocalTypeOK'
  <2>1. LocalTypeOK
    BY <1>1 DEF TypeOK, LocalTypeOK
  <2>2. CASE UNCHANGED cfgLocals
    BY <2>1, <2>2 DEF LocalTypeOK, cfgLocals
  <2>3. CASE LinkChanges \/ CloseEnds \/ CloseSteps \/ UNCHANGED vars
    BY <2>2, <2>3 DEF LinkChanges, CloseEnds, CloseSteps, vars, cfgVars
  <2>4. CASE Operational
    BY <2>2, <2>4 DEF Operational, Activated, ActivatedEnd, DownRelease, DeactivatedEnd, Clear,
                      cfgVars
  <2>5. ASSUME NEW t \in Threads, ThreadStep(t) PROVE LocalTypeOK'
    BY <1>1, <2>5, LocalTypeStep
  <2> QED
    BY <2>3, <2>4, <2>5 DEF Next, ThreadStep
<1> QED
  BY <1>1, <1>2, <1>3 DEF TypeOK, SharedTypeOK, LocalTypeOK

-----------------------------------------------------------------------------
(* Theorems *)

\* The invariant holds in every reachable state.
THEOREM Invariance == Spec => []CInv
<1>1. CInv /\ [Next]_vars => LinkInv'
  BY StepOfLink, LinkInvariance DEF CInv, TypeOK
<1>2. CInv /\ [Next]_vars => CInv'
  BY <1>1, TypeStep, LoaderStep, LocalsStep, StaleStep, HandlesStep DEF CInv
<1> QED
  BY InitCInv, <1>2, PTL DEF Spec

\* Every variable keeps its type.
THEOREM TypeCorrect == Spec => []TypeOK
BY Invariance, PTL DEF CInv

\* The double-checked locking of _ensureConfigLoaded() is right: LoadAllConfigs()
\* never runs twice at a time, and never while the config is loaded, for any number
\* of threads, however ReloadAudioConfigs() and Operational() interfere.
THEOREM LoadsOnce == Spec => []OneLoader
BY Invariance, PTL DEF CInv

\* Config of an activation that has ended, the resolutions that clients have stored
\* included, stays only if a commit or a client's call that straddled the
\* deactivation, or a Close(), left it.
THEOREM NoOtherStale == Spec => []StaleOnlyLeftover
BY Invariance, PTL DEF CInv

\* No part keeps handles without config.
THEOREM HandlesWithConfig == Spec => []HandlesHaveConfig
BY Invariance, PTL DEF CInv

\* Only Operational(), or a load of a config that was not there, empties the audio
\* handles; ReloadAudioConfigs() never does, whatever it is answered.
THEOREM AudioKept == Spec => AudioKeptByReload
<1>1. ASSUME CInv, [Next]_vars, AudioLost PROVE op # op' \/ (~loaded /\ loaded')
  <2> USE <1>1 DEF AudioLost
  <2>1. TypeOK /\ OneLoader /\ LocalsInv
    BY <1>1 DEF CInv
  <2>2. ~UNCHANGED cfgShared
    BY <1>1 DEF cfgShared
  <2>3. CASE LinkChanges \/ CloseEnds \/ CloseSteps \/ UNCHANGED vars
    BY <2>2, <2>3 DEF LinkChanges, CloseEnds, CloseSteps, vars, cfgVars, cfgShared
  <2>4. CASE Operational
    BY <2>4 DEF Operational, Activated, ActivatedEnd, DownRelease, DeactivatedEnd, Clear, OpMoves
  <2>5. ASSUME NEW t \in Threads, Accessor(t) PROVE FALSE
    BY <2>2, <2>5 DEF Accessor, EnsureFast, EnsureSlow, EnsureSkip, EnsureLoad, Read, PeekBegin, PeekEnd
  <2>6. ASSUME NEW t \in Threads, Load(t) PROVE ~loaded /\ loaded'
    <3>1. CASE Commit(t)
      <4>1. pc[t] = "commit" /\ loaded'
        BY <3>1 DEF Commit, Goto
      <4> QED
        BY <2>1, <4>1 DEF OneLoader, LoadStates
    <3> QED
      BY <2>2, <2>6, <3>1 DEF Load, LoadFails, LoadAnswer, LoadHandles, LoadReturn
  <2>7. ASSUME NEW t \in Threads, Reload(t) PROVE FALSE
    <3>1. CASE ReloadCommit(t)
      <4>1. pc[t] = "rcommit"
        BY <3>1 DEF ReloadCommit, Goto
      <4>2. newHandles[t]["audio"] # 0
        BY <2>1, <4>1 DEF LocalsInv, LocalsOf
      <4>3. handles'["audio"] = newHandles[t]["audio"]
        BY <2>1, <3>1 DEF ReloadCommit, TypeOK, HandleMaps, HandleParts
      <4> QED
        BY <4>2, <4>3
    <3> QED
      BY <2>2, <2>7, <3>1 DEF Reload, ReloadCall, ReloadFails, ReloadAnswer, ReloadHandles, ReloadReturn
  <2>8. ASSUME NEW t \in Threads, Resolutions(t) PROVE FALSE
    BY <2>8 DEF Resolutions, ResolutionsFetched, ResolutionsStored, cfgShared
  <2> QED
    BY <1>1, <2>3, <2>4, <2>5, <2>6, <2>7, <2>8 DEF Next
<1> QED
  BY <1>1, Invariance, PTL DEF Spec, AudioKeptByReload

\* DSHelper's configuration, with its threads, locks and COM-RPC, implements the
\* abstract one: it is filled once per reset, in one piece of one activation, and
\* the resolutions that clients add go only with the rest.
THEOREM Implementation == Spec => ImplementsAbs
<1>1. Init => Abs!AbsInit
  BY DEF Init, CfgInit, Abs!AbsInit, EmptyStore, NoHandles
<1> QED
  BY <1>1, Invariance, AbstractStep, PTL DEF Spec, ImplementsAbs, Abs!AbsSpec
=============================================================================
