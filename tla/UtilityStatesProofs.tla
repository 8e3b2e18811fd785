------------------------- MODULE UtilityStatesProofs ------------------------
(***************************************************************************)
(* The utilities that keep a state: those that several threads meet in - the *)
(* timer, the handlers of IARM events, init(), the worker pool, the direct *)
(* link, the token, the system mode file - and those whose state outlives a *)
(* call: the references to a plugin, the versions of an API, the files that *)
(* are moved, persisted or saved.                                          *)
(* Each has an inductive invariant of its own, of which the property that  *)
(* Utilities names follows.                                                *)
(***************************************************************************)
EXTENDS Utilities, FiniteSetTheorems, SequenceTheorems, WellFoundedInduction, TLAPS

\* What a step does to the utilities is a step of the one that the behaviour is of.
LEMMA OwnStep ==
  ASSUME [Next]_vars
  PROVE  /\ part' = part
         /\ part = "timer" => [T!Next]_(T!vars)
         /\ part = "handlers" => [H!Next]_(H!vars)
         /\ part = "iarm" => [I!Next]_(I!vars)
         /\ part = "link" => [L!Next]_(L!vars)
         /\ part = "token" => [Tk!Next]_(Tk!vars)
         /\ part = "mode" => [SM!Next]_(SM!vars)
         /\ [W!Next]_(W!vars)
<1>1. CASE UNCHANGED vars
  BY <1>1 DEF vars, timerVars, T!vars, handlersVars, H!vars, iarmVars, I!vars,
              linkVars, L!vars, L!linkVars, tokenVars, Tk!vars, modeVars, SM!vars, poolVars, W!vars
<1>2. CASE Next
  BY <1>2 DEF Next, Only, poolVars, W!vars
<1> QED
  BY <1>1, <1>2

-----------------------------------------------------------------------------
(* TpTimer.  PendingIfActive speaks of the moments between calls; the        *)
(* invariant says what holds within them, as long as calls do not overlap.   *)

Steps == {"nothing", "schedule", "activate", "deactivate"}

TimerTypes ==
    /\ due \in Nat
    /\ active \in BOOLEAN /\ singleShot \in BOOLEAN /\ met \in BOOLEAN
    /\ timed \in {"waiting", "callback", "stop", "start"}
    /\ doing \in [T!Both -> Steps]
    /\ timed = "waiting" => doing["timer"] = "nothing"

\* One thread is at it at a time, and after the callback only the timer's.
Alone ==
    /\ doing["plugin"] = "nothing" \/ doing["timer"] = "nothing"
    /\ timed \in {"stop", "start"} => doing["plugin"] = "nothing"

\* A start() or stop() under way has revoked what was pending; a job that start() has scheduled
\* may be running before start() ends.
UnderWay == \A t \in T!Both :
    /\ doing[t] \in {"schedule", "deactivate"} => due = 0
    /\ doing[t] = "activate" => due = 1 \/ (timed = "callback" /\ due = 0)

\* In the callback the job that runs is no longer pending, but another may be.
Between ==
    doing["plugin"] = "nothing" /\ doing["timer"] = "nothing" =>
        /\ timed = "waiting" => due = IF active THEN 1 ELSE 0
        /\ timed = "callback" => due \in {0, 1} /\ (~active => due = 0)

TimerInv == TimerTypes /\ (~met => Alone /\ UnderWay /\ Between)

LEMMA TimerInit == T!Init => TimerInv
<1> SUFFICES ASSUME T!Init PROVE TimerInv
  OBVIOUS
<1>1. TimerTypes
  BY DEF T!Init, TimerTypes, T!Both, Steps
<1>2. \A t \in T!Both : doing[t] = "nothing"
  BY DEF T!Init
<1>3. Alone /\ UnderWay
  BY <1>2 DEF T!Init, Alone, UnderWay, T!Both
<1>4. Between
  BY <1>2 DEF T!Init, Between
<1> QED
  BY <1>1, <1>3, <1>4 DEF TimerInv

LEMMA TimerStep == TimerInv /\ [T!Next]_(T!vars) => TimerInv'
<1> SUFFICES ASSUME TimerInv, [T!Next]_(T!vars) PROVE TimerInv'
  OBVIOUS
<1> USE DEF TimerInv, TimerTypes, T!Both, Steps
<1>1. ASSUME NEW next \in {"schedule", "deactivate"}, T!PluginCalls(next) PROVE TimerInv'
  <2>1. TimerTypes'
    BY <1>1 DEF T!PluginCalls, T!Revoke
  <2>2. ~met' => doing["timer"] = "nothing" /\ timed \in {"waiting", "callback"}
    BY <1>1 DEF T!PluginCalls, T!Revoke
  <2>3. ~met' => Alone' /\ UnderWay' /\ Between'
    BY <1>1, <2>2 DEF T!PluginCalls, T!Revoke, Alone, UnderWay, Between
  <2> QED
    BY <2>1, <2>3
<1>2. ASSUME NEW next \in {"schedule", "deactivate"}, T!CallbackCalls(next) PROVE TimerInv'
  BY <1>2 DEF T!CallbackCalls, T!Revoke, Alone, UnderWay, Between
<1>3. ASSUME NEW t \in T!Both, T!Schedule(t) PROVE TimerInv'
  <2>1. TimerTypes'
    BY <1>3 DEF T!Schedule
  <2>2. ~met' => Alone' /\ UnderWay' /\ Between'
    BY <1>3 DEF T!Schedule, Alone, UnderWay, Between
  <2> QED
    BY <2>1, <2>2
<1>4. ASSUME NEW t \in T!Both, T!SetActive(t) PROVE TimerInv'
  <2>1. TimerTypes'
    BY <1>4 DEF T!SetActive
  <2>2. ~met' => Alone' /\ UnderWay' /\ Between'
    BY <1>4 DEF T!SetActive, Alone, UnderWay, Between
  <2> QED
    BY <2>1, <2>2
<1>5. ASSUME T!Expire PROVE TimerInv'
  BY <1>5 DEF T!Expire, Alone, UnderWay, Between
<1>6. ASSUME T!Decide PROVE TimerInv'
  BY <1>6 DEF T!Decide, Alone, UnderWay, Between
<1>7. ASSUME T!Rearm PROVE TimerInv'
  BY <1>7 DEF T!Rearm, T!Revoke, Alone, UnderWay, Between
<1>8. ASSUME T!setSingleShot PROVE TimerInv'
  BY <1>8 DEF T!setSingleShot, Alone, UnderWay, Between
<1>9. ASSUME UNCHANGED T!vars PROVE TimerInv'
  BY <1>9 DEF T!vars, Alone, UnderWay, Between
<1> QED
  BY <1>1, <1>2, <1>3, <1>4, <1>5, <1>6, <1>7, <1>8, <1>9 DEF T!Next

\* Calls that do not overlap leave the timer pending exactly if m_isActive says so, however often
\* and from whichever thread it was started and stopped.
THEOREM Pending == Spec => []PendingIfActive
<1> DEFINE Inv == part = "timer" => TimerInv
<1>1. Init => Inv
  BY TimerInit DEF Init
<1>2. Inv /\ [Next]_vars => Inv'
  BY OwnStep, TimerStep
<1>3. Inv => PendingIfActive
  BY DEF TimerInv, TimerTypes, Between, T!PendingIfActive, PendingIfActive
<1> QED
  BY <1>1, <1>2, <1>3, PTL DEF Spec

-----------------------------------------------------------------------------
(* IarmHandlers.  RemovedNotCalled looks at a call that is made; the         *)
(* invariant says of every event which calls may still come.                 *)

HandlerTypes ==
    /\ handlerOf \in [Events -> Handlers \cup {None}]
    /\ onBus \in SUBSET Events
    /\ entering \in [Events -> Nat]
    /\ removed \in SUBSET Events /\ late \in SUBSET Events /\ busFailed \in SUBSET Events

\* An event that is not in the map has been removed, or never registered and is not called; and if
\* calls of a removed one wait or may come, one of the two causes is noted.
EventInv(e) ==
    /\ e \in removed => handlerOf[e] = None
    /\ handlerOf[e] = None /\ e \notin removed => e \notin onBus /\ entering[e] = 0
    /\ e \in removed /\ entering[e] > 0 => e \in late \cup busFailed
    /\ e \in removed /\ e \in onBus => e \in busFailed

HandlersInv ==
    /\ HandlerTypes
    /\ \A e \in Events : EventInv(e)
    /\ H!RemovedNotCalled

LEMMA HandlersInit == H!Init => HandlersInv
BY DEF H!Init, HandlersInv, HandlerTypes, EventInv, H!RemovedNotCalled

\* A registration and a removal concern their event alone.
LEMMA MapStep ==
    ASSUME HandlersInv, NEW e \in Events, NEW h \in Handlers,
           H!Register(e, h) \/ H!Remove(e, h)
    PROVE  HandlersInv'
<1> USE DEF HandlersInv
<1>1. HandlerTypes'
  BY DEF HandlerTypes, H!Register, H!Remove
<1>2. H!RemovedNotCalled'
  BY DEF H!RemovedNotCalled, H!Register, H!Remove
<1>3. ASSUME NEW d \in Events, d # e PROVE EventInv(d)'
  BY <1>3 DEF HandlerTypes, EventInv, H!Register, H!Remove
<1>4. CASE H!Register(e, h)
  <2>1. handlerOf'[e] # None /\ e \notin removed'
    BY <1>4, ThreadsAssumption DEF HandlerTypes, H!Register
  <2> QED
    BY <1>1, <1>2, <1>3, <2>1 DEF EventInv
<1>5. CASE H!Remove(e, h)
  <2>1. /\ handlerOf'[e] = None /\ e \in removed' /\ entering' = entering
        /\ entering[e] > 0 => e \in late'
        /\ e \in onBus' => e \in busFailed'
    BY <1>5 DEF HandlerTypes, H!Remove
  <2> QED
    BY <1>1, <1>2, <1>3, <2>1 DEF EventInv
<1> QED
  BY <1>4, <1>5

LEMMA DispatchStep ==
    ASSUME HandlersInv, NEW e \in Events, H!Dispatch(e)
    PROVE  HandlersInv'
<1> USE DEF HandlersInv
<1>1. HandlerTypes' /\ H!RemovedNotCalled'
  BY DEF HandlerTypes, H!RemovedNotCalled, H!Dispatch
<1>2. ASSUME NEW d \in Events PROVE EventInv(d)'
  BY DEF HandlerTypes, EventInv, H!Dispatch
<1> QED
  BY <1>1, <1>2

\* The call that goes on finds a handler if and only if its event is registered.
LEMMA HandleStep ==
    ASSUME HandlersInv, NEW e \in Events, H!Handle(e)
    PROVE  HandlersInv'
<1> USE DEF HandlersInv
<1>1. HandlerTypes'
  BY DEF HandlerTypes, H!Handle
<1>2. ASSUME NEW d \in Events PROVE EventInv(d)'
  BY DEF HandlerTypes, EventInv, H!Handle
<1>3. H!RemovedNotCalled'
  <2>1. /\ called'.handler = handlerOf[e]
        /\ called'.removed <=> e \in removed
        /\ called'.excused <=> e \in late \cup busFailed
        /\ entering[e] > 0
    BY DEF H!Handle
  <2>2. EventInv(e) /\ entering[e] \in Nat
    BY DEF HandlerTypes
  <2>3. /\ e \in removed <=> handlerOf[e] = None
        /\ e \in removed => e \in late \cup busFailed
    BY <2>1, <2>2 DEF EventInv
  <2> QED
    BY <2>1, <2>3 DEF H!RemovedNotCalled
<1> QED
  BY <1>1, <1>2, <1>3

LEMMA HandlersStep == HandlersInv /\ [H!Next]_(H!vars) => HandlersInv'
<1> SUFFICES ASSUME HandlersInv, [H!Next]_(H!vars) PROVE HandlersInv'
  OBVIOUS
<1>1. CASE H!Returned \/ UNCHANGED H!vars
  BY <1>1 DEF HandlersInv, HandlerTypes, EventInv, H!RemovedNotCalled, H!Returned, H!vars
<1> QED
  BY <1>1, MapStep, DispatchStep, HandleStep DEF H!Next

\* A generic handler calls no handler of an event that is removed, and what it calls instead is
\* an empty function only where the removal met a call under way or the bus refused it.
THEOREM RemovedIsNotCalled == Spec => []RemovedNotCalled
<1> DEFINE Inv == part = "handlers" => HandlersInv
<1>1. Init => Inv
  BY HandlersInit DEF Init
<1>2. Inv /\ [Next]_vars => Inv'
  BY OwnStep, HandlersStep
<1>3. Inv => RemovedNotCalled
  BY DEF HandlersInv, RemovedNotCalled
<1> QED
  BY <1>1, <1>2, <1>3, PTL DEF Spec

-----------------------------------------------------------------------------
(* IarmInit.  The library goes from "fresh" to "inited" to "connected" and   *)
(* never back, so a thread that it answers INVALID_STATE has been overtaken. *)

InitTypes ==
    /\ bus \in {"fresh", "inited", "connected"}
    /\ daemon \in BOOLEAN
    /\ trying \in [Threads -> {"out", "init", "connect", "ask", "retry"}]
    /\ upSince \in [Threads -> BOOLEAN]

\* How far a thread has come is how far the library is at least, and a daemon that has run since an
\* attempt began runs still.
AttemptInv(t) ==
    /\ trying[t] = "connect" => bus # "fresh"
    /\ trying[t] = "ask" => bus = "connected"
    /\ trying[t] = "retry" => ~upSince[t]
    /\ upSince[t] => daemon

InitInv == InitTypes /\ \A t \in Threads : AttemptInv(t)

LEMMA InitersStep == InitInv /\ [I!Next]_(I!vars) => InitInv'
<1> SUFFICES ASSUME InitInv, [I!Next]_(I!vars) PROVE InitInv'
  OBVIOUS
<1> USE DEF InitInv, InitTypes, AttemptInv
<1>1. CASE I!DaemonStarts \/ I!DaemonStops \/ UNCHANGED I!vars
  BY <1>1 DEF I!DaemonStarts, I!DaemonStops, I!vars
<1>2. ASSUME NEW t \in Threads, I!Enter(t) \/ I!Ask(t) \/ I!Retry(t) PROVE InitInv'
  BY <1>2 DEF I!Enter, I!Ask, I!Retry, I!isConnected
<1>3. ASSUME NEW t \in Threads, I!CallInit(t) PROVE InitInv'
  BY <1>3 DEF I!CallInit, I!InitAnswers, I!Accepted
<1>4. ASSUME NEW t \in Threads, I!CallConnect(t) PROVE InitInv'
  BY <1>4 DEF I!CallConnect, I!ConnectAnswers, I!Accepted
<1> QED
  BY <1>1, <1>2, <1>3, <1>4 DEF I!Next

\* However many threads are in init() and wherever each of them is, an attempt fails only if the
\* daemon was down at some moment of it.
THEOREM OthersHarmless == Spec => []OthersDoNoHarm
<1> DEFINE Inv == part = "iarm" => InitInv
<1>1. Init => Inv
  BY DEF Init, I!Init, InitInv, InitTypes, AttemptInv
<1>2. Inv /\ [Next]_vars => Inv'
  BY OwnStep, InitersStep
<1>3. Inv => OthersDoNoHarm
  BY DEF InitInv, AttemptInv, I!OthersDoNoHarm, OthersDoNoHarm
<1> QED
  BY <1>1, <1>2, <1>3, PTL DEF Spec

-----------------------------------------------------------------------------
(* SecurityToken and DirectLink *)

\* The call that asks has the mutex, and until it has its answer nobody has got anything.
TokenInv ==
    /\ mtx # None => asks \in {"check", "configured", "agent"}
    /\ mtx # None /\ asks # "check" => sThunderSecurityChecked
    /\ ~sThunderSecurityChecked \/ (mtx # None /\ asks # "check") =>
          sToken = Empty /\ created = {} /\ gotten = {}
    /\ created \cup gotten \subseteq {sToken}

LEMMA TokenStep == TokenInv /\ [Tk!Next]_(Tk!vars) => TokenInv'
<1> SUFFICES ASSUME TokenInv, [Tk!Next]_(Tk!vars) PROVE TokenInv'
  OBVIOUS
<1> USE DEF TokenInv
<1>1. CASE UNCHANGED Tk!vars
  BY <1>1 DEF Tk!vars
<1>2. ASSUME NEW t \in TokenCallers,
             Tk!Lock(t) \/ Tk!CheckAsked(t) \/ Tk!AskConfigured(t) \/ Tk!AskAgent(t)
      PROVE  TokenInv'
  <2>1. t # None
    BY ThreadsAssumption
  <2>2. CASE Tk!Lock(t)
    BY <2>1, <2>2 DEF Tk!Lock
  <2>3. CASE Tk!CheckAsked(t)
    BY <2>1, <2>3 DEF Tk!CheckAsked, Tk!Unlock
  <2>4. CASE Tk!AskConfigured(t)
    BY <2>1, <2>4 DEF Tk!AskConfigured, Tk!Unlock
  <2>5. CASE Tk!AskAgent(t)
    BY <2>1, <2>5 DEF Tk!AskAgent, Tk!Unlock
  <2> QED
    BY <1>2, <2>2, <2>3, <2>4, <2>5
<1> QED
  BY <1>1, <1>2 DEF Tk!Next

Links == [token : {Token, Empty, Torn}, failed : BOOLEAN, has : BOOLEAN, mId : Nat]

LEMMA LinkCardinality == \A X : L!Cardinality(X) = Cardinality(X)
BY DEF L!Cardinality, Cardinality

Holders == {t \in Threads : link[t] # None /\ link[t].has}

LinkTypes ==
    /\ sThunderSecurityToken \in {Token, Empty, Torn}
    /\ acquired \in BOOLEAN /\ overlapped \in BOOLEAN
    /\ getting \in [Threads -> {"out", "query", "write", "written", "copy"}]
    /\ tried \in [Threads -> {"not", "no agent", "token", "failed"}]
    /\ link \in [Threads -> Links \cup {None}]
    /\ \A t \in Threads : getting[t] # "out" => link[t] = None

\* A thread that has found nothing acquired is alone until it has, or has failed and has its link.
Acquiring(t) ==
    \/ getting[t] \in {"query", "write", "written"}
    \/ getting[t] = "copy" /\ tried[t] = "failed"

AcquiresAlone == \A t \in Threads :
    /\ Acquiring(t) => ~acquired /\ \A u \in Threads \ {t} : getting[u] = "out"
    /\ getting[t] = "write" => tried[t] = "token"
    /\ getting[t] = "written" => tried[t] # "not"
    /\ getting[t] = "copy" => acquired \/ tried[t] = "failed"

\* An acquisition is about to have succeeded.
TokenWritten == \E t \in Threads : getting[t] = "written" /\ tried[t] = "token"

\* The static is what the first successful acquisition found, or is about to.
TokenOfFirst ==
    /\ firstAnswer \in {None, "no agent", "token"}
    /\ acquired <=> firstAnswer # None
    /\ sThunderSecurityToken = IF firstAnswer = "token" \/ TokenWritten THEN Token ELSE Empty

CarriesToken(l) ==
    \/ l.failed /\ l.token = Empty
    \/ firstAnswer = "token" /\ l.token = Token
    \/ firstAnswer = "no agent" /\ l.token = Empty

LinksCarry == \A t \in Threads : link[t] # None => CarriesToken(link[t])

LinkInv ==
    /\ LinkTypes
    /\ ~overlapped => AcquiresAlone /\ TokenOfFirst /\ LinksCarry
    /\ dispatcher = Cardinality(Holders)

\* A step that changes no link, and whether it got its plugin, changes no reference.
LEMMA SameHolders ==
  ASSUME LinkInv, UNCHANGED dispatcher,
         \A t \in Threads : (link[t] # None /\ link[t].has) <=> (link'[t] # None /\ link'[t].has)
  PROVE  dispatcher' = Cardinality(Holders')
<1>1. Holders' = Holders
  BY DEF Holders
<1> QED
  BY <1>1 DEF LinkInv

LEMMA LinkInit == L!Init => LinkInv
<1> SUFFICES ASSUME L!Init PROVE LinkInv
  OBVIOUS
<1>1. LinkTypes
  BY DEF L!Init, LinkTypes
<1>2. AcquiresAlone /\ LinksCarry
  BY DEF L!Init, AcquiresAlone, Acquiring, LinksCarry
<1>3. TokenOfFirst
  BY ThreadsAssumption DEF L!Init, TokenOfFirst, TokenWritten
<1>4. Holders = {}
  BY DEF L!Init, Holders
<1> QED
  BY <1>1, <1>2, <1>3, <1>4, FS_EmptySet DEF LinkInv, L!Init

\* The steps of GetThunderControllerClient() up to the link.
LEMMA AcquireStep ==
  ASSUME LinkInv, NEW t \in Threads,
         L!CheckAcquired(t) \/ L!QueryAgent(t) \/ L!WriteToken(t) \/ L!SetAcquired(t)
  PROVE  LinkInv'
<1> USE DEF LinkInv
<1>1. dispatcher' = Cardinality(Holders')
  BY SameHolders DEF L!CheckAcquired, L!QueryAgent, L!WriteToken, L!SetAcquired
<1>2. LinkTypes'
  <2>1. CASE L!CheckAcquired(t) \/ L!QueryAgent(t)
    BY <2>1 DEF LinkTypes, L!CheckAcquired, L!QueryAgent
  <2>2. CASE L!WriteToken(t) \/ L!SetAcquired(t)
    BY <2>2 DEF LinkTypes, L!WriteToken, L!SetAcquired
  <2> QED
    BY <2>1, <2>2
<1>3. ASSUME ~overlapped' PROVE AcquiresAlone' /\ TokenOfFirst' /\ LinksCarry'
  <2>0. ~overlapped /\ AcquiresAlone /\ TokenOfFirst /\ LinksCarry
    BY <1>3 DEF L!CheckAcquired, L!QueryAgent, L!WriteToken, L!SetAcquired, LinkTypes
  <2>1. CASE L!CheckAcquired(t)
    <3>1. acquired \/ \A u \in Threads : getting[u] = "out"
      BY <1>3, <2>0, <2>1 DEF L!CheckAcquired, LinkTypes
    <3>2. AcquiresAlone'
      <4>1. CASE acquired
        BY <2>0, <2>1, <4>1 DEF L!CheckAcquired, LinkTypes, AcquiresAlone, Acquiring
      <4>2. CASE ~acquired /\ \A u \in Threads : getting[u] = "out"
        BY <2>1, <4>2 DEF L!CheckAcquired, LinkTypes, AcquiresAlone, Acquiring
      <4> QED
        BY <3>1, <4>1, <4>2
    <3>3. TokenWritten' <=> TokenWritten
      BY <2>1 DEF L!CheckAcquired, LinkTypes, TokenWritten
    <3>4. TokenOfFirst'
      BY <2>0, <2>1, <3>3 DEF L!CheckAcquired, TokenOfFirst
    <3>5. LinksCarry'
      BY <2>0, <2>1 DEF L!CheckAcquired, LinksCarry, CarriesToken
    <3> QED
      BY <3>2, <3>4, <3>5
  <2>2. CASE L!QueryAgent(t)
    <3>1. AcquiresAlone'
      <4>1. ~acquired /\ \A u \in Threads \ {t} : getting[u] = "out"
        BY <2>0, <2>2 DEF L!QueryAgent, AcquiresAlone, Acquiring
      <4>2. /\ ~acquired'
            /\ \/ getting'[t] = "write" /\ tried'[t] = "token"
               \/ getting'[t] = "written" /\ tried'[t] # "not"
            /\ \A u \in Threads \ {t} : getting'[u] = "out"
        BY <2>2, <4>1 DEF L!QueryAgent, LinkTypes
      <4> QED
        BY <4>2 DEF AcquiresAlone, Acquiring
    <3>2. TokenWritten' <=> TokenWritten
      BY <2>2 DEF L!QueryAgent, LinkTypes, TokenWritten
    <3>3. TokenOfFirst'
      BY <2>0, <2>2, <3>2 DEF L!QueryAgent, TokenOfFirst
    <3>4. LinksCarry'
      BY <2>0, <2>2 DEF L!QueryAgent, LinksCarry, CarriesToken
    <3> QED
      BY <3>1, <3>3, <3>4
  <2>3. CASE L!WriteToken(t)
    <3>1. tried[t] = "token" /\ \A u \in Threads \ {t} : getting[u] = "out"
      BY <2>0, <2>3 DEF L!WriteToken, AcquiresAlone, Acquiring
    <3>2. AcquiresAlone'
      BY <2>0, <2>3, <3>1 DEF L!WriteToken, LinkTypes, AcquiresAlone, Acquiring
    <3>3. sThunderSecurityToken' = Token /\ TokenWritten'
      BY <2>3, <3>1 DEF L!WriteToken, LinkTypes, TokenWritten
    <3>4. TokenOfFirst'
      BY <2>0, <2>3, <3>3 DEF L!WriteToken, TokenOfFirst
    <3>5. LinksCarry'
      BY <2>0, <2>3 DEF L!WriteToken, LinksCarry, CarriesToken
    <3> QED
      BY <3>2, <3>4, <3>5
  <2>4. CASE L!SetAcquired(t)
    <3>1. /\ ~acquired /\ firstAnswer = None /\ \A u \in Threads \ {t} : getting[u] = "out"
          /\ tried[t] # "not"
      BY <2>0, <2>4 DEF L!SetAcquired, AcquiresAlone, Acquiring, TokenOfFirst
    <3>2. AcquiresAlone'
      BY <2>4, <3>1 DEF L!SetAcquired, LinkTypes, AcquiresAlone, Acquiring
    <3>3. ~TokenWritten' /\ (TokenWritten <=> tried[t] = "token") /\ firstAnswer' \in {None, tried[t]}
      BY <2>4, <3>1 DEF L!SetAcquired, LinkTypes, TokenWritten
    <3>4. TokenOfFirst'
      BY <2>0, <2>4, <3>1, <3>3, ThreadsAssumption DEF L!SetAcquired, LinkTypes, TokenOfFirst
    <3>5. LinksCarry'
      BY <2>0, <2>4, <3>1, ThreadsAssumption DEF L!SetAcquired, LinksCarry, CarriesToken
    <3> QED
      BY <3>2, <3>4, <3>5
  <2> QED
    BY <2>1, <2>2, <2>3, <2>4
<1> QED
  BY <1>1, <1>2, <1>3

\* The link is made with what the static holds, which nobody writes.
LEMMA MakeLinkStep ==
  ASSUME LinkInv, NEW t \in Threads, L!MakeLink(t)
  PROVE  LinkInv'
<1> USE DEF LinkInv
<1>1. PICK there \in BOOLEAN,
           token \in {sThunderSecurityToken} \cup
               (IF \E u \in Threads : getting[u] = "write" THEN {Torn} ELSE {}) :
        /\ link' = [link EXCEPT ![t] = [token |-> token, failed |-> tried[t] = "failed", has |-> there, mId |-> 0]]
        /\ dispatcher' = dispatcher + IF there THEN 1 ELSE 0
  BY DEF L!MakeLink
<1>2. /\ getting[t] = "copy" /\ getting' = [getting EXCEPT ![t] = "out"]
      /\ UNCHANGED <<sThunderSecurityToken, acquired, tried, firstAnswer, overlapped>>
  BY DEF L!MakeLink
<1> DEFINE given == [token |-> token, failed |-> tried[t] = "failed", has |-> there, mId |-> 0]
<1>3. given \in Links /\ given # None /\ link[t] = None
  <2>1. token \in {Token, Empty, Torn}
    BY DEF LinkTypes
  <2>2. (tried[t] = "failed") \in BOOLEAN
    OBVIOUS
  <2>3. given \in Links
    BY <2>1, <2>2 DEF Links
  <2> QED
    BY <1>2, <2>3, ThreadsAssumption DEF LinkTypes, Links
<1>4. LinkTypes'
  BY <1>1, <1>2, <1>3 DEF LinkTypes
<1>5. ASSUME ~overlapped' PROVE AcquiresAlone' /\ TokenOfFirst' /\ LinksCarry'
  <2>0. AcquiresAlone /\ TokenOfFirst /\ LinksCarry
    BY <1>2, <1>5
  <2>1. token = sThunderSecurityToken
    BY <1>2, <2>0 DEF AcquiresAlone, Acquiring
  <2>2. CarriesToken(given)
    BY <1>2, <2>0, <2>1 DEF AcquiresAlone, Acquiring, TokenOfFirst, TokenWritten, CarriesToken
  <2>3. AcquiresAlone' /\ TokenOfFirst'
    BY <1>2, <2>0 DEF AcquiresAlone, Acquiring, TokenOfFirst, TokenWritten, LinkTypes
  <2>4. LinksCarry'
    BY <1>1, <1>2, <2>0, <2>2 DEF LinksCarry, CarriesToken, LinkTypes
  <2> QED
    BY <2>3, <2>4
<1>6. Holders' = IF there THEN Holders \cup {t} ELSE Holders
  BY <1>1, <1>3 DEF Holders, LinkTypes
<1>7. t \notin Holders /\ IsFiniteSet(Holders)
  BY <1>3, FS_Subset, ThreadsAssumption DEF Holders
<1>8. dispatcher' = Cardinality(Holders')
  BY <1>1, <1>6, <1>7, FS_AddElement, FS_CardinalityType
<1> QED
  BY <1>4, <1>5, <1>8

LEMMA UseLinkStep ==
  ASSUME LinkInv, NEW t \in Threads, L!Invoke(t) \/ L!DropLink(t)
  PROVE  LinkInv'
<1> USE DEF LinkInv
<1>1. CASE L!Invoke(t)
  <2>1. /\ link[t] \in Links
        /\ link' = [link EXCEPT ![t] = [link[t] EXCEPT !.mId = @ + 1]]
        /\ UNCHANGED <<sThunderSecurityToken, acquired, getting, tried, dispatcher, firstAnswer, overlapped>>
    BY <1>1 DEF L!Invoke, LinkTypes
  <2> DEFINE l == [link[t] EXCEPT !.mId = @ + 1]
  <2>2. l \in Links
    <3>1. link[t].mId + 1 \in Nat
      BY <2>1 DEF Links
    <3> QED
      BY <2>1, <3>1 DEF Links
  <2>3. /\ l # None /\ l.has = link[t].has /\ l.failed = link[t].failed /\ l.token = link[t].token
    BY <2>1, <2>2, ThreadsAssumption DEF Links
  <2>4. LinkTypes'
    BY <1>1, <2>1, <2>2 DEF LinkTypes, L!Invoke
  <2>5. dispatcher' = Cardinality(Holders')
    BY <1>1, <2>1, <2>2, <2>3, SameHolders DEF L!Invoke, LinkTypes
  <2>6. ~overlapped' => AcquiresAlone' /\ TokenOfFirst'
    BY <2>1 DEF AcquiresAlone, Acquiring, TokenOfFirst, TokenWritten
  <2>7. ~overlapped' => LinksCarry'
    <3> SUFFICES ASSUME ~overlapped', NEW u \in Threads, link'[u] # None PROVE CarriesToken(link[u])'
      BY DEF LinksCarry
    <3>1. LinksCarry /\ firstAnswer' = firstAnswer
      BY <2>1
    <3>2. CASE u = t
      <4>1. PICK given \in Links : link'[t] = given /\ given.failed = link[t].failed /\ given.token = link[t].token
        BY <2>1, <2>2, <2>3 DEF LinkTypes
      <4>2. CarriesToken(link[t])
        BY <2>1, <3>1, ThreadsAssumption DEF LinksCarry, Links
      <4>3. CASE given.failed /\ given.token = Empty
        BY <3>2, <4>1, <4>3 DEF CarriesToken
      <4>4. CASE \/ firstAnswer = "token" /\ given.token = Token
                 \/ firstAnswer = "no agent" /\ given.token = Empty
        BY <3>1, <3>2, <4>1, <4>4 DEF CarriesToken
      <4>5. \/ given.failed /\ given.token = Empty
            \/ firstAnswer = "token" /\ given.token = Token
            \/ firstAnswer = "no agent" /\ given.token = Empty
        BY <4>1, <4>2, Zenon DEF CarriesToken
      <4> QED
        BY <4>3, <4>4, <4>5
    <3>3. CASE u # t
      BY <2>1, <3>1, <3>3 DEF LinksCarry, CarriesToken, LinkTypes
    <3> QED
      BY <3>2, <3>3
  <2> QED
    BY <2>4, <2>5, <2>6, <2>7
<1>2. CASE L!DropLink(t)
  <2>1. LinkTypes'
    BY <1>2 DEF LinkTypes, L!DropLink
  <2>2. ~overlapped' => AcquiresAlone' /\ TokenOfFirst' /\ LinksCarry'
    BY <1>2 DEF AcquiresAlone, Acquiring, TokenOfFirst, TokenWritten, LinksCarry, CarriesToken, LinkTypes, L!DropLink
  <2>3. Holders' = Holders \ {t}
    BY <1>2 DEF Holders, LinkTypes, L!DropLink
  <2>4. IsFiniteSet(Holders) /\ (t \in Holders <=> link[t].has)
    BY <1>2, FS_Subset, ThreadsAssumption DEF Holders, L!DropLink
  <2>5. dispatcher' = Cardinality(Holders')
    BY <1>2, <2>3, <2>4, FS_RemoveElement, FS_CardinalityType DEF L!DropLink
  <2> QED
    BY <2>1, <2>2, <2>5
<1> QED
  BY <1>1, <1>2

LEMMA LinkStep == LinkInv /\ [L!Next]_(L!vars) => LinkInv'
<1> SUFFICES ASSUME LinkInv, [L!Next]_(L!vars) PROVE LinkInv'
  OBVIOUS
<1>1. CASE L!AgentComesOrGoes \/ UNCHANGED L!vars
  <2>1. UNCHANGED L!linkVars
    BY <1>1 DEF L!AgentComesOrGoes, L!vars
  <2>2. LinkTypes' /\ dispatcher' = Cardinality(Holders')
    BY <2>1 DEF L!linkVars, LinkInv, LinkTypes, Holders
  <2>3. ~overlapped' => AcquiresAlone' /\ TokenOfFirst' /\ LinksCarry'
    BY <2>1 DEF L!linkVars, LinkInv, AcquiresAlone, Acquiring, TokenOfFirst, TokenWritten,
                  LinksCarry, CarriesToken
  <2> QED
    BY <2>2, <2>3 DEF LinkInv
<1> QED
  BY <1>1, AcquireStep, MakeLinkStep, UseLinkStep DEF L!Next

\* All callers of getSecurityToken() get the same, and a link carries the token that was acquired
\* first, unless acquisitions overlapped; each link accounts for one reference to its dispatcher.
THEOREM OneToken == Spec => []TokensKept
<1> DEFINE Inv == (part = "link" => LinkInv) /\ (part = "token" => TokenInv)
<1>1. Init => Inv
  BY LinkInit DEF Init, Tk!Init, TokenInv
<1>2. Inv /\ [Next]_vars => Inv'
  BY OwnStep, LinkStep, TokenStep
<1>3. LinkInv => L!LinksCarryToken
  <2>1. LinkInv => dispatcher = Cardinality({t \in Threads : link[t] # None /\ link[t].has})
    BY DEF LinkInv, Holders
  <2>2. LinkInv => (~overlapped => \A t \in Threads : link[t] # None => CarriesToken(link[t]))
    BY DEF LinkInv, LinksCarry
  <2> QED
    BY <2>1, <2>2, LinkCardinality, Zenon DEF L!LinksCarryToken, CarriesToken
<1>4. Inv => TokensKept
  BY <1>3 DEF TokenInv, Tk!OneAnswer, TokensKept
<1> QED
  BY <1>1, <1>2, <1>4, PTL DEF Spec

-----------------------------------------------------------------------------
(* WorkerPool.  JobsHaveCallers counts the unfinished jobs; the invariant    *)
(* says that no two of them are one caller's, and which have a result.       *)

Outcomes == {"ERROR_ASYNC_FAILED", "ERROR_UNAVAILABLE", "ERROR_NONE", "ERROR_ILLEGAL_STATE"}

PoolTypes ==
    /\ jobs \in Seq(W!Callers)
    /\ runs \in [Workers -> W!Callers \cup {None}]
    /\ step \in [Workers -> {"query", "activate", "set"}]
    /\ waiting \in SUBSET W!Callers /\ event \in SUBSET W!Callers
    /\ outcome \in [W!Callers -> Outcomes]

Queued == {jobs[i] : i \in DOMAIN jobs}
Busy == {w \in Workers : runs[w] # None}
Running == {runs[w] : w \in Busy}

OneJobEach ==
    /\ \A i, j \in DOMAIN jobs : jobs[i] = jobs[j] => i = j
    /\ \A v, w \in Busy : runs[v] = runs[w] => v = w
    /\ Queued \cap Running = {}

Finished ==
    /\ \A w \in Busy : step[w] = "set" => outcome[runs[w]] # "ERROR_ASYNC_FAILED"
    /\ \A c \in event : outcome[c] # "ERROR_ASYNC_FAILED"

PoolInv ==
    /\ PoolTypes
    /\ OneJobEach
    /\ Queued \cup Running = waiting \ event
    /\ Finished

LEMMA NoneIsNoCaller == None \notin W!Callers
BY ThreadsAssumption DEF W!Callers

\* As many values as there are arguments, if no two have the same.
LEMMA ImageSize ==
  ASSUME NEW X, IsFiniteSet(X), NEW f, \A x, y \in X : f[x] = f[y] => x = y
  PROVE  IsFiniteSet({f[x] : x \in X}) /\ Cardinality({f[x] : x \in X}) = Cardinality(X)
<1> DEFINE Y == {f[x] : x \in X}
           g == [x \in X |-> f[x]]
<1>1. g \in Surjection(X, Y) /\ g \in Injection(X, Y)
  BY DEF Surjection, Injection, IsInjective
<1> QED
  BY <1>1, FS_Surjection

LEMMA PoolCardinality == \A X : W!Cardinality(X) = Cardinality(X)
BY DEF W!Cardinality, Cardinality

LEMMA JobsCounted == PoolInv => W!JobsHaveCallers
<1> SUFFICES ASSUME PoolInv PROVE W!JobsHaveCallers
  OBVIOUS
<1>1. W!Unfinished = Queued \cup Running
  BY DEF W!Unfinished, Queued, Running, Busy
<1>2. IsFiniteSet(Queued) /\ Cardinality(Queued) = Len(jobs) /\ Len(jobs) \in Nat
  <2>1. DOMAIN jobs = 1..Len(jobs) /\ Len(jobs) \in Nat
    BY DEF PoolInv, PoolTypes
  <2>2. \A n \in Nat : IsFiniteSet(1..n) /\ Cardinality(1..n) = n
    BY FS_Interval
  <2>3. IsFiniteSet(DOMAIN jobs) /\ Cardinality(DOMAIN jobs) = Len(jobs)
    BY <2>1, <2>2
  <2>4. \A i, j \in DOMAIN jobs : jobs[i] = jobs[j] => i = j
    BY DEF PoolInv, OneJobEach
  <2>5. IsFiniteSet({jobs[i] : i \in DOMAIN jobs}) /\ Cardinality({jobs[i] : i \in DOMAIN jobs}) = Cardinality(DOMAIN jobs)
    BY <2>3, <2>4, ImageSize
  <2> QED
    BY <2>1, <2>3, <2>5 DEF Queued
<1>3. IsFiniteSet(Running) /\ Cardinality(Running) = Cardinality(Busy)
  <2>1. IsFiniteSet(Busy)
    BY ThreadsAssumption, FS_Subset DEF Busy
  <2> QED
    BY <2>1, ImageSize DEF PoolInv, OneJobEach, Running
<1>4. Cardinality(Queued \cup Running) = Len(jobs) + Cardinality(Busy)
  <2>1. Cardinality(Queued \cap Running) = 0
    BY FS_EmptySet DEF PoolInv, OneJobEach
  <2>2. Cardinality(Queued \cup Running) =
            Cardinality(Queued) + Cardinality(Running) - Cardinality(Queued \cap Running)
    BY <1>2, <1>3, FS_Union
  <2> QED
    BY <1>2, <1>3, <2>1, <2>2, FS_CardinalityType
<1> QED
  BY <1>1, <1>4, PoolCardinality DEF PoolInv, Finished, Busy, W!JobsHaveCallers

LEMMA PoolInit == W!Init => PoolInv
<1> SUFFICES ASSUME W!Init PROVE PoolInv
  OBVIOUS
<1>1. PoolTypes
  BY DEF W!Init, PoolTypes, Outcomes
<1>2. Queued = {} /\ Busy = {} /\ Running = {}
  BY DEF W!Init, Queued, Busy, Running
<1>3. OneJobEach /\ Finished
  BY <1>2 DEF W!Init, OneJobEach, Finished
<1> QED
  BY <1>1, <1>2, <1>3 DEF W!Init, PoolInv

\* The job of a caller that calls is its only one.
LEMMA SubmitStep ==
  ASSUME PoolInv, NEW c \in W!Callers, W!Submit(c)
  PROVE  PoolInv'
<1> USE DEF PoolInv
<1>1. /\ c \notin waiting /\ jobs' = Append(jobs, c) /\ waiting' = waiting \cup {c} /\ event' = event \ {c}
      /\ outcome' = [outcome EXCEPT ![c] = "ERROR_ASYNC_FAILED"] /\ runs' = runs /\ step' = step
  BY DEF W!Submit
<1>2. PoolTypes'
  BY <1>1 DEF PoolTypes, Outcomes
<1>3. Busy' = Busy /\ Running' = Running /\ c \notin Running /\ c \notin Queued
  BY <1>1 DEF Busy, Running
<1>4. /\ DOMAIN jobs = 1..Len(jobs) /\ DOMAIN jobs' = 1..(Len(jobs) + 1) /\ Len(jobs) \in Nat
      /\ jobs'[Len(jobs) + 1] = c /\ \A i \in DOMAIN jobs : jobs'[i] = jobs[i]
  BY <1>1 DEF PoolTypes
<1>5. Queued' = Queued \cup {c}
  BY <1>4 DEF Queued
<1>6. OneJobEach'
  <2>1. ASSUME NEW i \in DOMAIN jobs', NEW j \in DOMAIN jobs', jobs'[i] = jobs'[j] PROVE i = j
    BY <1>3, <1>4, <2>1 DEF OneJobEach, Queued
  <2> QED
    BY <1>1, <1>3, <1>5, <2>1 DEF OneJobEach
<1>7. Queued' \cup Running' = waiting' \ event'
  BY <1>1, <1>3, <1>5
<1>8. Finished'
  BY <1>1, <1>3 DEF Finished, PoolTypes, Running, Busy
<1> QED
  BY <1>2, <1>6, <1>7, <1>8

LEMMA ReturnStep ==
  ASSUME PoolInv, NEW c \in W!Callers, W!Return(c)
  PROVE  PoolInv'
BY DEF W!Return, PoolInv, PoolTypes, OneJobEach, Finished, Queued, Running, Busy

LEMMA TakeStep ==
  ASSUME PoolInv, NEW w \in Workers, W!Take(w)
  PROVE  PoolInv'
<1> USE DEF PoolInv
<1>1. /\ runs[w] = None /\ jobs # <<>> /\ runs' = [runs EXCEPT ![w] = Head(jobs)]
      /\ step' = [step EXCEPT ![w] = "query"] /\ jobs' = Tail(jobs)
      /\ UNCHANGED <<waiting, event, outcome>>
  BY DEF W!Take
<1>2. /\ DOMAIN jobs = 1..Len(jobs) /\ Len(jobs) \in Nat /\ Len(jobs) >= 1
      /\ Head(jobs) = jobs[1] /\ Head(jobs) \in W!Callers /\ jobs' \in Seq(W!Callers)
      /\ DOMAIN jobs' = 1..(Len(jobs) - 1) /\ \A i \in DOMAIN jobs' : jobs'[i] = jobs[i + 1]
  BY <1>1 DEF PoolTypes
<1>3. PoolTypes'
  BY <1>1, <1>2 DEF PoolTypes
<1>4. Head(jobs) \in Queued /\ Head(jobs) # None
  BY <1>2, NoneIsNoCaller DEF Queued
<1>5. Busy' = Busy \cup {w} /\ w \notin Busy /\ \A v \in Busy : runs'[v] = runs[v] /\ step'[v] = step[v]
  BY <1>1, <1>4 DEF Busy, PoolTypes
<1>6. Running' = Running \cup {Head(jobs)} /\ runs'[w] = Head(jobs)
  BY <1>1, <1>5 DEF Running, Busy, PoolTypes
<1>7. Queued' = Queued \ {Head(jobs)}
  <2>1. ASSUME NEW c \in Queued' PROVE c \in Queued /\ c # Head(jobs)
    BY <1>2, <2>1 DEF Queued, OneJobEach
  <2>2. ASSUME NEW c \in Queued, c # Head(jobs) PROVE c \in Queued'
    <3>1. PICK i \in DOMAIN jobs : c = jobs[i]
      BY DEF Queued
    <3>2. i # 1 /\ i - 1 \in DOMAIN jobs' /\ jobs'[i - 1] = jobs[i]
      BY <1>2, <2>2, <3>1
    <3> QED
      BY <3>1, <3>2 DEF Queued
  <2> QED
    BY <2>1, <2>2
<1>8. OneJobEach'
  <2>1. ASSUME NEW i \in DOMAIN jobs', NEW j \in DOMAIN jobs', jobs'[i] = jobs'[j] PROVE i = j
    BY <1>2, <2>1 DEF OneJobEach
  <2>2. ASSUME NEW u \in Busy', NEW v \in Busy', runs'[u] = runs'[v] PROVE u = v
    BY <1>4, <1>5, <1>6, <2>2 DEF OneJobEach, Running
  <2>3. Queued' \cap Running' = {}
    BY <1>6, <1>7 DEF OneJobEach
  <2> QED
    BY <2>1, <2>2, <2>3 DEF OneJobEach
<1>9. Queued' \cup Running' = waiting' \ event'
  BY <1>1, <1>4, <1>6, <1>7
<1>10. Finished'
  BY <1>1, <1>5 DEF Finished, PoolTypes
<1> QED
  BY <1>3, <1>8, <1>9, <1>10

\* The steps of a job write to its own caller's result, and only what is one.
LEMMA JobStep ==
  ASSUME PoolInv, NEW w \in Workers, W!Query(w) \/ W!Activate(w)
  PROVE  PoolInv'
<1> USE DEF PoolInv
<1>1. /\ runs[w] # None /\ UNCHANGED <<jobs, runs, waiting, event>>
      /\ \E next \in {"activate", "set"} : step' = [step EXCEPT ![w] = next]
      /\ \/ outcome' = outcome /\ step' = [step EXCEPT ![w] = "activate"]
         \/ \E answer \in Outcomes \ {"ERROR_ASYNC_FAILED"} : outcome' = [outcome EXCEPT ![runs[w]] = answer]
  BY DEF W!Query, W!Activate, Outcomes
<1>2. runs[w] \in W!Callers
  BY <1>1 DEF PoolTypes
<1>3. PoolTypes'
  BY <1>1, <1>2 DEF PoolTypes, Outcomes
<1>4. Queued' = Queued /\ Busy' = Busy /\ Running' = Running
  BY <1>1 DEF Queued, Busy, Running
<1>5. \A c \in W!Callers : outcome'[c] = outcome[c] \/ outcome'[c] # "ERROR_ASYNC_FAILED"
  BY <1>1, <1>2 DEF PoolTypes
<1>6. Finished'
  <2>1. ASSUME NEW v \in Busy, step'[v] = "set" PROVE outcome'[runs[v]] # "ERROR_ASYNC_FAILED"
    <3>1. CASE v = w
      BY <1>1, <1>2, <2>1, <3>1 DEF PoolTypes
    <3>2. CASE v # w
      <4>1. step[v] = "set" /\ runs[v] \in W!Callers
        BY <1>1, <2>1, <3>2 DEF PoolTypes, Busy
      <4> QED
        BY <1>5, <4>1 DEF Finished
    <3> QED
      BY <3>1, <3>2
  <2>2. \A c \in event : outcome'[c] # "ERROR_ASYNC_FAILED"
    BY <1>5 DEF Finished, PoolTypes
  <2> QED
    BY <1>1, <1>4, <2>1, <2>2 DEF Finished
<1> QED
  BY <1>1, <1>3, <1>4, <1>6 DEF OneJobEach

LEMMA SetEventStep ==
  ASSUME PoolInv, NEW w \in Workers, W!SetEvent(w)
  PROVE  PoolInv'
<1> USE DEF PoolInv
<1>1. /\ runs[w] # None /\ step[w] = "set" /\ event' = event \cup {runs[w]} /\ runs' = [runs EXCEPT ![w] = None]
      /\ UNCHANGED <<jobs, step, waiting, outcome>>
  BY DEF W!SetEvent
<1>2. runs[w] \in W!Callers /\ w \in Busy
  BY <1>1 DEF PoolTypes, Busy
<1>3. PoolTypes' /\ Queued' = Queued
  BY <1>1, <1>2 DEF PoolTypes, Queued
<1>4. Busy' = Busy \ {w} /\ \A v \in Busy' : runs'[v] = runs[v]
  BY <1>1 DEF Busy, PoolTypes
<1>5. Running' = Running \ {runs[w]} /\ runs[w] \in Running
  BY <1>2, <1>4 DEF Running, OneJobEach
<1>6. OneJobEach'
  BY <1>1, <1>3, <1>4, <1>5 DEF OneJobEach
<1>7. Queued' \cup Running' = waiting' \ event'
  BY <1>1, <1>3, <1>5 DEF OneJobEach
<1>8. Finished'
  BY <1>1, <1>2, <1>4 DEF Finished
<1> QED
  BY <1>3, <1>6, <1>7, <1>8

LEMMA PoolStep == PoolInv /\ [W!Next]_(W!vars) => PoolInv'
<1> SUFFICES ASSUME PoolInv, [W!Next]_(W!vars) PROVE PoolInv'
  OBVIOUS
<1>1. CASE UNCHANGED W!vars
  BY <1>1 DEF W!vars, PoolInv, PoolTypes, OneJobEach, Finished, Queued, Running, Busy
<1> QED
  BY <1>1, SubmitStep, ReturnStep, TakeStep, JobStep, SetEventStep DEF W!Next

\* Whichever threads call activatePlugin() and however deep the calls of plugins that are activated
\* go, a job never outlives the locals that it refers to, and no caller goes on without a result.
THEOREM JobsOutliveNoCaller == Spec => []JobsHaveCallers
<1>1. Init => PoolInv
  BY PoolInit DEF Init
<1>2. PoolInv /\ [Next]_vars => PoolInv'
  BY OwnStep, PoolStep
<1>3. PoolInv => JobsHaveCallers
  BY JobsCounted DEF JobsHaveCallers
<1> QED
  BY <1>1, <1>2, <1>3, PTL DEF Spec

-----------------------------------------------------------------------------
(* SystemModeFile.  First what is true of a value that is put together from  *)
(* parts: FlattenSeq() is a recursive function, and a property that it has   *)
(* of the first parts is shown for all by the least number that it fails of. *)

\* Of a set of natural numbers that is not empty, one is the least.
LEMMA LeastNumber ==
  ASSUME NEW Q \in SUBSET Nat, Q # {}
  PROVE  \E m \in Q : \A j \in Q : m <= j
<1> DEFINE less == {ss \in Nat \X Nat : ss[1] < ss[2]}
<1>1. IsWellFoundedOn(less, Nat)
  BY NatLessThanWellFounded DEF OpToRel
<1>2. PICK m \in Q : \A y \in Q : ~ (<<y, m>> \in less)
  BY <1>1, WFMin
<1>3. ASSUME NEW y \in Q, ~ (m <= y) PROVE FALSE
  <2>1. m \in Nat /\ y \in Nat /\ y < m
    BY <1>3
  <2>2. <<y, m>> \in less
    BY <2>1
  <2> QED
    BY <1>2, <2>2
<1> QED
  BY <1>3

\* What is put together up to each place is a function, as FlattenSeq() takes it to be.
LEMMA PutTogether ==
  ASSUME NEW N \in Nat \ {0}, NEW b
  PROVE  \E f : f = [i \in 1 .. N |-> IF i = 1 THEN b[i] ELSE f[i - 1] \o b[i]]
<1> DEFINE Puts(n, f) == f = [i \in 1 .. n |-> IF i = 1 THEN b[i] ELSE f[i - 1] \o b[i]]
           Can(n) == \E f : Puts(n, f)
           bad == {n \in 1 .. N : ~ Can(n)}
<1>1. Can(1)
  <2>1. Puts(1, [i \in 1 .. 1 |-> b[1]])
    OBVIOUS
  <2> QED
    BY <2>1
<1>2. ASSUME NEW m \in Nat \ {0}, Can(m) PROVE Can(m + 1)
  <2>1. PICK g : Puts(m, g)
    BY <1>2
  <2> DEFINE f == [i \in 1 .. m + 1 |-> IF i = m + 1 THEN g[m] \o b[m + 1] ELSE g[i]]
  <2>a. \A i \in 1 .. m : g[i] = IF i = 1 THEN b[i] ELSE g[i - 1] \o b[i]
    BY <2>1, Zenon
  <2>b. \A i \in 1 .. m : i \in 1 .. m + 1 /\ i # m + 1
    OBVIOUS
  <2>c. \A i \in 1 .. m + 1 : f[i] = IF i = m + 1 THEN g[m] \o b[m + 1] ELSE g[i]
    BY Zenon
  <2>d. m + 1 \in 1 .. m + 1 /\ m \in 1 .. m /\ m + 1 # 1
    OBVIOUS
  <2>2. \A i \in 1 .. m : f[i] = g[i] /\ g[i] = IF i = 1 THEN b[i] ELSE g[i - 1] \o b[i]
    BY <2>a, <2>b, <2>c, Zenon
  <2>3. f[m + 1] = f[m] \o b[m + 1] /\ m + 1 # 1
    BY <2>2, <2>c, <2>d, Zenon
  <2>4. f = [i \in 1 .. m + 1 |-> f[i]]
    OBVIOUS
  <2> HIDE DEF f
  <2>5. \A i \in 1 .. m + 1 : f[i] = IF i = 1 THEN b[i] ELSE f[i - 1] \o b[i]
    <3> SUFFICES ASSUME NEW i \in 1 .. m + 1 PROVE f[i] = IF i = 1 THEN b[i] ELSE f[i - 1] \o b[i]
      OBVIOUS
    <3>1. CASE i = m + 1
      <4>1. i - 1 = m /\ i # 1
        BY <3>1
      <4> QED
        BY <2>3, <3>1, <4>1, Zenon
    <3>2. CASE i # m + 1
      <4>1. i \in 1 .. m /\ (i # 1 => i - 1 \in 1 .. m)
        BY <3>2
      <4>2. f[i] = IF i = 1 THEN b[i] ELSE g[i - 1] \o b[i]
        BY <2>2, <4>1, Zenon
      <4>3. i # 1 => f[i - 1] = g[i - 1]
        BY <2>2, <4>1
      <4> QED
        BY <4>2, <4>3
    <3> QED
      BY <3>1, <3>2
  <2>6. Puts(m + 1, f)
    BY <2>4, <2>5
  <2> QED
    BY <2>6
<1> HIDE DEF Can
<1>3. bad = {}
  <2> SUFFICES ASSUME bad # {} PROVE FALSE
    OBVIOUS
  <2>1. PICK m \in bad : \A j \in bad : m <= j
    <3>1. bad \in SUBSET Nat
      OBVIOUS
    <3> HIDE DEF bad
    <3> QED
      BY <3>1, LeastNumber
  <2>2. m - 1 \in Nat \ {0} /\ m - 1 \in 1 .. N /\ m - 1 \notin bad
    BY <1>1, <2>1
  <2>3. Can(m - 1 + 1)
    BY <1>2, <2>2
  <2> QED
    BY <2>1, <2>3
<1>4. Can(N)
  BY <1>3
<1> QED
  BY <1>4 DEF Can

\* So each part of it is the one before with one sequence more, and the last is the whole.
LEMMA Flattened ==
  ASSUME NEW X, NEW b \in Seq(Seq(X)), b # <<>>
  PROVE  \E f \in [1 .. Len(b) -> Seq(X)] :
            /\ f[1] = b[1]
            /\ \A i \in 2 .. Len(b) : f[i] = f[i - 1] \o b[i]
            /\ SM!FlattenSeq(b) = f[Len(b)]
<1> DEFINE N == Len(b)
           f == CHOOSE f : f = [i \in 1 .. N |-> IF i = 1 THEN b[i] ELSE f[i - 1] \o b[i]]
<1>0. N \in Nat \ {0} /\ \A i \in 1 .. N : b[i] \in Seq(X)
  OBVIOUS
<1>1. SM!FlattenSeq(b) = f[N]
  BY <1>0, SMTT(30) DEF SM!FlattenSeq
<1> HIDE DEF N
<1>2. f = [i \in 1 .. N |-> IF i = 1 THEN b[i] ELSE f[i - 1] \o b[i]]
  BY <1>0, PutTogether, Zenon
<1> HIDE DEF f
<1>3. \A i \in 1 .. N : f[i] = IF i = 1 THEN b[i] ELSE f[i - 1] \o b[i]
  BY <1>2, Zenon
<1>4. f[1] = b[1] /\ \A i \in 2 .. N : f[i] = f[i - 1] \o b[i]
  <2>1. 1 \in 1 .. N /\ \A i \in 2 .. N : i \in 1 .. N /\ i # 1
    BY <1>0
  <2> QED
    BY <1>3, <2>1, Zenon
<1> DEFINE bad == {i \in 1 .. N : f[i] \notin Seq(X)}
<1>5. bad = {}
  <2> SUFFICES ASSUME bad # {} PROVE FALSE
    OBVIOUS
  <2>1. PICK m \in bad : \A j \in bad : m <= j
    <3>1. bad \in SUBSET Nat
      OBVIOUS
    <3> HIDE DEF bad
    <3> QED
      BY <3>1, LeastNumber
  <2>2. m # 1
    BY <1>0, <1>4, <2>1
  <2>3. m \in 2 .. N /\ m - 1 \in 1 .. N /\ m - 1 \notin bad
    BY <1>0, <2>1, <2>2
  <2>4. f[m - 1] \in Seq(X) /\ b[m] \in Seq(X) /\ f[m] = f[m - 1] \o b[m]
    BY <1>0, <1>4, <2>3
  <2>5. f[m] \in Seq(X)
    BY <2>4
  <2> QED
    BY <2>1, <2>5
<1>6. f \in [1 .. N -> Seq(X)]
  <2>1. \A i \in 1 .. N : f[i] \in Seq(X)
    BY <1>5
  <2> DEFINE h == [i \in 1 .. N |-> IF i = 1 THEN b[i] ELSE f[i - 1] \o b[i]]
  <2>2. h = [i \in 1 .. N |-> h[i]] /\ f = h
    BY <1>2
  <2> HIDE DEF h
  <2> QED
    BY <2>1, <2>2
<1> QED
  BY <1>1, <1>4, <1>6 DEF N

-----------------------------------------------------------------------------
\* The lines of the file, and the value of the first one that has a key.
FileLines == [mode : ModesAsked \cup {"DEVICE_OPTIMIZE"}, property : {"currentstate", "callsign"}, value : Seq(STRING)]

Of(l, m, p) == l.mode = m /\ l.property = p

\* v is the value of the first line of a mode and property, or None if there is none.
FirstIs(s, m, p, v) ==
    \/ v = None /\ \A i \in 1 .. Len(s) : ~ Of(s[i], m, p)
    \/ \E i \in 1 .. Len(s) : Of(s[i], m, p) /\ (\A j \in 1 .. i - 1 : ~ Of(s[j], m, p)) /\ v = s[i].value

LEMMA FirstValue ==
  ASSUME NEW X, NEW s \in Seq(X), NEW m, NEW p
  PROVE  FirstIs(s, m, p, SM!getSystemModePropertyValue(s, m, p))
<1> DEFINE Q == {i \in 1 .. Len(s) : Of(s[i], m, p)}
<1>1. CASE Q = {}
  <2>1. SM!getSystemModePropertyValue(s, m, p) = None
    BY <1>1 DEF SM!getSystemModePropertyValue, SM!SelectInSeq, Of
  <2> QED
    BY <1>1, <2>1 DEF FirstIs
<1>2. CASE Q # {}
  <2>1. PICK i \in Q : \A j \in Q : i <= j
    <3>1. Q \in SUBSET Nat
      OBVIOUS
    <3> HIDE DEF Q
    <3> QED
      BY <1>2, <3>1, LeastNumber
  <2>2. \A k \in Q : (\A j \in Q : k <= j) => k = i
    BY <2>1
  <2>3. SM!Min(Q) = i
    BY <2>1, <2>2 DEF SM!Min
  <2>4. SM!SelectInSeq(s, LAMBDA l : l.mode = m /\ l.property = p) = i /\ i # 0
    BY <1>2, <2>1, <2>3 DEF SM!SelectInSeq, Of
  <2>5. SM!getSystemModePropertyValue(s, m, p) = s[i].value
    BY <2>4 DEF SM!getSystemModePropertyValue
  <2>6. \A j \in 1 .. i - 1 : j \notin Q /\ j \in 1 .. Len(s)
    BY <2>1
  <2> QED
    BY <2>1, <2>5, <2>6 DEF FirstIs
<1> QED
  BY <1>1, <1>2

LEMMA OneFirst ==
  ASSUME NEW X, NEW s \in Seq(X), NEW m, NEW p, NEW v, NEW w,
         FirstIs(s, m, p, v), FirstIs(s, m, p, w)
  PROVE  v = w
<1>1. ASSUME NEW i \in 1 .. Len(s), NEW k \in 1 .. Len(s), Of(s[i], m, p), Of(s[k], m, p),
             \A j \in 1 .. i - 1 : ~ Of(s[j], m, p), \A j \in 1 .. k - 1 : ~ Of(s[j], m, p)
      PROVE  i = k
  <2>1. ~ (i < k) /\ ~ (k < i)
    BY <1>1
  <2> QED
    BY <2>1
<1> QED
  BY <1>1 DEF FirstIs

\* A line more matters only where there was none.
LEMMA ValueAppend ==
  ASSUME NEW X, NEW s \in Seq(X), NEW l \in X, NEW m, NEW p, NEW v, FirstIs(s, m, p, v),
         \A i \in 1 .. Len(s) : s[i].value # None
  PROVE  FirstIs(s \o <<l>>, m, p, IF v # None THEN v ELSE IF Of(l, m, p) THEN l.value ELSE None)
<1> DEFINE t == s \o <<l>>
<1>1. Len(t) = Len(s) + 1 /\ t[Len(s) + 1] = l /\ \A i \in 1 .. Len(s) : t[i] = s[i]
  OBVIOUS
<1> HIDE DEF t
<1>2. CASE v # None
  <2>1. PICK i \in 1 .. Len(s) : Of(s[i], m, p) /\ (\A j \in 1 .. i - 1 : ~ Of(s[j], m, p)) /\ v = s[i].value
    BY <1>2 DEF FirstIs
  <2>2. i \in 1 .. Len(t) /\ t[i] = s[i] /\ \A j \in 1 .. i - 1 : t[j] = s[j]
    BY <1>1
  <2>3. FirstIs(t, m, p, v)
    BY <2>1, <2>2 DEF FirstIs
  <2> QED
    BY <1>2, <2>3 DEF t
<1>3. CASE v = None
  <2>1. \A i \in 1 .. Len(s) : ~ Of(t[i], m, p)
    BY <1>1, <1>3 DEF FirstIs
  <2>2. CASE Of(l, m, p)
    <3>1. Len(s) + 1 \in 1 .. Len(t) /\ \A j \in 1 .. Len(s) + 1 - 1 : j \in 1 .. Len(s)
      BY <1>1
    <3>2. FirstIs(t, m, p, l.value)
      BY <1>1, <2>1, <2>2, <3>1 DEF FirstIs
    <3> QED
      BY <1>3, <2>2, <3>2 DEF t
  <2>3. CASE ~ Of(l, m, p)
    <3>1. \A i \in 1 .. Len(t) : i \in 1 .. Len(s) \/ i = Len(s) + 1
      BY <1>1
    <3>2. FirstIs(t, m, p, None)
      BY <1>1, <2>1, <2>3, <3>1 DEF FirstIs
    <3> QED
      BY <1>3, <2>3, <3>2 DEF t
  <2> QED
    BY <2>2, <2>3
<1> QED
  BY <1>2, <1>3

Hit(c, m, p) == c # <<>> /\ Of(c[1], m, p)

\* What the first n of the parts b, each of a line at most, have put together in s.
FirstHit(s, b, n, m, p) ==
    \/ FirstIs(s, m, p, None) /\ \A i \in 1 .. n : ~ Hit(b[i], m, p)
    \/ \E k \in 1 .. n : /\ Hit(b[k], m, p)
                         /\ \A j \in 1 .. k - 1 : ~ Hit(b[j], m, p)
                         /\ FirstIs(s, m, p, b[k][1].value)

LEMMA OneMorePart ==
  ASSUME NEW X, NEW s \in Seq(X), NEW b, NEW n \in Nat, NEW m, NEW p, FirstHit(s, b, n, m, p),
         \A l \in X : l.value # None, b[n + 1] \in Seq(X), Len(b[n + 1]) <= 1,
         \A i \in 1 .. n : b[i] \in Seq(X)
  PROVE  FirstHit(s \o b[n + 1], b, n + 1, m, p)
<1>1. n + 1 \in 1 .. n + 1 /\ \A i \in 1 .. n + 1 : i \in 1 .. n \/ i = n + 1
  OBVIOUS
<1>2. CASE b[n + 1] = <<>>
  <2>1. s \o b[n + 1] = s /\ ~ Hit(b[n + 1], m, p)
    BY <1>2 DEF Hit
  <2> QED
    BY <1>1, <2>1 DEF FirstHit
<1>3. CASE b[n + 1] # <<>>
  <2> DEFINE l == b[n + 1][1]
  <2>1. l \in X /\ b[n + 1] = <<l>> /\ (Hit(b[n + 1], m, p) <=> Of(l, m, p))
    BY <1>3 DEF Hit
  <2> HIDE DEF l
  <2>2. \A v : FirstIs(s, m, p, v) =>
            FirstIs(s \o b[n + 1], m, p, IF v # None THEN v ELSE IF Of(l, m, p) THEN l.value ELSE None)
    BY <2>1, ValueAppend
  <2>3. CASE FirstIs(s, m, p, None) /\ \A i \in 1 .. n : ~ Hit(b[i], m, p)
    <3>1. FirstIs(s \o b[n + 1], m, p, IF Of(l, m, p) THEN l.value ELSE None)
      BY <2>2, <2>3
    <3>2. \A j \in 1 .. n + 1 - 1 : ~ Hit(b[j], m, p)
      BY <2>3
    <3> QED
      BY <1>1, <2>1, <2>3, <3>1, <3>2 DEF FirstHit, l
  <2>4. ASSUME NEW k \in 1 .. n, Hit(b[k], m, p), \A j \in 1 .. k - 1 : ~ Hit(b[j], m, p),
               FirstIs(s, m, p, b[k][1].value)
        PROVE  FirstHit(s \o b[n + 1], b, n + 1, m, p)
    <3>1. b[k][1] \in X
      BY <2>4 DEF Hit
    <3>2. FirstIs(s \o b[n + 1], m, p, b[k][1].value)
      BY <2>2, <2>4, <3>1
    <3> QED
      BY <2>4, <3>2 DEF FirstHit
  <2> QED
    BY <2>3, <2>4 DEF FirstHit
<1> QED
  BY <1>2, <1>3

LEMMA NoParts == \A X : <<>> \in Seq(X) /\ Len(<<>>) = 0 /\ 1 .. 0 = {}
OBVIOUS

LEMMA FlattenedFirst ==
  ASSUME NEW X, NEW b \in Seq(Seq(X)), \A i \in 1 .. Len(b) : Len(b[i]) <= 1,
         \A l \in X : l.value # None, NEW m, NEW p
  PROVE  SM!FlattenSeq(b) \in Seq(X) /\ FirstHit(SM!FlattenSeq(b), b, Len(b), m, p)
<1>1. CASE b = <<>>
  <2>1. SM!FlattenSeq(b) = <<>>
    BY <1>1, NoParts DEF SM!FlattenSeq
  <2>2. FirstHit(<<>>, b, 0, m, p)
    BY NoParts DEF FirstHit, FirstIs
  <2> QED
    BY <1>1, <2>1, <2>2, NoParts, Zenon
<1>2. CASE b # <<>>
  <2>1. PICK f \in [1 .. Len(b) -> Seq(X)] :
            /\ f[1] = b[1]
            /\ \A i \in 2 .. Len(b) : f[i] = f[i - 1] \o b[i]
            /\ SM!FlattenSeq(b) = f[Len(b)]
    BY <1>2, Flattened
  <2>2. Len(b) \in 1 .. Len(b) /\ 1 \in 1 .. Len(b) /\ \A i \in 1 .. Len(b) : b[i] \in Seq(X)
    BY <1>2
  <2> DEFINE bad == {n \in 1 .. Len(b) : ~ FirstHit(f[n], b, n, m, p)}
  <2>3. bad = {}
    <3> SUFFICES ASSUME bad # {} PROVE FALSE
      OBVIOUS
    <3>1. PICK n \in bad : \A j \in bad : n <= j
      <4>1. bad \in SUBSET Nat
        OBVIOUS
      <4> HIDE DEF bad
      <4> QED
        BY <4>1, LeastNumber
    <3>2. CASE n = 1
      <4> DEFINE k == 0
      <4>1. <<>> \in Seq(X) /\ FirstHit(<<>>, b, k, m, p)
        BY NoParts DEF FirstHit, FirstIs
      <4>2. /\ k \in Nat /\ k + 1 = 1 /\ b[k + 1] \in Seq(X) /\ Len(b[k + 1]) <= 1
            /\ <<>> \o b[k + 1] = b[1] /\ \A i \in 1 .. k : b[i] \in Seq(X)
        BY <2>2
      <4> HIDE DEF k
      <4>3. FirstHit(<<>> \o b[k + 1], b, k + 1, m, p)
        BY <4>1, <4>2, OneMorePart
      <4>4. FirstHit(f[1], b, 1, m, p)
        BY <2>1, <4>2, <4>3
      <4> QED
        BY <3>1, <3>2, <4>4
    <3>3. CASE n # 1
      <4> DEFINE k == n - 1
      <4>1. k \in Nat /\ k \in 1 .. Len(b) /\ k \notin bad /\ n = k + 1 /\ n \in 2 .. Len(b)
        BY <3>1, <3>3
      <4> HIDE DEF k
      <4>0. k = n - 1 /\ b[n] = b[k + 1]
        BY <4>1
      <4>2. f[k] \in Seq(X) /\ FirstHit(f[k], b, k, m, p) /\ f[n] = f[k] \o b[k + 1]
        <5>1. f[n] = f[n - 1] \o b[n]
          BY <2>1, <4>1
        <5>2. FirstHit(f[k], b, k, m, p)
          BY <4>1
        <5> QED
          BY <2>1, <4>0, <4>1, <5>1, <5>2
      <4>3. b[k + 1] \in Seq(X) /\ Len(b[k + 1]) <= 1 /\ \A i \in 1 .. k : b[i] \in Seq(X)
        BY <2>2, <4>1
      <4>4. FirstHit(f[k] \o b[k + 1], b, k + 1, m, p)
        BY <4>1, <4>2, <4>3, OneMorePart
      <4> QED
        BY <3>1, <4>1, <4>2, <4>4
    <3> QED
      BY <3>2, <3>3
  <2> QED
    BY <2>1, <2>2, <2>3
<1> QED
  BY <1>1, <1>2

-----------------------------------------------------------------------------
\* What a request makes of the values.
Key(r) == <<r.mode, r.property>>

Removes(r) == r.action = "deleteall" \/ (r.property = "currentstate" /\ r.action = "delete")

Adds(r) == r.action \in {"add", "checkandadd"}

NewValue(r, v) ==
    CASE r.property = "currentstate" -> r.value
      [] r.property = "callsign" /\ r.action = "add" /\ SM!At(r.value, v) = {} -> v \o r.value \o <<SM!Delimiter>>
      [] r.property = "callsign" /\ r.action = "delete" /\ SM!At(r.value, v) # {} -> SM!Erase(r.value, v)
      [] OTHER -> v

LEMMA RequestTypes ==
  ASSUME NEW r \in SM!Requests
  PROVE  /\ r.mode \in ModesAsked
         /\ r.property \in {"currentstate", "callsign"}
         /\ r.action \in {"add", "checkandadd", "delete", "deleteall"}
         /\ r.value \in Seq(STRING)
         /\ r.action # "deleteall" => r.value \in IF r.property = "callsign" THEN Callsigns ELSE States
<1>1. <<>> \in Seq(STRING)
  OBVIOUS
<1>2. CASE r \in [mode : ModesAsked, property : {"currentstate"}, action : {"add", "checkandadd", "delete"}, value : States]
  BY <1>2, ModesAssumption, SpelledOut
<1>3. CASE r \in [mode : ModesAsked, property : {"callsign"}, action : {"add", "checkandadd", "delete"}, value : Callsigns]
  BY <1>3, ModesAssumption, SpelledOut
<1>4. CASE r \in [mode : ModesAsked, property : {"currentstate", "callsign"}, action : {"deleteall"}, value : {<<>>}]
  BY <1>1, <1>4
<1> QED
  BY <1>2, <1>3, <1>4 DEF SM!Requests

\* The first place where a part is found.
LEMMA ErasedTyped ==
  ASSUME NEW x \in Seq(STRING), NEW v \in Seq(STRING), SM!At(x, v) # {}
  PROVE  /\ SM!Min(SM!At(x, v)) \in SM!At(x, v)
         /\ SM!Erase(x, v) \in Seq(STRING)
<1> DEFINE Q == SM!At(x, v)
<1>1. Q \in SUBSET Nat /\ \A i \in Q : i \in 1 .. Len(v) - Len(x) + 1
  BY DEF SM!At
<1> HIDE DEF Q
<1>2. SM!Min(Q) \in Q
  <2>1. PICK i \in Q : \A j \in Q : i <= j
    BY <1>1, LeastNumber DEF Q
  <2> QED
    BY <2>1 DEF SM!Min
<1>3. ASSUME NEW i \in 1 .. Len(v) - Len(x) + 1
      PROVE  SubSeq(v, 1, i - 1) \o SubSeq(v, i + Len(x) + 1, Len(v)) \in Seq(STRING)
  <2>1. SubSeq(v, 1, i - 1) \in Seq(STRING)
    OBVIOUS
  <2>2. SubSeq(v, i + Len(x) + 1, Len(v)) \in Seq(STRING)
    OBVIOUS
  <2> QED
    BY <2>1, <2>2
<1> QED
  BY <1>1, <1>2, <1>3 DEF Q, SM!Erase

LEMMA NewValueTyped ==
  ASSUME NEW r \in SM!Requests, NEW v \in Seq(STRING)
  PROVE  NewValue(r, v) \in Seq(STRING)
<1>1. r.value \in Seq(STRING) /\ <<SM!Delimiter>> \in Seq(STRING)
  BY RequestTypes, ModesAssumption, SpelledOut
<1>2. v \o r.value \o <<SM!Delimiter>> \in Seq(STRING)
  BY <1>1
<1> QED
  BY <1>1, <1>2, ErasedTyped DEF NewValue

\* What takes the place of a line with the key.
LEMMA ChangedLine ==
  ASSUME NEW r \in SM!Requests, NEW l \in FileLines, SM!HasKey(l, r)
  PROVE  /\ SM!Changed(l, r) = IF Removes(r) THEN <<>> ELSE <<SM!Line(r, NewValue(r, l.value))>>
         /\ SM!Line(r, NewValue(r, l.value)) \in FileLines
<1>1. /\ r.mode \in ModesAsked /\ r.property \in {"currentstate", "callsign"}
      /\ r.action \in {"add", "checkandadd", "delete", "deleteall"}
  BY RequestTypes
<1>2. l = SM!Line(r, l.value)
  BY DEF FileLines, SM!HasKey, SM!Line
<1>3. l.value \in Seq(STRING)
  BY DEF FileLines
<1>4. SM!Line(r, NewValue(r, l.value)) \in FileLines
  BY <1>1, <1>3, NewValueTyped DEF FileLines, SM!Line
<1> SUFFICES SM!Changed(l, r) = IF Removes(r) THEN <<>> ELSE <<SM!Line(r, NewValue(r, l.value))>>
  BY <1>4
<1>5. CASE r.action = "deleteall"
  BY <1>5 DEF SM!Changed, Removes
<1>6. CASE r.action # "deleteall" /\ r.property = "currentstate"
  BY <1>1, <1>6 DEF SM!Changed, NewValue, Removes
<1>7. CASE r.action # "deleteall" /\ r.property = "callsign"
  BY <1>1, <1>2, <1>7 DEF SM!Changed, NewValue, Removes
<1> QED
  BY <1>1, <1>5, <1>6, <1>7

LEMMA LineValue == \A l \in FileLines : l.value \in Seq(STRING) /\ l.value # None
BY ModesAssumption, SpelledOut DEF FileLines

\* What takes the place of each line.
PartsOf(s, r) == [i \in DOMAIN s |-> IF SM!HasKey(s[i], r) THEN SM!Changed(s[i], r) ELSE <<s[i]>>]

LEMMA PartOfLine ==
  ASSUME NEW r \in SM!Requests, NEW s \in Seq(FileLines), NEW i \in 1 .. Len(s)
  PROVE  /\ PartsOf(s, r)[i] \in Seq(FileLines) /\ Len(PartsOf(s, r)[i]) <= 1
         /\ \A m, p : <<m, p>> # Key(r) =>
               /\ Hit(PartsOf(s, r)[i], m, p) <=> Of(s[i], m, p)
               /\ Of(s[i], m, p) => PartsOf(s, r)[i][1].value = s[i].value
         /\ Hit(PartsOf(s, r)[i], r.mode, r.property) <=> Of(s[i], r.mode, r.property) /\ ~ Removes(r)
         /\ Of(s[i], r.mode, r.property) /\ ~ Removes(r) =>
               PartsOf(s, r)[i][1].value = NewValue(r, s[i].value)
<1> DEFINE l == s[i]
           c == PartsOf(s, r)[i]
           line == SM!Line(r, NewValue(r, l.value))
<1>1. l \in FileLines /\ c = IF SM!HasKey(l, r) THEN SM!Changed(l, r) ELSE <<l>>
  BY DEF PartsOf
<1>2. SM!HasKey(l, r) => c = (IF Removes(r) THEN <<>> ELSE <<line>>) /\ line \in FileLines
  BY <1>1, ChangedLine
<1>3. line.mode = r.mode /\ line.property = r.property /\ line.value = NewValue(r, l.value)
  BY DEF SM!Line
<1> HIDE DEF l, c, line
<1>4. SM!HasKey(l, r) <=> Of(l, r.mode, r.property)
  BY DEF SM!HasKey, Of
<1>5. c \in Seq(FileLines) /\ Len(c) <= 1
  <2>1. c = <<>> \/ \E k \in FileLines : c = <<k>>
    BY <1>1, <1>2
  <2>2. \A k \in FileLines : <<k>> \in Seq(FileLines) /\ Len(<<k>>) <= 1
    OBVIOUS
  <2> QED
    <3>1. CASE c = <<>>
      <4>1. <<>> \in Seq(FileLines) /\ Len(<<>>) <= 1
        OBVIOUS
      <4> QED
        BY <3>1, <4>1, Zenon
    <3>2. CASE \E k \in FileLines : c = <<k>>
      BY <2>2, <3>2, Zenon
    <3> QED
      BY <2>1, <3>1, <3>2
<1>6. ASSUME NEW m, NEW p, <<m, p>> # Key(r)
      PROVE  (Hit(c, m, p) <=> Of(l, m, p)) /\ (Of(l, m, p) => c[1].value = l.value)
  <2>1. CASE SM!HasKey(l, r)
    <3>1. ~ Of(l, m, p)
      BY <1>6, <2>1 DEF SM!HasKey, Of, Key
    <3>2. ~ Of(line, m, p)
      BY <1>3, <1>6 DEF Of, Key
    <3> QED
      BY <1>2, <2>1, <3>1, <3>2 DEF Hit
  <2>2. CASE ~ SM!HasKey(l, r)
    BY <1>1, <2>2 DEF Hit
  <2> QED
    BY <2>1, <2>2
<1>7. /\ Hit(c, r.mode, r.property) <=> Of(l, r.mode, r.property) /\ ~ Removes(r)
      /\ Of(l, r.mode, r.property) /\ ~ Removes(r) => c[1].value = NewValue(r, l.value)
  BY <1>1, <1>2, <1>3, <1>4 DEF Hit, Of
<1> QED
  BY <1>5, <1>6, <1>7 DEF l, c

\* What a request makes of the first value with a key.
LEMMA PartsFirst ==
  ASSUME NEW r \in SM!Requests, NEW s \in Seq(FileLines), NEW m, NEW p, NEW v, FirstIs(s, m, p, v)
  PROVE  /\ SM!FlattenSeq(PartsOf(s, r)) \in Seq(FileLines)
         /\ FirstIs(SM!FlattenSeq(PartsOf(s, r)), m, p,
                    IF <<m, p>> # Key(r) THEN v
                    ELSE IF v = None \/ Removes(r) THEN None ELSE NewValue(r, v))
<1> DEFINE b == PartsOf(s, r)
           f == SM!FlattenSeq(b)
<1>1. DOMAIN s = 1 .. Len(s) /\ Len(s) \in Nat
  OBVIOUS
<1>2. b \in Seq(Seq(FileLines)) /\ Len(b) = Len(s)
  <2>1. b = [i \in 1 .. Len(s) |-> b[i]]
    BY <1>1 DEF PartsOf
  <2>2. \A i \in 1 .. Len(s) : b[i] \in Seq(FileLines)
    BY PartOfLine
  <2> HIDE DEF b
  <2> QED
    BY <1>1, <2>1, <2>2
<1>3. f \in Seq(FileLines) /\ FirstHit(f, b, Len(s), m, p)
  <2>1. \A i \in 1 .. Len(b) : Len(b[i]) <= 1
    BY <1>2, PartOfLine
  <2> HIDE DEF b
  <2> QED
    BY <1>2, <2>1, FlattenedFirst, LineValue
<1> HIDE DEF f
<1> DEFINE w == IF <<m, p>> # Key(r) THEN v ELSE IF v = None \/ Removes(r) THEN None ELSE NewValue(r, v)
           stays == <<m, p>> # Key(r) \/ ~ Removes(r)
<1>4. ASSUME NEW i \in 1 .. Len(s)
      PROVE  /\ Hit(b[i], m, p) <=> Of(s[i], m, p) /\ stays
             /\ Hit(b[i], m, p) => b[i][1].value = IF <<m, p>> # Key(r) THEN s[i].value ELSE NewValue(r, s[i].value)
  BY PartOfLine, ZenonT(30) DEF Key
<1>a. \A i \in 1 .. Len(s) : s[i] \in FileLines /\ s[i].value # None
  BY LineValue
<1> HIDE DEF b
<1>5. CASE ~ stays
  <2>1. \A i \in 1 .. Len(s) : ~ Hit(b[i], m, p)
    BY <1>4, <1>5
  <2>2. FirstIs(f, m, p, None)
    BY <1>3, <2>1 DEF FirstHit
  <2> QED
    BY <1>3, <1>5, <2>2 DEF b, f
<1>6. CASE stays
  <2>1. \A i \in 1 .. Len(s) : Hit(b[i], m, p) <=> Of(s[i], m, p)
    BY <1>4, <1>6
  <2>2. CASE FirstIs(f, m, p, None) /\ \A i \in 1 .. Len(s) : ~ Hit(b[i], m, p)
    <3>1. v = None
      BY <2>1, <2>2 DEF FirstIs
    <3> QED
      BY <1>3, <2>2, <3>1 DEF b, f
  <2>3. ASSUME NEW k \in 1 .. Len(s), Hit(b[k], m, p), \A j \in 1 .. k - 1 : ~ Hit(b[j], m, p),
               FirstIs(f, m, p, b[k][1].value)
        PROVE  FirstIs(f, m, p, w)
    <3>1. Of(s[k], m, p) /\ \A j \in 1 .. k - 1 : ~ Of(s[j], m, p)
      BY <2>1, <2>3
    <3>2. FirstIs(s, m, p, s[k].value)
      BY <3>1 DEF FirstIs
    <3>3. v = s[k].value /\ v # None
      BY <1>a, <3>2, OneFirst
    <3>4. b[k][1].value = w
      BY <1>4, <1>6, <2>3, <3>3
    <3> QED
      BY <2>3, <3>4
  <2> QED
    BY <1>3, <2>2, <2>3 DEF FirstHit, b, f
<1> QED
  BY <1>5, <1>6

\* The value of a line that is new.
Fresh(r) == IF r.property = "callsign" THEN r.value \o <<SM!Delimiter>> ELSE r.value

LEMMA UpdateValue ==
  ASSUME NEW r \in SM!Requests, NEW s \in Seq(FileLines)
  PROVE  /\ SM!Update(s, r) \in Seq(FileLines)
         /\ \A m, p :
               LET was == SM!getSystemModePropertyValue(s, m, p)
               IN  SM!getSystemModePropertyValue(SM!Update(s, r), m, p) =
                      IF <<m, p>> # Key(r) THEN was
                      ELSE IF was = None THEN (IF Adds(r) THEN Fresh(r) ELSE None)
                      ELSE IF Removes(r) THEN None ELSE NewValue(r, was)
<1> DEFINE f == SM!FlattenSeq(PartsOf(s, r))
           l == SM!Line(r, Fresh(r))
           has == \E i \in DOMAIN s : SM!HasKey(s[i], r)
<1>0. DOMAIN s = 1 .. Len(s) /\ \A i \in 1 .. Len(s) : s[i] \in FileLines /\ s[i].value # None
  BY LineValue
<1>1. SM!Update(s, r) = f \o (IF ~ has /\ Adds(r) THEN <<l>> ELSE <<>>)
  BY DEF SM!Update, PartsOf, Fresh, Adds
<1>2. /\ l \in FileLines /\ l.value = Fresh(r) /\ l.value # None
      /\ \A m, p : Of(l, m, p) <=> <<m, p>> = Key(r)
  <2>1. Fresh(r) \in Seq(STRING)
    <3>1. r.value \in Seq(STRING) /\ <<SM!Delimiter>> \in Seq(STRING)
      BY RequestTypes, ModesAssumption, SpelledOut
    <3>2. r.value \o <<SM!Delimiter>> \in Seq(STRING)
      BY <3>1
    <3> QED
      BY <3>1, <3>2 DEF Fresh
  <2> QED
    BY <2>1, RequestTypes, ModesAssumption, SpelledOut DEF FileLines, SM!Line, Of, Key
<1> HIDE DEF l
<1>3. ASSUME NEW m, NEW p, NEW v, FirstIs(s, m, p, v)
      PROVE  /\ SM!Update(s, r) \in Seq(FileLines)
             /\ FirstIs(SM!Update(s, r), m, p,
                      IF <<m, p>> # Key(r) THEN v
                      ELSE IF v = None THEN (IF Adds(r) THEN Fresh(r) ELSE None)
                      ELSE IF Removes(r) THEN None ELSE NewValue(r, v))
  <2> DEFINE x == IF <<m, p>> # Key(r) THEN v
                  ELSE IF v = None \/ Removes(r) THEN None ELSE NewValue(r, v)
  <2>1. f \in Seq(FileLines) /\ FirstIs(f, m, p, x)
    BY <1>3, PartsFirst
  <2> HIDE DEF f
  <2>2. <<m, p>> = Key(r) => (v = None <=> ~ has)
    BY <1>0, <1>3 DEF FirstIs, Of, SM!HasKey, Key
  <2>3. CASE ~ has /\ Adds(r)
    <3>1. SM!Update(s, r) = f \o <<l>>
      BY <1>1, <2>3
    <3>2. \A i \in 1 .. Len(f) : f[i].value # None
      BY <2>1, LineValue
    <3>3. FirstIs(f \o <<l>>, m, p, IF x # None THEN x ELSE IF Of(l, m, p) THEN l.value ELSE None)
      BY <1>2, <2>1, <3>2, ValueAppend
    <3>4. f \o <<l>> \in Seq(FileLines)
      BY <1>2, <2>1
    <3>5. CASE <<m, p>> # Key(r)
      BY <1>2, <3>1, <3>3, <3>4, <3>5
    <3>6. CASE <<m, p>> = Key(r)
      BY <1>2, <2>2, <2>3, <3>1, <3>3, <3>4, <3>6
    <3> QED
      BY <3>5, <3>6
  <2>4. CASE has \/ ~ Adds(r)
    <3>1. SM!Update(s, r) = f
      BY <1>1, <2>1, <2>4
    <3> QED
      BY <2>1, <2>2, <2>4, <3>1
  <2> QED
    BY <2>3, <2>4
<1>4. ASSUME NEW m, NEW p
      PROVE  LET was == SM!getSystemModePropertyValue(s, m, p)
             IN  /\ SM!Update(s, r) \in Seq(FileLines)
                 /\ SM!getSystemModePropertyValue(SM!Update(s, r), m, p) =
                      IF <<m, p>> # Key(r) THEN was
                      ELSE IF was = None THEN (IF Adds(r) THEN Fresh(r) ELSE None)
                      ELSE IF Removes(r) THEN None ELSE NewValue(r, was)
  <2>1. FirstIs(s, m, p, SM!getSystemModePropertyValue(s, m, p))
    BY FirstValue
  <2>2. /\ SM!Update(s, r) \in Seq(FileLines)
        /\ LET was == SM!getSystemModePropertyValue(s, m, p)
           IN  FirstIs(SM!Update(s, r), m, p,
                      IF <<m, p>> # Key(r) THEN was
                      ELSE IF was = None THEN (IF Adds(r) THEN Fresh(r) ELSE None)
                      ELSE IF Removes(r) THEN None ELSE NewValue(r, was))
    BY <1>3, <2>1
  <2>3. FirstIs(SM!Update(s, r), m, p, SM!getSystemModePropertyValue(SM!Update(s, r), m, p))
    BY <2>2, FirstValue
  <2> QED
    BY <2>2, <2>3, OneFirst
<1> QED
  BY <1>4

-----------------------------------------------------------------------------
\* The places of a part, letter by letter.
LEMMA FoundAt ==
  ASSUME NEW x \in Seq(STRING), NEW w \in Seq(STRING)
  PROVE  /\ SM!At(x, w) \in SUBSET (1 .. Len(w) - Len(x) + 1)
         /\ \A i \in 1 .. Len(w) - Len(x) + 1 :
               i \in SM!At(x, w) <=> \A k \in 1 .. Len(x) : w[i + k - 1] = x[k]
<1>1. ASSUME NEW i \in 1 .. Len(w) - Len(x) + 1
      PROVE  SubSeq(w, i, i + Len(x) - 1) = x <=> \A k \in 1 .. Len(x) : w[i + k - 1] = x[k]
  <2> DEFINE s == SubSeq(w, i, i + Len(x) - 1)
  <2>1. s \in Seq(STRING) /\ Len(s) = Len(x) /\ \A k \in 1 .. Len(x) : s[k] = w[i + k - 1]
    OBVIOUS
  <2> HIDE DEF s
  <2>2. (\A k \in 1 .. Len(x) : s[k] = x[k]) => s = x
    BY <2>1, SeqEqual
  <2> QED
    BY <2>1, <2>2 DEF s
<1> QED
  BY <1>1 DEF SM!At

\* A value with a delimiter before it, so that every callsign has one on both sides.
Framed(v) == <<SM!Delimiter>> \o v

\* y is between two delimiters of w, the first of which is the i-th letter.
Enclosed(w, y, i) ==
    /\ i \in 1 .. Len(w) - Len(y) - 1
    /\ w[i] = SM!Delimiter /\ w[i + Len(y) + 1] = SM!Delimiter
    /\ \A k \in 1 .. Len(y) : w[i + k] = y[k]

LEMMA CallsignTyped ==
  \A y \in Callsigns : y \in Seq(STRING) /\ Len(y) \in Nat \ {0} /\ \A k \in 1 .. Len(y) : y[k] # SM!Delimiter
<1> SUFFICES ASSUME NEW y \in Callsigns
             PROVE  y \in Seq(STRING) /\ Len(y) \in Nat \ {0} /\ \A k \in 1 .. Len(y) : y[k] # SM!Delimiter
  OBVIOUS
<1>1. y \in Seq(STRING) /\ y # <<>> /\ \A k \in DOMAIN y : y[k] # SM!Delimiter
  BY ModesAssumption, SpelledOut
<1>2. DOMAIN y = 1 .. Len(y) /\ Len(y) \in Nat
  BY <1>1
<1>3. Len(y) # 0
  BY <1>1, EmptySeq
<1> QED
  BY <1>1, <1>2, <1>3

\* z is s, t and one more letter.
IsJoined(X, z, s, t, e) ==
    /\ z \in Seq(X) /\ Len(z) = Len(s) + Len(t) + 1
    /\ \A j \in 1 .. Len(s) : z[j] = s[j]
    /\ \A k \in 1 .. Len(t) : z[Len(s) + k] = t[k]
    /\ z[Len(s) + Len(t) + 1] = e

LEMMA TwoParts ==
  ASSUME NEW X, NEW s \in Seq(X), NEW t \in Seq(X)
  PROVE  /\ s \o t \in Seq(X) /\ Len(s \o t) = Len(s) + Len(t) /\ Len(s) \in Nat /\ Len(t) \in Nat
         /\ \A j \in 1 .. Len(s) : (s \o t)[j] = s[j]
         /\ \A k \in 1 .. Len(t) : (s \o t)[Len(s) + k] = t[k]
OBVIOUS

LEMMA Joined ==
  ASSUME NEW X, NEW s \in Seq(X), NEW t \in Seq(X), NEW g \in Seq(X), Len(g) = 1
  PROVE  IsJoined(X, s \o t \o g, s, t, g[1])
<1> DEFINE a == s \o t
           z == a \o g
<1>1. /\ a \in Seq(X) /\ Len(a) = Len(s) + Len(t) /\ Len(s) \in Nat /\ Len(t) \in Nat
      /\ \A j \in 1 .. Len(s) : a[j] = s[j]
      /\ \A k \in 1 .. Len(t) : a[Len(s) + k] = t[k]
  BY TwoParts
<1> HIDE DEF a
<1>2. /\ z \in Seq(X) /\ Len(z) = Len(a) + Len(g)
      /\ \A i \in 1 .. Len(a) : z[i] = a[i]
      /\ \A k \in 1 .. Len(g) : z[Len(a) + k] = g[k]
  <2>1. a \in Seq(X) /\ g \in Seq(X)
    BY <1>1
  <2>2. \A aa, gg \in Seq(X) : /\ aa \o gg \in Seq(X) /\ Len(aa \o gg) = Len(aa) + Len(gg)
                               /\ \A j \in 1 .. Len(aa) : (aa \o gg)[j] = aa[j]
                               /\ \A k \in 1 .. Len(gg) : (aa \o gg)[Len(aa) + k] = gg[k]
    BY TwoParts
  <2> QED
    BY <2>1, <2>2, Zenon
<1> HIDE DEF z
<1>3. \A j \in 1 .. Len(s) : z[j] = s[j]
  BY <1>1, <1>2
<1>4. \A k \in 1 .. Len(t) : z[Len(s) + k] = t[k]
  BY <1>1, <1>2
<1>6. 1 \in 1 .. Len(g)
  OBVIOUS
<1>5. IsJoined(X, z, s, t, g[1])
  BY <1>1, <1>2, <1>3, <1>4, <1>6 DEF IsJoined
<1> QED
  BY <1>5 DEF z, a

LEMMA Ender ==
  <<SM!Delimiter>> \in Seq(STRING) /\ Len(<<SM!Delimiter>>) = 1 /\ <<SM!Delimiter>>[1] = SM!Delimiter
<1>1. \A X : \A d \in X : <<d>> \in Seq(X) /\ Len(<<d>>) = 1 /\ <<d>>[1] = d
  OBVIOUS
<1>2. SM!Delimiter \in STRING
  BY ModesAssumption, SpelledOut
<1> QED
  BY <1>1, <1>2, Zenon

LEMMA FramedTyped ==
  ASSUME NEW v \in Seq(STRING)
  PROVE  /\ Framed(v) \in Seq(STRING) /\ Len(Framed(v)) = Len(v) + 1 /\ Framed(v)[1] = SM!Delimiter
         /\ \A j \in 1 .. Len(v) : Framed(v)[j + 1] = v[j]
<1> DEFINE g == <<SM!Delimiter>>
<1>1. g \in Seq(STRING) /\ Len(g) = 1 /\ g[1] = SM!Delimiter
  BY Ender
<1>2. Framed(v) = g \o v
  BY DEF Framed
<1> HIDE DEF g
<1>3. /\ g \o v \in Seq(STRING) /\ Len(g \o v) = Len(g) + Len(v) /\ Len(v) \in Nat
      /\ \A j \in 1 .. Len(g) : (g \o v)[j] = g[j]
      /\ \A k \in 1 .. Len(v) : (g \o v)[Len(g) + k] = v[k]
  BY <1>1, TwoParts
<1>4. 1 \in 1 .. Len(g) /\ Len(g) + Len(v) = Len(v) + 1 /\ \A k \in 1 .. Len(v) : Len(g) + k = k + 1
  BY <1>1, <1>3
<1> QED
  BY <1>1, <1>2, <1>3, <1>4

LEMMA ListedEnclosed ==
  ASSUME NEW y \in Callsigns, NEW v \in Seq(STRING)
  PROVE  y \in SM!Listed(v) <=> \E i \in 1 .. Len(v) : Enclosed(Framed(v), y, i)
<1> DEFINE x == <<SM!Delimiter>> \o y \o <<SM!Delimiter>>
           w == Framed(v)
<1>1. /\ x \in Seq(STRING) /\ Len(x) = Len(y) + 2 /\ x[1] = SM!Delimiter /\ x[Len(y) + 2] = SM!Delimiter
      /\ \A k \in 1 .. Len(y) : x[k + 1] = y[k]
  <2>1. SM!Delimiter \in STRING /\ y \in Seq(STRING) /\ Len(y) \in Nat
    BY ModesAssumption, SpelledOut, CallsignTyped
  <2> DEFINE s == <<SM!Delimiter>>
  <2>2. s \in Seq(STRING) /\ Len(s) = 1 /\ s[1] = SM!Delimiter
    BY Ender
  <2> HIDE DEF s
  <2>3. IsJoined(STRING, s \o y \o s, s, y, SM!Delimiter)
    BY <2>1, <2>2, Joined
  <2>4. 1 + Len(y) + 1 = Len(y) + 2 /\ \A k \in 1 .. Len(y) : 1 + k = k + 1
    BY <2>1
  <2>5. x = s \o y \o s
    BY DEF s
  <2> HIDE DEF x
  <2>6. IsJoined(STRING, x, s, y, SM!Delimiter)
    BY <2>3, <2>5
  <2> QED
    BY <2>2, <2>4, <2>6 DEF IsJoined
<1>2. y \in SM!Listed(v) <=> SM!At(x, w) # {}
  BY ModesAssumption, SpelledOut DEF SM!Listed, Framed
<1>3. w \in Seq(STRING) /\ Len(w) = Len(v) + 1 /\ Len(v) \in Nat /\ Len(y) \in Nat \ {0}
  BY FramedTyped, CallsignTyped
<1> HIDE DEF x, w
<1>4. ASSUME NEW i \in 1 .. Len(w) - Len(y) - 1
      PROVE  (\A k \in 1 .. Len(x) : w[i + k - 1] = x[k]) <=> Enclosed(w, y, i)
  <2>1. ASSUME \A k \in 1 .. Len(x) : w[i + k - 1] = x[k] PROVE Enclosed(w, y, i)
    <3>1. w[i + 1 - 1] = x[1] /\ w[i + (Len(y) + 2) - 1] = x[Len(y) + 2]
      BY <1>1, <1>3, <2>1
    <3>2. ASSUME NEW k \in 1 .. Len(y) PROVE w[i + k] = y[k]
      <4>1. w[i + (k + 1) - 1] = x[k + 1]
        BY <1>1, <1>3, <2>1
      <4> QED
        BY <1>1, <1>3, <4>1
    <3> QED
      BY <1>1, <1>3, <3>1, <3>2 DEF Enclosed
  <2>2. ASSUME Enclosed(w, y, i) PROVE \A k \in 1 .. Len(x) : w[i + k - 1] = x[k]
    <3> SUFFICES ASSUME NEW k \in 1 .. Len(x) PROVE w[i + k - 1] = x[k]
      OBVIOUS
    <3>1. CASE k = 1
      BY <1>1, <1>3, <2>2, <3>1 DEF Enclosed
    <3>2. CASE k = Len(y) + 2
      BY <1>1, <1>3, <2>2, <3>2 DEF Enclosed
    <3>3. CASE k # 1 /\ k # Len(y) + 2
      <4>1. k - 1 \in 1 .. Len(y) /\ k - 1 + 1 = k /\ i + (k - 1) = i + k - 1
        BY <1>1, <1>3, <3>3
      <4>2. w[i + (k - 1)] = y[k - 1] /\ x[k - 1 + 1] = y[k - 1]
        BY <1>1, <2>2, <4>1 DEF Enclosed
      <4> QED
        BY <4>1, <4>2
    <3> QED
      BY <3>1, <3>2, <3>3
  <2> QED
    BY <2>1, <2>2
<1>5. SM!At(x, w) # {} <=> \E i \in 1 .. Len(w) - Len(y) - 1 : Enclosed(w, y, i)
  <2>1. Len(w) - Len(x) + 1 = Len(w) - Len(y) - 1
    BY <1>1, <1>3
  <2> QED
    BY <1>1, <1>3, <1>4, <2>1, FoundAt, ZenonT(30)
<1>6. \A i : Enclosed(w, y, i) => i \in 1 .. Len(w) - Len(y) - 1 /\ i \in 1 .. Len(v)
  BY <1>3 DEF Enclosed
<1> QED
  BY <1>2, <1>5, <1>6 DEF w

\* No delimiter is in what is between them.
LEMMA NoneEnclosed ==
  ASSUME NEW y \in Callsigns, NEW w \in Seq(STRING), NEW i, Enclosed(w, y, i), NEW j \in Int, i < j, j <= i + Len(y)
  PROVE  w[j] # SM!Delimiter
<1>1. i \in Int /\ j - i \in 1 .. Len(y) /\ i + (j - i) = j
  BY CallsignTyped DEF Enclosed
<1>2. w[i + (j - i)] = y[j - i] /\ y[j - i] # SM!Delimiter
  BY <1>1, CallsignTyped DEF Enclosed
<1> QED
  BY <1>1, <1>2

\* u is v, which ends with a delimiter, with x and a delimiter after it; n is the place of v's last
\* delimiter when both are framed.
IsAdded(u, v, x, n) ==
    /\ u \in Seq(STRING) /\ Len(u) = Len(v) + Len(x) + 1
    /\ Framed(v) \in Seq(STRING) /\ Len(Framed(v)) = n /\ n \in Nat \ {0} /\ Framed(v)[n] = SM!Delimiter
    /\ Framed(u) \in Seq(STRING) /\ Len(Framed(u)) = n + Len(x) + 1
    /\ Len(x) \in Nat \ {0} /\ Len(v) \in Nat
    /\ \A j \in 1 .. n : Framed(u)[j] = Framed(v)[j]
    /\ \A k \in 1 .. Len(x) : Framed(u)[n + k] = x[k]
    /\ Framed(u)[n + Len(x) + 1] = SM!Delimiter

LEMMA AddFramed ==
  ASSUME NEW x \in Callsigns, NEW v \in Seq(STRING), Framed(v)[Len(v) + 1] = SM!Delimiter
  PROVE  IsAdded(v \o x \o <<SM!Delimiter>>, v, x, Len(v) + 1)
<1> DEFINE u == v \o x \o <<SM!Delimiter>>
           n == Len(v) + 1
           w == Framed(v)
           w2 == Framed(u)
<1>1. /\ u \in Seq(STRING) /\ Len(u) = Len(v) + Len(x) + 1 /\ u[Len(v) + Len(x) + 1] = SM!Delimiter
      /\ \A j \in 1 .. Len(v) : u[j] = v[j]
      /\ \A k \in 1 .. Len(x) : u[Len(v) + k] = x[k]
  <2> DEFINE s == <<SM!Delimiter>>
  <2>1. s \in Seq(STRING) /\ Len(s) = 1 /\ s[1] = SM!Delimiter /\ x \in Seq(STRING)
    BY Ender, CallsignTyped
  <2>2. u = v \o x \o s
    OBVIOUS
  <2> HIDE DEF s, u
  <2>3. IsJoined(STRING, u, v, x, SM!Delimiter)
    BY <2>1, <2>2, Joined
  <2> QED
    BY <2>3 DEF IsJoined
<1> HIDE DEF u
<1>2. /\ w \in Seq(STRING) /\ Len(w) = n /\ n \in Nat \ {0} /\ w[n] = SM!Delimiter
      /\ w2 \in Seq(STRING) /\ Len(w2) = n + Len(x) + 1 /\ Len(x) \in Nat \ {0} /\ Len(v) \in Nat
  <2>1. n \in Nat \ {0} /\ Len(x) \in Nat \ {0} /\ Len(v) \in Nat
    BY CallsignTyped
  <2>2. w \in Seq(STRING) /\ Len(w) = n /\ w[n] = SM!Delimiter
    BY FramedTyped
  <2>3. w2 \in Seq(STRING) /\ Len(w2) = Len(u) + 1
    BY <1>1, FramedTyped
  <2> QED
    BY <1>1, <2>1, <2>2, <2>3
<1>3. /\ \A j \in 1 .. n : w2[j] = w[j]
      /\ \A k \in 1 .. Len(x) : w2[n + k] = x[k]
      /\ w2[n + Len(x) + 1] = SM!Delimiter
  <2>1. ASSUME NEW j \in 1 .. n PROVE w2[j] = w[j]
    <3>1. CASE j = 1
      BY <1>1, <3>1, FramedTyped
    <3>2. CASE j # 1
      <4>1. j - 1 \in 1 .. Len(v) /\ j - 1 \in 1 .. Len(u) /\ j - 1 + 1 = j
        BY <1>1, <1>2, <3>2
      <4>2. w2[j - 1 + 1] = u[j - 1] /\ w[j - 1 + 1] = v[j - 1]
        BY <1>1, <4>1, FramedTyped
      <4> QED
        BY <1>1, <4>1, <4>2
    <3> QED
      BY <3>1, <3>2
  <2>2. ASSUME NEW k \in 1 .. Len(x) PROVE w2[n + k] = x[k]
    <3>1. Len(v) + k \in 1 .. Len(u) /\ Len(v) + k + 1 = n + k
      BY <1>1, <1>2
    <3>2. w2[Len(v) + k + 1] = u[Len(v) + k]
      BY <1>1, <3>1, FramedTyped
    <3> QED
      BY <1>1, <3>1, <3>2
  <2>3. w2[n + Len(x) + 1] = SM!Delimiter
    <3>1. Len(u) \in 1 .. Len(u) /\ Len(u) + 1 = n + Len(x) + 1
      BY <1>1, <1>2
    <3>2. w2[Len(u) + 1] = u[Len(u)]
      BY <1>1, <3>1, FramedTyped
    <3> QED
      BY <1>1, <3>1, <3>2
  <2> QED
    BY <2>1, <2>2, <2>3
<1> HIDE DEF n
<1>4. IsAdded(u, v, x, n)
  BY <1>1, <1>2, <1>3 DEF IsAdded
<1> QED
  BY <1>4 DEF u, n

LEMMA AddListed ==
  ASSUME NEW x \in Callsigns, NEW v \in Seq(STRING), Framed(v)[Len(v) + 1] = SM!Delimiter
  PROVE  SM!Listed(v \o x \o <<SM!Delimiter>>) = SM!Listed(v) \cup {x}
<1> DEFINE u == v \o x \o <<SM!Delimiter>>
           w == Framed(v)
           n == Len(v) + 1
           w2 == Framed(u)
<1>0. IsAdded(u, v, x, n)
  BY AddFramed
<1> HIDE DEF u, n
<1>1. u \in Seq(STRING) /\ Len(u) = Len(v) + Len(x) + 1
  BY <1>0 DEF IsAdded
<1>2. /\ w \in Seq(STRING) /\ Len(w) = n /\ n \in Nat \ {0} /\ w[n] = SM!Delimiter
      /\ w2 \in Seq(STRING) /\ Len(w2) = n + Len(x) + 1 /\ Len(x) \in Nat \ {0} /\ Len(v) \in Nat
  BY <1>0 DEF IsAdded
<1>3. /\ \A j \in 1 .. n : w2[j] = w[j]
      /\ \A k \in 1 .. Len(x) : w2[n + k] = x[k]
      /\ w2[n + Len(x) + 1] = SM!Delimiter
  BY <1>0 DEF IsAdded
<1> USE DEF n
<1> HIDE DEF w, w2
<1>4. ASSUME NEW y \in Callsigns PROVE (\E i \in 1 .. Len(u) : Enclosed(w2, y, i)) <=> (\E i \in 1 .. Len(v) : Enclosed(w, y, i)) \/ y = x
  <2>0. Len(y) \in Nat \ {0} /\ y \in Seq(STRING) /\ x \in Seq(STRING)
    BY CallsignTyped
  <2>1. ASSUME NEW i \in 1 .. Len(v), Enclosed(w, y, i) PROVE \E j \in 1 .. Len(u) : Enclosed(w2, y, j)
    <3>1. i \in 1 .. Len(u) /\ i \in 1 .. n /\ i + Len(y) + 1 \in 1 .. n /\ \A k \in 1 .. Len(y) : i + k \in 1 .. n
      BY <1>1, <1>2, <2>0, <2>1 DEF Enclosed
    <3>2. Enclosed(w2, y, i)
      BY <1>2, <1>3, <2>0, <2>1, <3>1 DEF Enclosed
    <3> QED
      BY <3>1, <3>2
  <2>2. ASSUME y = x PROVE \E j \in 1 .. Len(u) : Enclosed(w2, y, j)
    <3>0. n \in 1 .. Len(u) /\ n \in 1 .. n
      BY <1>1, <1>2
    <3>1. n \in 1 .. Len(u) /\ w2[n] = SM!Delimiter
      BY <1>2, <1>3, <3>0
    <3>2. Enclosed(w2, x, n)
      BY <1>2, <1>3, <2>0, <3>1 DEF Enclosed
    <3> QED
      BY <2>2, <3>1, <3>2
  <2>3. ASSUME NEW i \in 1 .. Len(u), Enclosed(w2, y, i)
        PROVE  (\E j \in 1 .. Len(v) : Enclosed(w, y, j)) \/ y = x
    <3>0. i + Len(y) + 1 <= n + Len(x) + 1 /\ i >= 1 /\ i \in Int
      BY <1>2, <2>0, <2>3 DEF Enclosed
    <3>1. CASE i + Len(y) + 1 <= n
      <4>1. i \in 1 .. n /\ i + Len(y) + 1 \in 1 .. n /\ i \in 1 .. Len(v) /\ \A k \in 1 .. Len(y) : i + k \in 1 .. n
        BY <1>2, <2>0, <3>0, <3>1
      <4>2. Enclosed(w, y, i)
        BY <1>2, <1>3, <2>0, <2>3, <3>0, <3>1, <4>1 DEF Enclosed
      <4> QED
        BY <4>1, <4>2
    <3>2. ~ (i < n /\ n <= i + Len(y))
      <4>1. n \in Int /\ n \in 1 .. n
        BY <1>2
      <4>2. w2[n] = SM!Delimiter
        BY <1>2, <1>3, <4>1
      <4> HIDE DEF n
      <4> QED
        BY <1>2, <2>3, <4>1, <4>2, NoneEnclosed
    <3>3. ~ (i > n)
      <4> SUFFICES ASSUME i > n PROVE FALSE
        OBVIOUS
      <4>1. i - n \in 1 .. Len(x) /\ n + (i - n) = i
        BY <1>2, <2>0, <3>0
      <4>2. w2[n + (i - n)] = x[i - n]
        BY <1>3, <4>1
      <4> QED
        BY <2>3, <4>1, <4>2, CallsignTyped DEF Enclosed
    <3>4. CASE i = n
      <4>1. Len(y) = Len(x)
        <5> SUFFICES ASSUME Len(y) # Len(x) PROVE FALSE
          OBVIOUS
        <5>1. Len(y) + 1 \in 1 .. Len(x) /\ n + (Len(y) + 1) = i + Len(y) + 1
          BY <1>2, <2>0, <3>0, <3>4
        <5>2. w2[n + (Len(y) + 1)] = x[Len(y) + 1]
          BY <1>3, <5>1
        <5> QED
          BY <2>3, <5>1, <5>2, CallsignTyped DEF Enclosed
      <4>2. \A k \in 1 .. Len(x) : y[k] = x[k]
        BY <1>3, <2>3, <3>4, <4>1 DEF Enclosed
      <4> QED
        BY <2>0, <4>1, <4>2, SeqEqual
    <3> QED
      BY <1>2, <2>0, <3>0, <3>1, <3>2, <3>3, <3>4
  <2> QED
    BY <2>1, <2>2, <2>3
<1>5. SM!Listed(u) \subseteq Callsigns /\ SM!Listed(v) \subseteq Callsigns
  BY DEF SM!Listed
<1>6. ASSUME NEW y \in Callsigns PROVE y \in SM!Listed(u) <=> y \in SM!Listed(v) \/ y = x
  BY <1>1, <1>4, ListedEnclosed DEF w, w2
<1> QED
  BY <1>5, <1>6 DEF u

\* Where a callsign is found in a value, with a delimiter before the value, and as one of the list.
LEMMA FoundInFramed ==
  ASSUME NEW x \in Callsigns, NEW v \in Seq(STRING)
  PROVE  /\ \A i \in SM!At(x, v) : i \in Nat \ {0} /\ i + 1 \in SM!At(x, Framed(v))
         /\ \A i : Enclosed(Framed(v), x, i) => i \in SM!At(x, v)
         /\ \A i \in SM!At(x, Framed(v)) : i - 1 \in SM!At(x, v)
<1> DEFINE w == Framed(v)
<1>1. /\ w \in Seq(STRING) /\ Len(w) = Len(v) + 1 /\ Len(v) \in Nat /\ \A j \in 1 .. Len(v) : w[j + 1] = v[j]
      /\ x \in Seq(STRING) /\ Len(x) \in Nat \ {0} /\ w[1] = SM!Delimiter /\ x[1] # SM!Delimiter
  <2>1. Len(x) \in Nat \ {0} /\ \A k \in 1 .. Len(x) : x[k] # SM!Delimiter
    BY CallsignTyped
  <2>2. 1 \in 1 .. Len(x)
    BY <2>1
  <2> QED
    BY <2>1, <2>2, FramedTyped, CallsignTyped
<1> HIDE DEF w
<1>2. ASSUME NEW i \in 1 .. Len(v) - Len(x) + 1
      PROVE  /\ \A k \in 1 .. Len(x) : w[i + k] = v[i + k - 1]
             /\ i \in SM!At(x, v) <=> \A k \in 1 .. Len(x) : w[i + k] = x[k]
             /\ i + 1 \in SM!At(x, w) <=> \A k \in 1 .. Len(x) : w[i + k] = x[k]
  <2>1. ASSUME NEW k \in 1 .. Len(x) PROVE w[i + k] = v[i + k - 1]
    <3>1. i + k - 1 \in 1 .. Len(v) /\ i + k - 1 + 1 = i + k
      BY <1>1
    <3>2. w[i + k - 1 + 1] = v[i + k - 1]
      BY <1>1, <3>1
    <3> QED
      BY <3>1, <3>2
  <2>2. i \in SM!At(x, v) <=> \A k \in 1 .. Len(x) : v[i + k - 1] = x[k]
    BY <1>1, FoundAt
  <2>3. i + 1 \in SM!At(x, w) <=> \A k \in 1 .. Len(x) : w[i + k] = x[k]
    <3>1. i + 1 \in 1 .. Len(w) - Len(x) + 1 /\ \A k \in 1 .. Len(x) : i + 1 + k - 1 = i + k
      BY <1>1
    <3>2. i + 1 \in SM!At(x, w) <=> \A k \in 1 .. Len(x) : w[i + 1 + k - 1] = x[k]
      BY <1>1, <3>1, FoundAt
    <3> QED
      BY <3>1, <3>2
  <2> QED
    BY <2>1, <2>2, <2>3
<1>3. ASSUME NEW i \in SM!At(x, v) PROVE i \in Nat \ {0} /\ i + 1 \in SM!At(x, w)
  <2>1. i \in 1 .. Len(v) - Len(x) + 1
    BY <1>1, FoundAt
  <2> QED
    BY <1>1, <1>2, <2>1
<1>4. ASSUME NEW i, Enclosed(w, x, i) PROVE i \in SM!At(x, v)
  <2>1. i \in 1 .. Len(v) - Len(x) + 1
    BY <1>1, <1>4 DEF Enclosed
  <2> QED
    BY <1>2, <1>4, <2>1 DEF Enclosed
<1>5. ASSUME NEW i \in SM!At(x, w) PROVE i - 1 \in SM!At(x, v)
  <2>1. i \in 1 .. Len(w) - Len(x) + 1 /\ \A k \in 1 .. Len(x) : w[i + k - 1] = x[k]
    BY <1>1, FoundAt
  <2>2. i # 1
    <3>1. i = 1 => w[1] = x[1]
      <4>1. i = 1 => w[1 + 1 - 1] = x[1]
        BY <1>1, <2>1
      <4> QED
        BY <4>1
    <3> QED
      BY <1>1, <3>1
  <2>3. i - 1 \in 1 .. Len(v) - Len(x) + 1 /\ i - 1 + 1 = i
    BY <1>1, <2>1, <2>2
  <2>4. \A k \in 1 .. Len(x) : w[i - 1 + k] = x[k]
    <3>1. \A k \in 1 .. Len(x) : i - 1 + k = i + k - 1
      BY <2>1
    <3> QED
      BY <2>1, <3>1
  <2> QED
    BY <1>2, <2>3, <2>4
<1> QED
  BY <1>3, <1>4, <1>5 DEF w

LEMMA ApartEnclosed ==
  ASSUME NEW x \in Callsigns, NEW v \in Seq(STRING), v # <<>>, SM!Apart(x, v)
  PROVE  /\ Framed(v)[Len(v) + 1] = SM!Delimiter
         /\ \A i \in SM!At(x, v) : /\ Enclosed(Framed(v), x, i) /\ \A j : Enclosed(Framed(v), x, j) => j = i
                                  /\ \A j \in SM!At(x, Framed(v)) : j = i + 1
<1> DEFINE w == Framed(v)
<1>1. /\ w \in Seq(STRING) /\ Len(w) = Len(v) + 1 /\ Len(v) \in Nat /\ w[1] = SM!Delimiter
      /\ x \in Seq(STRING) /\ Len(x) \in Nat \ {0}
  BY FramedTyped, CallsignTyped
<1>2. /\ w[Len(w)] = SM!Delimiter
      /\ \A i, j \in SM!At(x, w) : i = j
      /\ \A i \in SM!At(x, w) : w[i - 1] = SM!Delimiter /\ w[i + Len(x)] = SM!Delimiter
  BY ModesAssumption, SpelledOut DEF SM!Apart, SM!Last, Framed
<1>3. ASSUME NEW i \in SM!At(x, v)
      PROVE  Enclosed(w, x, i) /\ (\A j : Enclosed(w, x, j) => j = i) /\ \A j \in SM!At(x, w) : j = i + 1
  <2>1. i \in Nat \ {0} /\ i + 1 \in SM!At(x, w)
    BY FoundInFramed
  <2> HIDE DEF w
  <2>2. i + 1 \in 1 .. Len(w) - Len(x) + 1 /\ \A k \in 1 .. Len(x) : w[i + 1 + k - 1] = x[k]
    BY <1>1, <2>1, FoundAt
  <2>3. \A k \in 1 .. Len(x) : w[i + k] = x[k]
    <3>1. \A k \in 1 .. Len(x) : i + 1 + k - 1 = i + k
      BY <2>1
    <3> QED
      BY <2>2, <3>1
  <2>4. w[i] = SM!Delimiter /\ w[i + Len(x) + 1] = SM!Delimiter
    <3>1. i + 1 - 1 = i /\ i + 1 + Len(x) = i + Len(x) + 1
      BY <1>1, <2>1
    <3>2. w[i + 1 - 1] = SM!Delimiter /\ w[i + 1 + Len(x)] = SM!Delimiter
      BY <1>2, <2>1
    <3> QED
      BY <3>1, <3>2
  <2>5. i + Len(x) # Len(w)
    <3>1. Len(x) \in 1 .. Len(x)
      BY <1>1
    <3>2. w[i + Len(x)] = x[Len(x)] /\ x[Len(x)] # SM!Delimiter
      BY <2>3, <3>1, CallsignTyped
    <3> QED
      BY <1>2, <3>2
  <2>6. i \in 1 .. Len(w) - Len(x) - 1
    BY <1>1, <2>1, <2>2, <2>5
  <2>7. Enclosed(w, x, i)
    BY <2>3, <2>4, <2>6 DEF Enclosed
  <2>8. ASSUME NEW j, Enclosed(w, x, j) PROVE j = i
    <3>1. j \in SM!At(x, v)
      BY <2>8, FoundInFramed DEF w
    <3>2. j \in Nat \ {0} /\ j + 1 \in SM!At(x, w)
      BY <3>1, FoundInFramed DEF w
    <3>3. j + 1 = i + 1
      BY <1>2, <2>1, <3>2
    <3> QED
      BY <2>1, <3>2, <3>3
  <2>9. \A j \in SM!At(x, w) : j = i + 1
    BY <1>2, <2>1
  <2> QED
    BY <2>7, <2>8, <2>9
<1> QED
  BY <1>1, <1>2, <1>3

LEMMA IsApart ==
  ASSUME NEW x \in Callsigns, NEW v \in Seq(STRING), Framed(v)[Len(v) + 1] = SM!Delimiter,
         \A i, j \in SM!At(x, Framed(v)) : i = j,
         \A i \in SM!At(x, Framed(v)) : Framed(v)[i - 1] = SM!Delimiter /\ Framed(v)[i + Len(x)] = SM!Delimiter
  PROVE  SM!Apart(x, v)
<1>1. Len(Framed(v)) = Len(v) + 1
  BY FramedTyped
<1>2. SM!Last(Framed(v)) = SM!Delimiter
  BY <1>1 DEF SM!Last
<1> QED
  BY <1>2 DEF SM!Apart, Framed

\* The callsign that is added is apart, and there once.
LEMMA AddApart ==
  ASSUME NEW x \in Callsigns, NEW v \in Seq(STRING), Framed(v)[Len(v) + 1] = SM!Delimiter,
         SM!At(x, v) = {}
  PROVE  /\ v \o x \o <<SM!Delimiter>> \in Seq(STRING)
         /\ SM!Apart(x, v \o x \o <<SM!Delimiter>>)
<1> DEFINE u == v \o x \o <<SM!Delimiter>>
           w == Framed(v)
           n == Len(v) + 1
           w2 == Framed(u)
<1>0. IsAdded(u, v, x, n)
  BY AddFramed
<1> HIDE DEF u, n
<1>1. u \in Seq(STRING) /\ Len(u) = Len(v) + Len(x) + 1
  BY <1>0 DEF IsAdded
<1>2. /\ w \in Seq(STRING) /\ Len(w) = n /\ n \in Nat \ {0} /\ w[n] = SM!Delimiter
      /\ w2 \in Seq(STRING) /\ Len(w2) = n + Len(x) + 1 /\ Len(x) \in Nat \ {0} /\ Len(v) \in Nat
  BY <1>0 DEF IsAdded
<1>3. /\ \A j \in 1 .. n : w2[j] = w[j]
      /\ w2[n + Len(x) + 1] = SM!Delimiter
  BY <1>0 DEF IsAdded
<1>4. SM!At(x, w) = {} /\ x \in Seq(STRING) /\ \A k \in 1 .. Len(x) : x[k] # SM!Delimiter
  BY FoundInFramed, CallsignTyped
<1>5. Len(u) + 1 = n + Len(x) + 1
  BY <1>1, <1>2 DEF n
<1> HIDE DEF w, w2
<1>6. ASSUME NEW i \in SM!At(x, w2)
      PROVE  i = n + 1 /\ w2[i - 1] = SM!Delimiter /\ w2[i + Len(x)] = SM!Delimiter
  <2>1. i \in 1 .. n + 2 /\ \A k \in 1 .. Len(x) : w2[i + k - 1] = x[k]
    <3>1. Len(w2) - Len(x) + 1 = n + 2
      BY <1>2
    <3>2. SM!At(x, w2) \in SUBSET (1 .. n + 2)
      BY <1>2, <1>4, <3>1, FoundAt
    <3>3. i \in 1 .. Len(w2) - Len(x) + 1
      BY <3>1, <3>2
    <3>4. \A k \in 1 .. Len(x) : w2[i + k - 1] = x[k]
      BY <1>2, <1>4, <3>3, FoundAt, Zenon
    <3> QED
      BY <3>2, <3>4
  <2>2. ASSUME NEW j \in i .. i + Len(x) - 1 PROVE w2[j] # SM!Delimiter
    <3>1. j - i + 1 \in 1 .. Len(x) /\ i + (j - i + 1) - 1 = j
      BY <1>2, <2>1
    <3> QED
      BY <1>4, <2>1, <3>1
  <2>3. ~ (i + Len(x) - 1 < n)
    <3> SUFFICES ASSUME i + Len(x) - 1 < n PROVE FALSE
      OBVIOUS
    <3>1. /\ i \in 1 .. Len(w) - Len(x) + 1
          /\ \A k \in 1 .. Len(x) : i + k - 1 \in 1 .. n
      BY <1>2, <2>1
    <3>2. \A k \in 1 .. Len(x) : w[i + k - 1] = x[k]
      BY <1>3, <2>1, <3>1
    <3> QED
      BY <1>2, <1>4, <3>1, <3>2, FoundAt
  <2>4. n \in 1 .. n /\ w2[n] = SM!Delimiter
    BY <1>2, <1>3
  <2>5. n \notin i .. i + Len(x) - 1 /\ n + Len(x) + 1 \notin i .. i + Len(x) - 1
    BY <1>3, <2>2, <2>4
  <2>6. i = n + 1
    BY <1>2, <2>1, <2>3, <2>5
  <2>7. i - 1 = n /\ i + Len(x) = n + Len(x) + 1
    BY <1>2, <2>6
  <2> QED
    BY <1>3, <2>4, <2>6, <2>7
<1>7. SM!Apart(x, u)
  <2>1. w2[Len(u) + 1] = SM!Delimiter
    BY <1>3, <1>5
  <2>2. /\ \A i, j \in SM!At(x, w2) : i = j
        /\ \A i \in SM!At(x, w2) : w2[i - 1] = SM!Delimiter /\ w2[i + Len(x)] = SM!Delimiter
    BY <1>6
  <2> QED
    BY <1>1, <2>1, <2>2, IsApart DEF w2
<1> QED
  BY <1>1, <1>7 DEF u

\* Without the callsign at a place and the delimiter after it.
CutOut(v, i, x) == SubSeq(v, 1, i - 1) \o SubSeq(v, i + Len(x) + 1, Len(v))

LEMMA CutFramed ==
  ASSUME NEW x \in Callsigns, NEW v \in Seq(STRING), NEW m, Enclosed(Framed(v), x, m),
         NEW u, u = CutOut(v, m, x)
  PROVE  /\ u \in Seq(STRING) /\ Len(Framed(u)) = Len(v) - Len(x)
         /\ \A j \in 1 .. m : Framed(u)[j] = Framed(v)[j]
         /\ \A j \in m .. Len(v) - Len(x) : Framed(u)[j] = Framed(v)[j + Len(x) + 1]
<1> DEFINE w == Framed(v)
           a == SubSeq(v, 1, m - 1)
           c == SubSeq(v, m + Len(x) + 1, Len(v))
<1>1. /\ w \in Seq(STRING) /\ Len(w) = Len(v) + 1 /\ Len(v) \in Nat /\ w[1] = SM!Delimiter
      /\ \A j \in 1 .. Len(v) : w[j + 1] = v[j]
      /\ x \in Seq(STRING) /\ Len(x) \in Nat \ {0}
  BY FramedTyped, CallsignTyped
<1> HIDE DEF w
<1>2. m \in 1 .. Len(v) - Len(x) /\ w[m] = SM!Delimiter /\ w[m + Len(x) + 1] = SM!Delimiter
  BY <1>1 DEF Enclosed, w
<1>3. a \in Seq(STRING) /\ Len(a) = m - 1 /\ \A j \in 1 .. m - 1 : a[j] = v[j]
  BY <1>1, <1>2
<1>4. /\ c \in Seq(STRING) /\ Len(c) = Len(v) - Len(x) - m
      /\ \A j \in 1 .. Len(v) - Len(x) - m : c[j] = v[m + Len(x) + j]
  <2> DEFINE b == m + Len(x) + 1
  <2>1. b \in 1 .. Len(v) + 1
    BY <1>1, <1>2
  <2>2. /\ SubSeq(v, b, Len(v)) \in Seq(STRING) /\ Len(SubSeq(v, b, Len(v))) = Len(v) - b + 1
        /\ \A j \in 1 .. Len(v) - b + 1 : SubSeq(v, b, Len(v))[j] = v[b + j - 1]
    <3> HIDE DEF b
    <3> QED
      BY <1>1, <2>1
  <2>3. Len(v) - b + 1 = Len(v) - Len(x) - m /\ \A j \in 1 .. Len(v) - Len(x) - m : b + j - 1 = m + Len(x) + j
    BY <1>1, <1>2
  <2> QED
    BY <2>2, <2>3
<1> HIDE DEF a, c
<1>6. u = a \o c
  BY DEF a, c, CutOut
<1>5. /\ u \in Seq(STRING) /\ Len(u) = Len(a) + Len(c)
      /\ \A j \in 1 .. Len(a) : u[j] = a[j]
      /\ \A k \in 1 .. Len(c) : u[Len(a) + k] = c[k]
  <2>1. a \in Seq(STRING) /\ c \in Seq(STRING)
    BY <1>3, <1>4
  <2>2. /\ a \o c \in Seq(STRING) /\ Len(a \o c) = Len(a) + Len(c)
        /\ \A j \in 1 .. Len(a) : (a \o c)[j] = a[j]
        /\ \A k \in 1 .. Len(c) : (a \o c)[Len(a) + k] = c[k]
    BY <2>1, TwoParts
  <2> QED
    BY <1>6, <2>2, Zenon
<1>7. /\ u \in Seq(STRING) /\ Len(u) = Len(v) - Len(x) - 1
      /\ \A j \in 1 .. m - 1 : u[j] = v[j]
      /\ \A k \in 1 .. Len(v) - Len(x) - m : u[m - 1 + k] = v[m + Len(x) + k]
  <2>1. Len(u) = Len(v) - Len(x) - 1
    BY <1>1, <1>2, <1>3, <1>4, <1>5
  <2>2. \A j \in 1 .. m - 1 : u[j] = v[j]
    BY <1>3, <1>5
  <2>3. \A k \in 1 .. Len(v) - Len(x) - m : u[m - 1 + k] = v[m + Len(x) + k]
    BY <1>3, <1>4, <1>5
  <2> QED
    BY <1>5, <2>1, <2>2, <2>3
<1> DEFINE w2 == Framed(u)
<1>8. /\ Len(w2) = Len(v) - Len(x) /\ w2[1] = SM!Delimiter /\ \A j \in 1 .. Len(u) : w2[j + 1] = u[j]
  <2>1. Len(w2) = Len(u) + 1 /\ w2[1] = SM!Delimiter /\ \A j \in 1 .. Len(u) : w2[j + 1] = u[j]
    BY <1>7, FramedTyped
  <2>2. Len(u) + 1 = Len(v) - Len(x)
    BY <1>1, <1>7
  <2> QED
    BY <2>1, <2>2
<1> HIDE DEF w2
<1>9. ASSUME NEW j \in 1 .. m PROVE w2[j] = w[j]
  <2>1. CASE j = 1
    BY <1>1, <1>8, <2>1
  <2>2. CASE j # 1
    <3>1. j - 1 \in 1 .. m - 1 /\ j - 1 \in 1 .. Len(v) /\ j - 1 \in 1 .. Len(u) /\ j - 1 + 1 = j
      BY <1>1, <1>2, <1>7, <2>2
    <3>2. w2[j - 1 + 1] = u[j - 1] /\ w[j - 1 + 1] = v[j - 1] /\ u[j - 1] = v[j - 1]
      BY <1>1, <1>7, <1>8, <3>1
    <3> QED
      BY <3>1, <3>2
  <2> QED
    BY <2>1, <2>2
<1>10. ASSUME NEW j \in m .. Len(v) - Len(x) PROVE w2[j] = w[j + Len(x) + 1]
  <2>1. CASE j = m
    BY <1>2, <1>9, <2>1
  <2>2. CASE j # m
    <3>1. /\ j - m \in 1 .. Len(v) - Len(x) - m /\ m - 1 + (j - m) = j - 1 /\ m + Len(x) + (j - m) = j + Len(x)
          /\ j - 1 \in 1 .. Len(u) /\ j - 1 + 1 = j /\ j + Len(x) \in 1 .. Len(v)
      BY <1>1, <1>2, <1>7, <2>2, SMTT(30)
    <3>2. w2[j - 1 + 1] = u[j - 1] /\ w[j + Len(x) + 1] = v[j + Len(x)]
      BY <1>1, <1>8, <3>1
    <3>3. u[m - 1 + (j - m)] = v[m + Len(x) + (j - m)]
      BY <1>7, <3>1
    <3> QED
      BY <3>1, <3>2, <3>3
  <2> QED
    BY <2>1, <2>2
<1> QED
  BY <1>7, <1>8, <1>9, <1>10 DEF w, w2

LEMMA DeleteListed ==
  ASSUME NEW x \in Callsigns, NEW v \in Seq(STRING), NEW m, Enclosed(Framed(v), x, m),
         \A j : Enclosed(Framed(v), x, j) => j = m,
         NEW u, u = CutOut(v, m, x)
  PROVE  SM!Listed(u) = SM!Listed(v) \ {x}
<1> DEFINE w == Framed(v)
           w2 == Framed(u)
           q == Len(x) + 1
           n == Len(v) + 1
<1>1. /\ u \in Seq(STRING) /\ Len(w2) = n - q
      /\ \A j \in 1 .. m : w2[j] = w[j]
      /\ \A j \in m .. n - q : w2[j] = w[j + q]
  <2>1. n - q = Len(v) - Len(x) /\ \A j \in m .. Len(v) - Len(x) : j + q = j + Len(x) + 1
    BY CallsignTyped, FramedTyped DEF Enclosed
  <2>2. /\ u \in Seq(STRING) /\ Len(w2) = Len(v) - Len(x)
        /\ \A j \in 1 .. m : w2[j] = w[j]
        /\ \A j \in m .. Len(v) - Len(x) : w2[j] = w[j + Len(x) + 1]
    BY CutFramed
  <2> HIDE DEF w, w2, n, q
  <2> QED
    BY <2>1, <2>2
<1>2. /\ w \in Seq(STRING) /\ w2 \in Seq(STRING) /\ Len(w) = n
      /\ q \in Nat /\ q >= 2 /\ n \in Nat /\ Len(u) = n - q - 1
  <2>1. Len(x) \in Nat \ {0} /\ Len(v) \in Nat
    BY CallsignTyped
  <2>2. w \in Seq(STRING) /\ Len(w) = Len(v) + 1
    BY FramedTyped
  <2>3. w2 \in Seq(STRING) /\ Len(w2) = Len(u) + 1 /\ Len(u) \in Nat
    <3>1. u \in Seq(STRING)
      BY <1>1
    <3>2. Len(u) \in Nat
      BY <3>1
    <3> QED
      BY <3>1, <3>2, FramedTyped, Zenon
  <2>4. Len(w2) = n - q
    BY <1>1
  <2>5. q \in Nat /\ q >= 2 /\ n \in Nat
    BY <2>1
  <2> HIDE DEF w, w2, n, q
  <2>6. Len(u) = n - q - 1
    BY <2>3, <2>4, <2>5
  <2>7. Len(w) = n
    BY <2>2 DEF n
  <2> QED
    BY <2>2, <2>3, <2>5, <2>6, <2>7
<1>3. m \in 1 .. n - q /\ w[m] = SM!Delimiter /\ w[m + q] = SM!Delimiter
  BY <1>2, CallsignTyped DEF Enclosed
<1>4. \A j \in m + 1 .. m + q - 1 : w[j] # SM!Delimiter
  <2> SUFFICES ASSUME NEW j \in m + 1 .. m + q - 1 PROVE w[j] # SM!Delimiter
    OBVIOUS
  <2>1. j \in Int /\ m < j /\ j <= m + Len(x)
    BY <1>3, CallsignTyped
  <2> HIDE DEF w
  <2> QED
    BY <1>2, <2>1, NoneEnclosed DEF w
<1>5. \A i : Enclosed(w, x, i) <=> i = m
  OBVIOUS
<1>6. /\ \A i : \A y \in Callsigns : Enclosed(w, y, i) => i \in 1 .. Len(v)
      /\ \A i : \A y \in Callsigns : Enclosed(w2, y, i) => i \in 1 .. Len(u)
  <2> HIDE DEF w, w2
  <2>1. ASSUME NEW i, NEW y \in Callsigns, Enclosed(w, y, i) PROVE i \in 1 .. Len(v)
    BY <1>2, <2>1, CallsignTyped DEF Enclosed
  <2>2. ASSUME NEW i, NEW y \in Callsigns, Enclosed(w2, y, i) PROVE i \in 1 .. Len(u)
    BY <1>1, <1>2, <2>2, CallsignTyped DEF Enclosed
  <2> QED
    BY <2>1, <2>2
<1> HIDE DEF w, w2
<1>7. ASSUME NEW y \in Callsigns, NEW i, Enclosed(w2, y, i)
      PROVE  y # x /\ \E j : Enclosed(w, y, j)
  <2>0. Len(y) \in Nat \ {0} /\ i \in 1 .. n - q - Len(y) - 1
    BY <1>1, <1>7, CallsignTyped DEF Enclosed
  <2>1. CASE i < m
    <3>1. ~ (m <= i + Len(y))
      <4>1. w2[m] = SM!Delimiter
        BY <1>1, <1>3
      <4> QED
        BY <1>2, <1>3, <1>7, <2>1, <4>1, NoneEnclosed
    <3>2. i \in 1 .. m /\ i + Len(y) + 1 \in 1 .. m /\ \A k \in 1 .. Len(y) : i + k \in 1 .. m
      BY <1>3, <2>0, <3>1
    <3>3. i \in 1 .. Len(w) - Len(y) - 1
      BY <1>2, <1>3, <2>0, <3>2
    <3>4. Enclosed(w, y, i)
      BY <1>1, <1>7, <3>2, <3>3 DEF Enclosed
    <3> QED
      BY <1>5, <2>0, <2>1, <3>4
  <2>2. CASE i >= m
    <3>1. /\ i \in m .. n - q /\ i + Len(y) + 1 \in m .. n - q
          /\ i + Len(y) + 1 + q = i + q + Len(y) + 1
          /\ \A k \in 1 .. Len(y) : i + k \in m .. n - q /\ i + k + q = i + q + k
      BY <1>2, <1>3, <2>0, <2>2
    <3>2. i + q \in 1 .. Len(w) - Len(y) - 1
      BY <1>2, <1>3, <2>0, <2>2
    <3>3. w[i + q] = SM!Delimiter /\ w[i + q + Len(y) + 1] = SM!Delimiter
      <4>1. w2[i] = w[i + q] /\ w2[i + Len(y) + 1] = w[i + Len(y) + 1 + q]
        BY <1>1, <3>1
      <4> QED
        BY <1>7, <3>1, <4>1 DEF Enclosed
    <3>4. ASSUME NEW k \in 1 .. Len(y) PROVE w[i + q + k] = y[k]
      <4>1. w2[i + k] = w[i + k + q] /\ w2[i + k] = y[k]
        BY <1>1, <1>7, <3>1 DEF Enclosed
      <4> QED
        BY <3>1, <4>1
    <3>5. Enclosed(w, y, i + q)
      BY <3>2, <3>3, <3>4 DEF Enclosed
    <3>6. i + q # m
      BY <1>2, <1>3, <2>0, <2>2
    <3> QED
      BY <1>5, <3>5, <3>6
  <2> QED
    BY <1>3, <2>0, <2>1, <2>2
<1>8. ASSUME NEW y \in Callsigns, y # x, NEW i, Enclosed(w, y, i)
      PROVE  \E j : Enclosed(w2, y, j)
  <2>0. Len(y) \in Nat \ {0} /\ y \in Seq(STRING) /\ x \in Seq(STRING) /\ i \in 1 .. n - Len(y) - 1
    BY <1>2, <1>8, CallsignTyped DEF Enclosed
  <2>1. CASE i < m
    <3>1. ~ (m <= i + Len(y))
      BY <1>2, <1>3, <1>8, <2>1, NoneEnclosed
    <3>2. i \in 1 .. m /\ i + Len(y) + 1 \in 1 .. m /\ \A k \in 1 .. Len(y) : i + k \in 1 .. m
      BY <1>3, <2>0, <3>1
    <3>3. i \in 1 .. Len(w2) - Len(y) - 1
      BY <1>1, <1>2, <1>3, <2>0, <3>2
    <3>4. Enclosed(w2, y, i)
      BY <1>1, <1>8, <3>2, <3>3 DEF Enclosed
    <3> QED
      BY <3>4
  <2>2. CASE i = m
    <3> SUFFICES FALSE
      OBVIOUS
    <3>1. ~ (m + q <= i + Len(y))
      BY <1>2, <1>3, <1>8, <2>2, NoneEnclosed, SMTT(30)
    <3>2. w[i + Len(y) + 1] = SM!Delimiter
      BY <1>8 DEF Enclosed
    <3>3. i + Len(y) + 1 = m + q
      <4>1. i + Len(y) + 1 \notin m + 1 .. m + q - 1
        BY <1>4, <3>2
      <4>2. /\ i + Len(y) + 1 \in Int /\ m + q \in Int /\ m + 1 <= i + Len(y) + 1
            /\ i + Len(y) + 1 <= m + q
        BY <1>2, <1>3, <2>0, <2>2, <3>1
      <4> HIDE DEF n, q
      <4>a. m \in Int /\ q \in Int
        BY <1>2, <1>3
      <4>3. \A e \in Int : m + 1 <= e /\ e <= m + q /\ e \notin m + 1 .. m + q - 1 => e = m + q
        BY <4>a
      <4> QED
        BY <4>1, <4>2, <4>3, Zenon
    <3>4. Len(y) = Len(x)
      BY <1>3, <2>0, <2>2, <3>3, CallsignTyped
    <3>5. Enclosed(w, x, m)
      BY <1>5
    <3>6. \A k \in 1 .. Len(x) : y[k] = x[k]
      BY <1>8, <2>2, <3>4, <3>5 DEF Enclosed
    <3> QED
      BY <1>8, <2>0, <3>4, <3>6, SeqEqual
  <2>3. CASE m < i /\ i < m + q
    BY <1>2, <1>3, <1>4, <1>8, <2>0, <2>3, SMTT(30) DEF Enclosed
  <2>4. CASE i >= m + q
    <3> DEFINE j == i - q
    <3>1. /\ j \in m .. n - q /\ j + Len(y) + 1 \in m .. n - q /\ j + q = i
          /\ j + Len(y) + 1 + q = i + Len(y) + 1
          /\ \A k \in 1 .. Len(y) : j + k \in m .. n - q /\ j + k + q = i + k
      BY <1>2, <1>3, <2>0, <2>4
    <3>2. j \in 1 .. Len(w2) - Len(y) - 1
      BY <1>1, <1>2, <1>3, <2>0, <2>4
    <3> HIDE DEF j
    <3>3. w2[j] = SM!Delimiter /\ w2[j + Len(y) + 1] = SM!Delimiter
      <4>1. w2[j] = w[j + q] /\ w2[j + Len(y) + 1] = w[j + Len(y) + 1 + q]
        BY <1>1, <3>1
      <4> QED
        BY <1>8, <3>1, <4>1 DEF Enclosed
    <3>4. ASSUME NEW k \in 1 .. Len(y) PROVE w2[j + k] = y[k]
      <4>1. w2[j + k] = w[j + k + q] /\ w[i + k] = y[k]
        BY <1>1, <1>8, <3>1 DEF Enclosed
      <4> QED
        BY <3>1, <4>1
    <3>5. Enclosed(w2, y, j)
      BY <3>2, <3>3, <3>4 DEF Enclosed
    <3> QED
      BY <3>5
  <2> QED
    BY <1>2, <1>3, <2>0, <2>1, <2>2, <2>3, <2>4
<1>9. ASSUME NEW y \in Callsigns PROVE y \in SM!Listed(u) <=> y \in SM!Listed(v) /\ y # x
  <2>1. y \in SM!Listed(u) <=> \E i : Enclosed(w2, y, i)
    BY <1>1, <1>6, ListedEnclosed DEF w2
  <2>2. y \in SM!Listed(v) <=> \E i : Enclosed(w, y, i)
    BY <1>6, ListedEnclosed DEF w
  <2> QED
    BY <1>7, <1>8, <2>1, <2>2
<1>10. SM!Listed(u) \subseteq Callsigns /\ SM!Listed(v) \subseteq Callsigns
  BY DEF SM!Listed
<1> QED
  BY <1>9, <1>10

\* The callsign that was there once is not there when it is deleted.
LEMMA DeleteApart ==
  ASSUME NEW x \in Callsigns, NEW v \in Seq(STRING), NEW m, Enclosed(Framed(v), x, m),
         Framed(v)[Len(v) + 1] = SM!Delimiter,
         \A j \in SM!At(x, Framed(v)) : j = m + 1,
         NEW u, u = CutOut(v, m, x)
  PROVE  SM!Apart(x, u)
<1> DEFINE w == Framed(v)
           w2 == Framed(u)
           n == Len(v) - Len(x)
<1>1. /\ u \in Seq(STRING) /\ Len(w2) = n
      /\ \A j \in 1 .. m : w2[j] = w[j]
      /\ \A j \in m .. n : w2[j] = w[j + Len(x) + 1]
  BY CutFramed
<1>2. /\ w \in Seq(STRING) /\ Len(w) = Len(v) + 1 /\ Len(v) \in Nat /\ w[Len(v) + 1] = SM!Delimiter
      /\ w2 \in Seq(STRING) /\ Len(w2) = Len(u) + 1 /\ Len(u) \in Nat
      /\ x \in Seq(STRING) /\ Len(x) \in Nat \ {0} /\ \A k \in 1 .. Len(x) : x[k] # SM!Delimiter
  <2>1. u \in Seq(STRING) /\ Len(u) \in Nat
    BY <1>1
  <2>2. w2 \in Seq(STRING) /\ Len(w2) = Len(u) + 1
    BY <2>1, FramedTyped, Zenon
  <2>3. w \in Seq(STRING) /\ Len(w) = Len(v) + 1 /\ Len(v) \in Nat
    BY FramedTyped
  <2> QED
    BY <2>1, <2>2, <2>3, CallsignTyped
<1> HIDE DEF w, w2
<1>3. m \in 1 .. n /\ n \in Nat /\ w[m] = SM!Delimiter
  <2>1. m \in 1 .. Len(w) - Len(x) - 1 /\ w[m] = SM!Delimiter
    BY DEF Enclosed, w
  <2> QED
    BY <1>2, <2>1
<1>4. w2[m] = SM!Delimiter
  BY <1>1, <1>3
<1>5. w2[Len(u) + 1] = SM!Delimiter
  <2>1. n \in m .. n /\ n + Len(x) + 1 = Len(v) + 1
    BY <1>2, <1>3
  <2>2. w2[n] = w[n + Len(x) + 1]
    BY <1>1, <2>1
  <2> HIDE DEF n
  <2>3. Len(u) + 1 = n
    BY <1>1, <1>2
  <2> QED
    BY <1>2, <2>1, <2>2, <2>3
<1>6. \A j \in SM!At(x, w) : j = m + 1
  BY DEF w
<1> HIDE DEF n
<1>7. ASSUME NEW i \in SM!At(x, w2) PROVE FALSE
  <2>1. i \in 1 .. n - Len(x) + 1 /\ \A k \in 1 .. Len(x) : w2[i + k - 1] = x[k]
    <3>1. Len(w2) - Len(x) + 1 = n - Len(x) + 1
      BY <1>1
    <3>2. SM!At(x, w2) \in SUBSET (1 .. n - Len(x) + 1)
      BY <1>2, <3>1, FoundAt
    <3>3. i \in 1 .. Len(w2) - Len(x) + 1
      BY <3>1, <3>2
    <3>4. \A k \in 1 .. Len(x) : w2[i + k - 1] = x[k]
      BY <1>2, <3>3, FoundAt, Zenon
    <3> QED
      BY <3>2, <3>4
  <2>2. m \notin i .. i + Len(x) - 1
    <3> SUFFICES ASSUME m \in i .. i + Len(x) - 1 PROVE FALSE
      OBVIOUS
    <3>1. m - i + 1 \in 1 .. Len(x) /\ i + (m - i + 1) - 1 = m
      BY <1>2, <1>3, <2>1
    <3> QED
      BY <1>2, <1>4, <2>1, <3>1
  <2>3. CASE i + Len(x) - 1 < m
    <3>1. i \in 1 .. Len(w) - Len(x) + 1 /\ \A k \in 1 .. Len(x) : i + k - 1 \in 1 .. m
      BY <1>2, <1>3, <2>1, <2>3 DEF n
    <3>2. \A k \in 1 .. Len(x) : w[i + k - 1] = x[k]
      BY <1>1, <2>1, <3>1
    <3>3. i \in SM!At(x, w)
      BY <1>2, <3>1, <3>2, FoundAt
    <3>4. i # m + 1
      BY <1>2, <1>3, <2>1, <2>3
    <3> QED
      BY <1>6, <3>3, <3>4
  <2>4. CASE m < i
    <3> DEFINE j == i + Len(x) + 1
    <3>1. /\ j \in 1 .. Len(w) - Len(x) + 1
          /\ \A k \in 1 .. Len(x) : i + k - 1 \in m .. n /\ i + k - 1 + Len(x) + 1 = j + k - 1
      BY <1>2, <1>3, <2>1, <2>4 DEF n
    <3>4. j # m + 1
      BY <1>2, <1>3, <2>1, <2>4
    <3> HIDE DEF j
    <3>2. \A k \in 1 .. Len(x) : w[j + k - 1] = x[k]
      <4> SUFFICES ASSUME NEW k \in 1 .. Len(x) PROVE w[j + k - 1] = x[k]
        OBVIOUS
      <4>1. w2[i + k - 1] = w[i + k - 1 + Len(x) + 1]
        BY <1>1, <3>1
      <4> QED
        BY <2>1, <3>1, <4>1
    <3>3. j \in SM!At(x, w)
      BY <1>2, <3>1, <3>2, FoundAt
    <3> QED
      BY <1>6, <3>3, <3>4
  <2> QED
    BY <1>2, <1>3, <2>1, <2>2, <2>3, <2>4
<1> QED
  BY <1>1, <1>5, <1>7, IsApart DEF w2

LEMMA ErasedIsCutOut ==
  ASSUME NEW x \in Seq(STRING), NEW v \in Seq(STRING), SM!At(x, v) # {}
  PROVE  \E m \in SM!At(x, v) : SM!Erase(x, v) = CutOut(v, m, x)
BY ErasedTyped DEF SM!Erase, CutOut

\* The value of a new line.
LEMMA NewListed ==
  ASSUME NEW x \in Callsigns
  PROVE  /\ SM!Listed(x \o <<SM!Delimiter>>) = {x}
         /\ SM!Apart(x, x \o <<SM!Delimiter>>)
<1> DEFINE v == <<>>
<1>1. v \in Seq(STRING) /\ Len(v) = 0
  OBVIOUS
<1>2. Framed(v)[Len(v) + 1] = SM!Delimiter
  <2>1. Len(v) + 1 = 1
    BY <1>1
  <2>2. Framed(v)[1] = SM!Delimiter
    BY <1>1, FramedTyped, Zenon
  <2> QED
    BY <2>1, <2>2, Zenon
<1>3. v \o x = x
  BY CallsignTyped, ConcatEmptySeq
<1> HIDE DEF v
<1>4. SM!Listed(v \o x \o <<SM!Delimiter>>) = SM!Listed(v) \cup {x}
  BY <1>1, <1>2, AddListed
<1>5. SM!Listed(v) = {}
  <2>1. \A y \in Callsigns : y \notin SM!Listed(v)
    <3>1. 1 .. Len(v) = {}
      BY <1>1
    <3> QED
      BY <1>1, <3>1, ListedEnclosed, Zenon
  <2> QED
    BY <2>1 DEF SM!Listed
<1>6. SM!At(x, v) = {}
  <2>1. SM!At(x, v) \in SUBSET (1 .. Len(v) - Len(x) + 1) /\ Len(x) \in Nat \ {0}
    BY <1>1, CallsignTyped, FoundAt
  <2> QED
    BY <1>1, <2>1
<1>7. SM!Apart(x, v \o x \o <<SM!Delimiter>>)
  BY <1>1, <1>2, <1>6, AddApart
<1> QED
  BY <1>3, <1>4, <1>5, <1>7

LEMMA CallsignChanged ==
  ASSUME NEW r \in SM!Requests, r.property = "callsign", ~ Removes(r),
         NEW v \in Seq(STRING), SM!Apart(r.value, v)
  PROVE  SM!Listed(NewValue(r, v)) = SM!Asked(r, v) /\ SM!Apart(r.value, NewValue(r, v))
<1> DEFINE x == r.value
<1>1. r.action \in {"add", "checkandadd", "delete"} /\ x \in Callsigns /\ x \in Seq(STRING) /\ x # <<>>
  BY RequestTypes, CallsignTyped, ModesAssumption, SpelledOut DEF Removes
<1>2. v # None
  BY ModesAssumption, SpelledOut
<1>3. \A i \in SM!At(x, v) : v # <<>>
  <2>1. v = <<>> => SM!At(x, v) = {}
    <3>1. v = <<>> => Len(v) = 0
      OBVIOUS
    <3>2. SM!At(x, v) \in SUBSET (1 .. Len(v) - Len(x) + 1) /\ Len(x) \in Nat \ {0}
      BY <1>1, FoundAt, CallsignTyped
    <3> QED
      BY <3>1, <3>2
  <2> QED
    BY <2>1
<1> HIDE DEF x
<1>4. CASE r.action = "checkandadd"
  BY <1>2, <1>4 DEF NewValue, SM!Asked
<1>5. CASE r.action = "add" /\ SM!At(x, v) = {}
  <2>1. NewValue(r, v) = v \o x \o <<SM!Delimiter>> /\ SM!Asked(r, v) = SM!Listed(v) \cup {x}
    BY <1>5 DEF NewValue, SM!Asked, x
  <2>2. Framed(v)[Len(v) + 1] = SM!Delimiter
    <3>1. CASE v = <<>>
      <4>1. Len(v) + 1 = 1
        BY <3>1
      <4>2. Framed(v)[1] = SM!Delimiter
        BY FramedTyped, Zenon
      <4> QED
        BY <4>1, <4>2, Zenon
    <3>2. CASE v # <<>>
      BY <1>1, <3>2, ApartEnclosed DEF x
    <3> QED
      BY <3>1, <3>2
  <2> QED
    BY <1>1, <1>5, <2>1, <2>2, AddListed, AddApart DEF x
<1>6. CASE r.action = "add" /\ SM!At(x, v) # {}
  <2>1. NewValue(r, v) = v /\ SM!Asked(r, v) = SM!Listed(v) \cup {x}
    BY <1>6 DEF NewValue, SM!Asked, x
  <2>2. PICK i \in SM!At(x, v) : v # <<>>
    BY <1>3, <1>6
  <2>3. Enclosed(Framed(v), x, i)
    BY <1>1, <2>2, ApartEnclosed DEF x
  <2>4. i \in 1 .. Len(v)
    BY <1>1, <2>3, FramedTyped, CallsignTyped DEF Enclosed
  <2>5. x \in SM!Listed(v)
    BY <1>1, <2>3, <2>4, ListedEnclosed
  <2> QED
    BY <2>1, <2>5 DEF x
<1>7. CASE r.action = "delete" /\ SM!At(x, v) = {}
  <2>1. NewValue(r, v) = v /\ SM!Asked(r, v) = SM!Listed(v) \ {x}
    BY <1>7 DEF NewValue, SM!Asked, x
  <2>2. x \notin SM!Listed(v)
    BY <1>1, <1>7, ListedEnclosed, FoundInFramed
  <2> QED
    BY <2>1, <2>2 DEF x
<1>8. CASE r.action = "delete" /\ SM!At(x, v) # {}
  <2>1. NewValue(r, v) = SM!Erase(x, v) /\ SM!Asked(r, v) = SM!Listed(v) \ {x}
    BY <1>8 DEF NewValue, SM!Asked, x
  <2>2. PICK m \in SM!At(x, v) : SM!Erase(x, v) = CutOut(v, m, x)
    BY <1>1, <1>8, ErasedIsCutOut
  <2>3. /\ Framed(v)[Len(v) + 1] = SM!Delimiter
        /\ Enclosed(Framed(v), x, m) /\ \A j : Enclosed(Framed(v), x, j) => j = m
        /\ \A j \in SM!At(x, Framed(v)) : j = m + 1
    BY <1>1, <1>3, <2>2, ApartEnclosed DEF x
  <2>4. SM!Listed(CutOut(v, m, x)) = SM!Listed(v) \ {x}
    BY <1>1, <2>3, DeleteListed
  <2>5. SM!Apart(x, CutOut(v, m, x))
    BY <1>1, <2>3, DeleteApart
  <2> QED
    BY <2>1, <2>2, <2>4, <2>5 DEF x
<1> QED
  BY <1>1, <1>4, <1>5, <1>6, <1>7, <1>8

\* What an update makes of the file is what it was asked.
LEMMA UpdatedAsAsked ==
  ASSUME NEW r \in SM!Requests, NEW s \in Seq(FileLines)
  PROVE  LET was(m, p) == SM!getSystemModePropertyValue(s, m, p)
             is(m, p)  == SM!getSystemModePropertyValue(SM!Update(s, r), m, p)
         IN  /\ \A m \in ModesAsked, p \in {"currentstate", "callsign"} :
                   <<m, p>> # <<r.mode, r.property>> => is(m, p) = was(m, p)
             /\ r.property = "currentstate" =>
                   is(r.mode, "currentstate") = IF r.action \in {"add", "checkandadd"} THEN r.value ELSE None
             /\ r.property = "callsign" /\ (r.value = <<>> \/ SM!Apart(r.value, was(r.mode, "callsign"))) =>
                   /\ SM!Listed(is(r.mode, "callsign")) = SM!Asked(r, was(r.mode, "callsign"))
                   /\ SM!Apart(r.value, is(r.mode, "callsign"))
<1> DEFINE was(m, p) == SM!getSystemModePropertyValue(s, m, p)
           is(m, p)  == SM!getSystemModePropertyValue(SM!Update(s, r), m, p)
<1>1. \A m, p : is(m, p) = IF <<m, p>> # Key(r) THEN was(m, p)
                           ELSE IF was(m, p) = None THEN (IF Adds(r) THEN Fresh(r) ELSE None)
                           ELSE IF Removes(r) THEN None ELSE NewValue(r, was(m, p))
  BY UpdateValue
<1>2. \A m, p : was(m, p) = None \/ was(m, p) \in Seq(STRING)
  <2> SUFFICES ASSUME NEW m, NEW p PROVE was(m, p) = None \/ was(m, p) \in Seq(STRING)
    OBVIOUS
  <2>1. FirstIs(s, m, p, was(m, p))
    BY FirstValue
  <2>2. \A i \in 1 .. Len(s) : s[i].value \in Seq(STRING)
    BY LineValue
  <2> QED
    BY <2>1, <2>2 DEF FirstIs
<1> HIDE DEF was, is
<1>3. r.property \in {"currentstate", "callsign"} /\ r.action \in {"add", "checkandadd", "delete", "deleteall"}
  BY RequestTypes
<1>4. \A m \in ModesAsked, p \in {"currentstate", "callsign"} :
         <<m, p>> # <<r.mode, r.property>> => is(m, p) = was(m, p)
  BY <1>1 DEF Key
<1>5. ASSUME r.property = "currentstate"
      PROVE  is(r.mode, "currentstate") = IF r.action \in {"add", "checkandadd"} THEN r.value ELSE None
  <2>1. <<r.mode, "currentstate">> = Key(r)
    BY <1>5 DEF Key
  <2>2. Adds(r) <=> ~ Removes(r)
    BY <1>3, <1>5 DEF Adds, Removes
  <2>3. Fresh(r) = r.value /\ \A v : NewValue(r, v) = r.value
    BY <1>5 DEF Fresh, NewValue
  <2> QED
    BY <1>1, <2>1, <2>2, <2>3 DEF Adds
<1>6. ASSUME r.property = "callsign", r.value = <<>> \/ SM!Apart(r.value, was(r.mode, "callsign"))
      PROVE  /\ SM!Listed(is(r.mode, "callsign")) = SM!Asked(r, was(r.mode, "callsign"))
             /\ SM!Apart(r.value, is(r.mode, "callsign"))
  <2> DEFINE v == was(r.mode, "callsign")
  <2>1. /\ <<r.mode, "callsign">> = Key(r)
        /\ Removes(r) <=> r.action = "deleteall"
        /\ Fresh(r) = r.value \o <<SM!Delimiter>>
    BY <1>6 DEF Key, Removes, Fresh
  <2>2. is(r.mode, "callsign") = IF v = None THEN (IF Adds(r) THEN Fresh(r) ELSE None)
                                 ELSE IF Removes(r) THEN None ELSE NewValue(r, v)
    BY <1>1, <2>1
  <2>3. SM!Listed(None) = {} /\ SM!Apart(r.value, None)
    BY DEF SM!Listed, SM!Apart
  <2>4. r.action # "deleteall" => r.value \in Callsigns
    BY <1>6, RequestTypes
  <2> HIDE DEF v
  <2>5. CASE r.action = "deleteall"
    <3>1. ~ Adds(r) /\ SM!Asked(r, v) = {}
      BY <2>5 DEF Adds, SM!Asked
    <3> QED
      BY <2>1, <2>2, <2>3, <2>5, <3>1 DEF v
  <2>6. CASE r.action # "deleteall" /\ v = None
    <3>1. CASE r.action = "delete"
      BY <2>2, <2>3, <2>6, <3>1 DEF v, Adds, SM!Asked
    <3>2. CASE Adds(r)
      <4>1. SM!Asked(r, v) = {r.value}
        BY <2>3, <2>6, <3>2 DEF Adds, SM!Asked
      <4> QED
        BY <2>1, <2>2, <2>4, <2>6, <3>2, <4>1, NewListed DEF v
    <3> QED
      BY <1>3, <2>6, <3>1, <3>2 DEF Adds
  <2>7. CASE r.action # "deleteall" /\ v # None
    <3>1. v \in Seq(STRING) /\ SM!Apart(r.value, v)
      BY <1>2, <1>6, <2>4, <2>7, ModesAssumption, SpelledOut DEF v
    <3>2. SM!Listed(NewValue(r, v)) = SM!Asked(r, v) /\ SM!Apart(r.value, NewValue(r, v))
      BY <1>6, <2>1, <2>7, <3>1, CallsignChanged
    <3> QED
      BY <2>1, <2>2, <2>7, <3>2 DEF v
  <2> QED
    BY <2>5, <2>6, <2>7
<1> QED
  BY <1>4, <1>5, <1>6 DEF was, is

-----------------------------------------------------------------------------
(* The invariant of SystemModeFile, and the property *)

ModeTypes ==
    /\ modeFile \in Seq(FileLines) \cup {None}
    /\ stage \in [Threads -> {"idle", "truncate", "write"}]
    /\ buffer \in [Threads -> Seq(FileLines)]
    /\ DOMAIN lone = Threads

\* The file is there while somebody changes it.
FileThere == (\E c \in Threads : stage[c] # "idle") => modeFile \in Seq(FileLines)

\* A call that has met no other one is the only one there, and holds what it is to write.
ByItself ==
    \A c \in Threads : stage[c] # "idle" /\ lone[c] # None =>
        /\ \A d \in Threads : d # c => stage[d] = "idle"
        /\ \E s \in Seq(FileLines), r \in SM!Requests : lone[c] = <<s, r>> /\ buffer[c] = SM!Update(s, r)
        /\ stage[c] = "write" => modeFile = <<>>

ModeInv == ModeTypes /\ FileThere /\ ByItself

LEMMA DefaultTyped ==
  SM!Update(<<>>, SM!DefaultRequest) \in Seq(FileLines)
<1> DEFINE r == SM!DefaultRequest
           l == SM!Line(r, r.value)
<1>1. SM!Update(<<>>, r) = <<l>>
  <2>1. r.property = "currentstate" /\ r.action = "add"
    BY DEF SM!DefaultRequest
  <2> DEFINE none == <<>>
  <2>2. DOMAIN none = {} /\ none \o <<l>> = <<l>> /\ none = <<>>
    OBVIOUS
  <2> DEFINE b == [i \in DOMAIN none |-> IF SM!HasKey(none[i], r) THEN SM!Changed(none[i], r) ELSE <<none[i]>>]
  <2>3. b = <<>>
    BY <2>2
  <2> HIDE DEF b
  <2>4. SM!FlattenSeq(b) = none
    BY <2>2, <2>3, NoParts DEF SM!FlattenSeq
  <2>5. SM!Update(none, r) = SM!FlattenSeq(b) \o <<l>>
    <3> HIDE DEF r, none
    <3> QED
      BY <2>1, <2>2 DEF SM!Update, b
  <2> HIDE DEF l
  <2> QED
    BY <2>2, <2>4, <2>5
<1>2. l \in FileLines
  <2>1. r.mode = "DEVICE_OPTIMIZE" /\ r.property = "currentstate" /\ r.value = <<"VIDEO">>
    BY DEF SM!DefaultRequest
  <2>2. r.value \in Seq(STRING)
    <3>1. \A X : \A e \in X : <<e>> \in Seq(X)
      OBVIOUS
    <3>2. "VIDEO" \in STRING
      BY SpelledOut
    <3> QED
      BY <2>1, <3>1, <3>2, Zenon
  <2> HIDE DEF r
  <2> QED
    BY <2>1, <2>2 DEF FileLines, SM!Line
<1>3. \A k \in FileLines : <<k>> \in Seq(FileLines)
  OBVIOUS
<1> HIDE DEF l, r
<1> QED
  BY <1>1, <1>2, <1>3 DEF r

LEMMA ModeInit == SM!Init => ModeInv
BY DEF SM!Init, ModeInv, ModeTypes, FileThere, ByItself

LEMMA ModeStep == ModeInv /\ [SM!Next]_(SM!vars) => ModeInv'
<1> SUFFICES ASSUME ModeInv, [SM!Next]_(SM!vars) PROVE ModeInv'
  OBVIOUS
<1> USE DEF ModeInv
<1>1. ASSUME NEW c \in Threads, NEW r \in SM!Requests, SM!Read(c, r) PROVE ModeInv'
  <2> DEFINE s == IF modeFile = None THEN <<>> ELSE modeFile
  <2>1. s \in Seq(FileLines)
    BY NoParts DEF ModeTypes
  <2> HIDE DEF s
  <2>2. SM!Update(s, r) \in Seq(FileLines)
    BY <2>1, UpdateValue
  <2>3. /\ modeFile' = IF modeFile = None THEN SM!Update(<<>>, SM!DefaultRequest) ELSE modeFile
        /\ stage' = [stage EXCEPT ![c] = "truncate"] /\ stage[c] = "idle"
        /\ buffer' = [buffer EXCEPT ![c] = SM!Update(s, r)]
        /\ lone' = IF \A d \in Threads : stage[d] = "idle" THEN [lone EXCEPT ![c] = <<s, r>>]
                   ELSE [d \in Threads |-> None]
    BY <1>1 DEF SM!Read, s
  <2>4. ModeTypes'
    BY <2>2, <2>3, DefaultTyped DEF ModeTypes
  <2>5. FileThere'
    BY <2>3, DefaultTyped DEF FileThere, ModeTypes
  <2>6. ByItself'
    <3> SUFFICES ASSUME NEW d \in Threads, stage'[d] # "idle", lone'[d] # None
                 PROVE  /\ \A e \in Threads : e # d => stage'[e] = "idle"
                        /\ \E ss \in Seq(FileLines), q \in SM!Requests : lone'[d] = <<ss, q>> /\ buffer'[d] = SM!Update(ss, q)
                        /\ stage'[d] = "write" => modeFile' = <<>>
      BY DEF ByItself
    <3>1. (\A e \in Threads : stage[e] = "idle") /\ lone' = [lone EXCEPT ![c] = <<s, r>>]
      BY <2>3
    <3>2. d = c /\ stage'[c] = "truncate" /\ \A e \in Threads : e # c => stage'[e] = "idle"
      BY <2>3, <3>1 DEF ModeTypes
    <3>3. lone'[c] = <<s, r>> /\ buffer'[c] = SM!Update(s, r)
      BY <2>3, <3>1 DEF ModeTypes
    <3> QED
      BY <2>1, <3>2, <3>3
  <2> QED
    BY <2>4, <2>5, <2>6
<1>2. ASSUME NEW c \in Threads, SM!Truncate(c) PROVE ModeInv'
  <2>1. /\ stage[c] = "truncate" /\ stage' = [stage EXCEPT ![c] = "write"] /\ modeFile' = <<>>
        /\ buffer' = buffer /\ lone' = lone
    BY <1>2 DEF SM!Truncate
  <2>2. ModeTypes'
    BY <2>1, NoParts DEF ModeTypes
  <2>3. FileThere'
    BY <2>1, NoParts DEF FileThere
  <2>4. ByItself'
    BY <2>1 DEF ByItself, ModeTypes
  <2> QED
    BY <2>2, <2>3, <2>4
<1>3. ASSUME NEW c \in Threads, SM!Write(c) PROVE ModeInv'
  <2>1. /\ stage[c] = "write" /\ stage' = [stage EXCEPT ![c] = "idle"]
        /\ modeFile' = buffer[c] \o SubSeq(modeFile, Len(buffer[c]) + 1, Len(modeFile))
        /\ buffer' = [buffer EXCEPT ![c] = <<>>] /\ lone' = [lone EXCEPT ![c] = None]
    BY <1>3 DEF SM!Write
  <2>2. modeFile \in Seq(FileLines) /\ buffer[c] \in Seq(FileLines)
    BY <2>1 DEF FileThere, ModeTypes
  <2>3. modeFile' \in Seq(FileLines)
    <3>1. \A a, b \in Seq(FileLines) : a \o SubSeq(b, Len(a) + 1, Len(b)) \in Seq(FileLines)
      OBVIOUS
    <3> QED
      BY <2>1, <2>2, <3>1, Zenon
  <2>4. ModeTypes'
    BY <2>1, <2>3, NoParts DEF ModeTypes
  <2>5. FileThere'
    BY <2>3 DEF FileThere
  <2>6. ByItself'
    BY <2>1 DEF ByItself, ModeTypes
  <2> QED
    BY <2>4, <2>5, <2>6
<1>4. ASSUME NEW c \in Threads, SM!GiveUp(c) PROVE ModeInv'
  <2>1. /\ stage[c] # "idle" /\ stage' = [stage EXCEPT ![c] = "idle"]
        /\ buffer' = [buffer EXCEPT ![c] = <<>>] /\ lone' = [lone EXCEPT ![c] = None]
        /\ modeFile' = modeFile
    BY <1>4 DEF SM!GiveUp
  <2>2. ModeTypes'
    BY <2>1, NoParts DEF ModeTypes
  <2>3. FileThere'
    BY <2>1 DEF FileThere, ModeTypes
  <2>4. ByItself'
    BY <2>1 DEF ByItself, ModeTypes
  <2> QED
    BY <2>2, <2>3, <2>4
<1>5. ASSUME UNCHANGED SM!vars PROVE ModeInv'
  BY <1>5 DEF SM!vars, ModeTypes, FileThere, ByItself
<1> QED
  BY <1>1, <1>2, <1>3, <1>4, <1>5 DEF SM!Next

LEMMA ModeAsAsked == ModeInv => SM!LoneUpdateExact
<1> SUFFICES ASSUME ModeInv, NEW c \in Threads, stage[c] = "write" /\ lone[c] # None
             PROVE  LET prior == lone[c][1]
                        r   == lone[c][2]
                        was(m, p) == SM!getSystemModePropertyValue(prior, m, p)
                        is(m, p)  == SM!getSystemModePropertyValue(buffer[c], m, p)
                    IN  /\ modeFile = <<>>
                        /\ \A m \in ModesAsked, p \in {"currentstate", "callsign"} :
                              <<m, p>> # <<r.mode, r.property>> => is(m, p) = was(m, p)
                        /\ r.property = "currentstate" =>
                              is(r.mode, "currentstate") = IF r.action \in {"add", "checkandadd"} THEN r.value ELSE None
                        /\ r.property = "callsign" /\ (r.value = <<>> \/ SM!Apart(r.value, was(r.mode, "callsign"))) =>
                              /\ SM!Listed(is(r.mode, "callsign")) = SM!Asked(r, was(r.mode, "callsign"))
                              /\ SM!Apart(r.value, is(r.mode, "callsign"))
  BY DEF SM!LoneUpdateExact
<1>1. PICK s \in Seq(FileLines), r \in SM!Requests : lone[c] = <<s, r>> /\ buffer[c] = SM!Update(s, r)
  BY DEF ModeInv, ByItself
<1>2. modeFile = <<>>
  BY DEF ModeInv, ByItself
<1>3. lone[c][1] = s /\ lone[c][2] = r
  BY <1>1
<1> QED
  BY <1>1, <1>2, <1>3, UpdatedAsAsked

\* For every mode, state and callsign, however many calls overlapped before or died: one that meets no
\* other one leaves every other value as it was, and its own as it was asked.
THEOREM UpdatesAreExact == Spec => []LoneUpdateExact
<1> DEFINE Inv == part = "mode" => ModeInv
<1>1. Init => Inv
  BY ModeInit DEF Init
<1>2. Inv /\ [Next]_vars => Inv'
  BY OwnStep, ModeStep
<1>3. Inv => LoneUpdateExact
  BY ModeAsAsked DEF LoneUpdateExact
<1> QED
  BY <1>1, <1>2, <1>3, PTL DEF Spec

-----------------------------------------------------------------------------
\* What a step does to the utilities is a step of the one that the behaviour is of.
LEMMA OwnState ==
  ASSUME [Next]_vars
  PROVE  /\ part' = part
         /\ part = "reference" => [R!Next]_(R!vars)
         /\ part = "versions" => [V!Next]_(V!vars)
         /\ part = "move" => [MF!Next]_(MF!vars)
         /\ part = "persisted" => [PJ!Next]_(PJ!vars)
         /\ part = "settings" => [S!Next]_(S!vars)
<1>1. CASE UNCHANGED vars
  BY <1>1 DEF vars, referenceVars, R!vars, versionsVars, V!vars, moveVars, MF!vars,
              persistedVars, PJ!vars, settingsVars, S!vars
<1>2. CASE Next
  BY <1>2 DEF Next, Only
<1> QED
  BY <1>1, <1>2

-----------------------------------------------------------------------------
(* InterfaceRef.  QueriesBounded speaks of a call that has ended; the        *)
(* invariant says how many queries one has still to make.                    *)

Owners == {r \in Refs : interface[r] = TRUE}

OnItsWay == IF retries # None /\ made = TRUE THEN 1 ELSE 0

Numbers == references \in Int /\ overwritten \in Nat /\ count \in Nat

Interfaces == interface \in [Refs -> BOOLEAN \cup {None}]

Loop ==
    /\ plugin \in BOOLEAN
    /\ seen \in BOOLEAN
    /\ made \in BOOLEAN \cup {None}
    /\ retries \in RetryCounts \cup {None}

ReferenceTypes == Numbers /\ Interfaces /\ Loop

\* A call that goes on has a query left, and neither it nor one that gave up has seen the plugin.
QueriesLeft ==
    /\ retries # None => count <= IF retries < 1 THEN 1 ELSE retries
    /\ retries # None /\ made = None => count < IF retries < 1 THEN 1 ELSE retries

NotSeen == made # TRUE => ~seen

ReferenceInv ==
    /\ ReferenceTypes
    /\ QueriesLeft /\ NotSeen
    /\ references = Cardinality(Owners) + OnItsWay + overwritten

LEMMA ReferenceCardinality == \A X : R!Cardinality(X) = Cardinality(X)
BY DEF R!Cardinality, Cardinality

LEMMA OwnersFinite == IsFiniteSet(Owners) /\ Cardinality(Owners) \in Nat
BY ReferencesAssumption, FS_Subset, FS_CardinalityType DEF Owners

LEMMA ReferenceInit == R!Init => ReferenceInv
<1> SUFFICES ASSUME R!Init PROVE ReferenceInv
  OBVIOUS
<1>1. ReferenceTypes /\ QueriesLeft /\ NotSeen /\ OnItsWay = 0
  <2>1. ReferenceTypes
    <3>1. Numbers
      BY DEF R!Init, Numbers
    <3>2. Interfaces
      BY DEF R!Init, Interfaces
    <3>3. Loop
      BY DEF R!Init, Loop
    <3> QED
      BY <3>1, <3>2, <3>3 DEF ReferenceTypes
  <2>2. retries = None /\ made = None /\ seen = FALSE
    BY DEF R!Init
  <2>3. QueriesLeft
    BY <2>2 DEF QueriesLeft
  <2>4. NotSeen
    BY <2>2 DEF NotSeen
  <2>5. OnItsWay = 0
    BY <2>2 DEF OnItsWay
  <2> QED
    BY <2>1, <2>3, <2>4, <2>5
<1>2. Owners = {}
  BY ReferencesAssumption DEF R!Init, Owners
<1> QED
  BY <1>1, <1>2, FS_EmptySet DEF ReferenceInv, R!Init

\* The loop of createInterface().
LEMMA LoopStep ==
  ASSUME ReferenceInv,
         \/ R!PluginComesOrGoes
         \/ \E n \in RetryCounts, controller \in BOOLEAN : R!BeginCreate(n, controller)
         \/ R!Query
  PROVE  ReferenceInv'
<1> USE DEF ReferenceInv, ReferenceTypes
<1>0. UNCHANGED <<interface, overwritten>> /\ Interfaces' /\ Owners' = Owners
  BY DEF R!PluginComesOrGoes, R!BeginCreate, R!Query, R!refVars, Interfaces, Owners
<1>1. CASE R!PluginComesOrGoes
  <2>1. UNCHANGED <<references, overwritten, retries, count, made, seen>> /\ plugin' = ~plugin
    BY <1>1 DEF R!PluginComesOrGoes, R!refVars, R!loopVars
  <2>2. Numbers' /\ QueriesLeft' /\ OnItsWay' = OnItsWay
    BY <2>1 DEF Numbers, QueriesLeft, OnItsWay
  <2>3. Loop' /\ NotSeen'
    BY <2>1 DEF Loop, NotSeen
  <2> QED
    BY <1>0, <2>1, <2>2, <2>3
<1>2. ASSUME NEW n \in RetryCounts, NEW controller \in BOOLEAN, R!BeginCreate(n, controller)
      PROVE  ReferenceInv'
  <2>1. /\ retries = None /\ retries' = n /\ count' = 0 /\ seen' = FALSE /\ plugin' = plugin
        /\ references' = references /\ overwritten' = overwritten
    BY <1>2 DEF R!BeginCreate, R!refVars
  <2>2. made' \in {None, FALSE} /\ made' # TRUE
    BY <1>2, ReferencesAssumption DEF R!BeginCreate
  <2>3. Numbers' /\ OnItsWay' = 0 /\ OnItsWay = 0
    BY <2>1, <2>2 DEF Numbers, OnItsWay
  <2>4. Loop'
    BY <2>1, <2>2 DEF Loop
  <2>5. retries' \in Int
    BY <2>1, ReferencesAssumption
  <2>6. QueriesLeft'
    <3> SUFFICES count' < IF retries' < 1 THEN 1 ELSE retries'
      BY <2>1, <2>5 DEF QueriesLeft
    <3> QED
      BY <2>1, <2>5
  <2>7. NotSeen'
    BY <2>1 DEF NotSeen
  <2> QED
    BY <1>0, <2>1, <2>3, <2>4, <2>6, <2>7
<1>3. CASE R!Query
  <2>0. /\ retries # None /\ made = None /\ OnItsWay = 0 /\ ~seen
        /\ retries' = retries /\ plugin' = plugin /\ retries \in Int
    BY <1>3, ReferencesAssumption DEF R!Query, OnItsWay, NotSeen, Loop
  <2>1. CASE plugin
    <3>1. made' = TRUE /\ references' = references + 1 /\ count' = count
      BY <1>3, <2>1 DEF R!Query
    <3>2. seen' \in BOOLEAN
      BY <1>3 DEF R!Query
    <3>3. Numbers' /\ OnItsWay' = 1
      BY <1>0, <2>0, <3>1 DEF Numbers, OnItsWay
    <3>4. Loop'
      BY <2>0, <3>1, <3>2 DEF Loop
    <3>5. QueriesLeft'
      BY <2>0, <3>1, ReferencesAssumption DEF QueriesLeft
    <3>6. NotSeen'
      BY <3>1 DEF NotSeen
    <3> QED
      BY <1>0, <2>0, <3>1, <3>3, <3>4, <3>5, <3>6, OwnersFinite DEF Numbers
  <2>2. CASE ~plugin
    <3>1. references' = references /\ count' = count + 1
      BY <1>3, <2>2 DEF R!Query
    <3>2. seen' = FALSE
      BY <1>3, <2>0, <2>2 DEF R!Query
    <3>3. /\ made' \in {None, FALSE} /\ made' # TRUE
          /\ made' = None => count + 1 < retries
      BY <1>3, <2>2, ReferencesAssumption DEF R!Query
    <3>4. Numbers'
      BY <1>0, <3>1 DEF Numbers
    <3>9. OnItsWay' = 0
      BY <3>3 DEF OnItsWay
    <3>5. Loop' /\ NotSeen'
      BY <2>0, <3>2, <3>3 DEF Loop, NotSeen
    <3>6. count' <= IF retries < 1 THEN 1 ELSE retries
      BY <2>0, <3>1, ReferencesAssumption DEF QueriesLeft, Numbers
    <3>7. ASSUME made' = None  PROVE  count' < IF retries < 1 THEN 1 ELSE retries
      <4>1. count \in Nat /\ retries \in Int /\ count + 1 < retries
        BY <2>0, <3>3, <3>7 DEF Numbers
      <4>2. ~(retries < 1) /\ count' < retries
        BY <3>1, <4>1
      <4> QED
        BY <4>2
    <3>8. QueriesLeft'
      BY <2>0, <3>6, <3>7 DEF QueriesLeft
    <3> QED
      BY <1>0, <2>0, <3>1, <3>4, <3>5, <3>8, <3>9
  <2> QED
    BY <2>1, <2>2
<1> QED
  BY <1>1, <1>2, <1>3

\* What a variable holds when it is given what another one held, or nothing.
LEMMA OwnersAfter ==
  ASSUME ReferenceTypes, NEW r \in Refs, NEW holds \in BOOLEAN \cup {None},
         interface' = [interface EXCEPT ![r] = holds]
  PROVE  /\ interface' \in [Refs -> BOOLEAN \cup {None}]
         /\ Cardinality(Owners') = Cardinality(Owners) - R!Lost(r) + IF holds = TRUE THEN 1 ELSE 0
<1>0. IsFiniteSet(Owners) /\ Cardinality(Owners) \in Nat
  BY OwnersFinite
<1>1. interface' \in [Refs -> BOOLEAN \cup {None}]
  BY DEF ReferenceTypes, Interfaces
<1>2. R!Lost(r) = IF r \in Owners THEN 1 ELSE 0
  BY DEF R!Lost, Owners
<1>3. CASE holds = TRUE
  <2>1. Owners' = Owners \cup {r}
    BY <1>3 DEF ReferenceTypes, Interfaces, Owners
  <2>2. Cardinality(Owners') = IF r \in Owners THEN Cardinality(Owners) ELSE Cardinality(Owners) + 1
    BY <1>0, <2>1, FS_AddElement
  <2>3. Cardinality(Owners') = Cardinality(Owners) - R!Lost(r) + 1
    BY <1>0, <1>2, <2>2
  <2> QED
    BY <1>1, <1>3, <2>3
<1>4. CASE holds # TRUE
  <2>1. Owners' = Owners \ {r}
    BY <1>4 DEF ReferenceTypes, Interfaces, Owners
  <2>2. Cardinality(Owners') = IF r \in Owners THEN Cardinality(Owners) - 1 ELSE Cardinality(Owners)
    BY <1>0, <2>1, FS_RemoveElement
  <2>3. Cardinality(Owners') = Cardinality(Owners) - R!Lost(r) + 0
    BY <1>0, <1>2, <2>2
  <2> QED
    BY <1>1, <1>4, <2>3
<1> QED
  BY <1>3, <1>4

LEMMA OwnerStep ==
  ASSUME ReferenceInv, NEW r \in Refs,
         \/ R!Store(r)
         \/ \E q \in Refs : R!Move(q, r)
         \/ \E after \in {FALSE, None} : R!Reset(r, after)
  PROVE  ReferenceInv'
<1> USE DEF ReferenceInv, ReferenceTypes
<1>0. OnItsWay \in Nat /\ R!Lost(r) \in Nat /\ references \in Int /\ overwritten \in Nat
  BY DEF OnItsWay, R!Lost, Numbers
<1>1. CASE R!Store(r)
  <2>1. /\ made \in BOOLEAN /\ interface' = [interface EXCEPT ![r] = made]
        /\ retries' = None /\ UNCHANGED <<references, plugin, count, made, seen>>
        /\ overwritten' = overwritten + R!Lost(r)
    BY <1>1 DEF R!Store, Loop
  <2>2. Interfaces'
    BY <2>1, OwnersAfter DEF Interfaces
  <2>3. Numbers'
    BY <1>0, <2>1 DEF Numbers
  <2>4. Loop'
    BY <2>1 DEF Loop
  <2>5. QueriesLeft' /\ NotSeen'
    BY <2>1 DEF QueriesLeft, NotSeen
  <2>6. OnItsWay' = 0 /\ OnItsWay = IF made = TRUE THEN 1 ELSE 0
    BY <1>1, <2>1 DEF R!Store, OnItsWay
  <2>7. Cardinality(Owners') = Cardinality(Owners) - R!Lost(r) + OnItsWay
    BY <2>1, <2>6, OwnersAfter
  <2>8. references' = Cardinality(Owners') + OnItsWay' + overwritten'
    BY <1>0, <2>1, <2>6, <2>7, OwnersFinite
  <2> QED
    BY <2>2, <2>3, <2>4, <2>5, <2>8
<1>2. ASSUME NEW q \in Refs, R!Move(q, r) PROVE ReferenceInv'
  <2>1. /\ q # r /\ interface[q] \in BOOLEAN
        /\ interface' = [interface EXCEPT ![r] = interface[q], ![q] = FALSE]
    BY <1>2 DEF R!Move, Interfaces
  <2>2. Interfaces'
    BY <2>1 DEF Interfaces
  <2>0. /\ UNCHANGED <<references, plugin, retries, count, made, seen>>
        /\ overwritten' = overwritten + R!Lost(r)
    BY <1>2 DEF R!Move, R!loopVars
  <2>3. Loop' /\ NotSeen'
    BY <2>0 DEF Loop, NotSeen
  <2>5. Numbers'
    BY <1>0, <2>0 DEF Numbers
  <2>6. QueriesLeft' /\ OnItsWay' = OnItsWay
    BY <2>0 DEF QueriesLeft, OnItsWay
  <2>4. Cardinality(Owners') = Cardinality(Owners) - R!Lost(r)
    <3>0. IsFiniteSet(Owners) /\ Cardinality(Owners) \in Nat
      BY OwnersFinite
    <3>1. CASE interface[q] = TRUE
      <4>1. Owners' = (Owners \ {q}) \cup {r} /\ q \in Owners
        BY <2>1, <3>1 DEF Interfaces, Owners
      <4>2. IsFiniteSet(Owners \ {q}) /\ Cardinality(Owners \ {q}) = Cardinality(Owners) - 1
        BY <3>0, <4>1, FS_RemoveElement
      <4>3. Cardinality(Owners') = IF r \in Owners \ {q} THEN Cardinality(Owners \ {q})
                                   ELSE Cardinality(Owners \ {q}) + 1
        BY <4>1, <4>2, FS_AddElement
      <4>4. R!Lost(r) = IF r \in Owners \ {q} THEN 1 ELSE 0
        BY <2>1 DEF R!Lost, Owners
      <4> QED
        BY <3>0, <4>2, <4>3, <4>4
    <3>2. CASE interface[q] # TRUE
      <4>1. Owners' = Owners \ {r}
        BY <2>1, <3>2 DEF Interfaces, Owners
      <4>2. Cardinality(Owners') = IF r \in Owners THEN Cardinality(Owners) - 1 ELSE Cardinality(Owners)
        BY <3>0, <4>1, FS_RemoveElement
      <4>3. R!Lost(r) = IF r \in Owners THEN 1 ELSE 0
        BY DEF R!Lost, Owners
      <4> QED
        BY <3>0, <4>2, <4>3
    <3> QED
      BY <3>1, <3>2
  <2> QED
    BY <1>0, <2>0, <2>2, <2>3, <2>4, <2>5, <2>6, OwnersFinite
<1>3. ASSUME NEW after \in {FALSE, None}, R!Reset(r, after) PROVE ReferenceInv'
  <2>1. after \in BOOLEAN \cup {None} /\ after # TRUE /\ interface' = [interface EXCEPT ![r] = after]
    BY <1>3, ReferencesAssumption DEF R!Reset
  <2>2. /\ UNCHANGED <<overwritten, plugin, retries, count, made, seen>>
        /\ references' = references - R!Lost(r)
    BY <1>3 DEF R!Reset, R!loopVars
  <2>3. Interfaces'
    BY <2>1, OwnersAfter DEF Interfaces
  <2>4. Loop' /\ NotSeen'
    BY <2>2 DEF Loop, NotSeen
  <2>5. Numbers'
    BY <1>0, <2>2 DEF Numbers
  <2>6. QueriesLeft' /\ OnItsWay' = OnItsWay
    BY <2>2 DEF QueriesLeft, OnItsWay
  <2>7. Cardinality(Owners') = Cardinality(Owners) - R!Lost(r) + 0
    BY <2>1, OwnersAfter
  <2> QED
    BY <1>0, <2>2, <2>3, <2>4, <2>5, <2>6, <2>7, OwnersFinite
<1> QED
  BY <1>1, <1>2, <1>3

LEMMA ReferenceStep == ReferenceInv /\ [R!Next]_(R!vars) => ReferenceInv'
<1> SUFFICES ASSUME ReferenceInv, [R!Next]_(R!vars) PROVE ReferenceInv'
  OBVIOUS
<1>1. CASE UNCHANGED R!vars
  <2>1. UNCHANGED <<interface, references, plugin, retries, count, made, seen, overwritten>>
    BY <1>1 DEF R!vars
  <2>2. Loop' /\ NotSeen'
    BY <2>1 DEF Loop, NotSeen, ReferenceInv, ReferenceTypes
  <2>3. Interfaces' /\ Owners' = Owners
    BY <2>1 DEF Interfaces, Owners, ReferenceInv, ReferenceTypes
  <2>4. Numbers' /\ QueriesLeft' /\ OnItsWay' = OnItsWay
    BY <2>1 DEF Numbers, QueriesLeft, OnItsWay, ReferenceInv, ReferenceTypes
  <2> QED
    BY <2>1, <2>2, <2>3, <2>4 DEF ReferenceInv, ReferenceTypes
<1> QED
  BY <1>1, LoopStep, OwnerStep DEF R!Next

\* Every reference that createInterface() has taken has one owner, or was overwritten by a move
\* assignment, for any number of variables and any order of moves, resets and calls; and a call
\* that gives up has made its queries and found the plugin at none of them.
THEOREM EveryReferenceOwned == Spec => []ReferencesOwned
<1> DEFINE Inv == part = "reference" => ReferenceInv
<1>1. Init => Inv
  BY ReferenceInit DEF Init
<1>2. Inv /\ [Next]_vars => Inv'
  BY OwnState, ReferenceStep
<1>3. ReferenceInv => R!ReferencesOwned /\ R!QueriesBounded
  BY ReferenceCardinality DEF ReferenceInv, QueriesLeft, NotSeen, OnItsWay, Owners, R!ReferencesOwned,
                              R!QueriesBounded
<1>4. Inv => ReferencesOwned
  BY <1>3 DEF ReferencesOwned
<1> QED
  BY <1>1, <1>2, <1>4, PTL DEF Spec

-----------------------------------------------------------------------------
(* PluginVersions.  VersionsAlike speaks of the moments between calls; the   *)
(* invariant says how far the loop of registerMethod() has come, and what    *)
(* the notes of a version have to do with its handler.                       *)

Registered == Methods \cup {"getQuirks"}

VersionsTypes ==
    /\ currVersion \in Nat /\ currVersion < MaxUint8
    /\ handlers = {1} \cup 2..currVersion
    /\ registered = [v \in V!Versions |-> registered[v]]
    /\ versionAPIs \in [V!Versions -> Seq(Registered)]
    /\ ended \in {"never", "just", "before"}

\* The next version, which may be the one after the last.
LoopPlace == loop # <<>> =>
    /\ loop \in Registered \X Nat
    /\ loop[2] >= 1 /\ (loop[2] = 1 \/ loop[2] <= currVersion + 1)

\* The versions that the loop has passed know the method, and else the same as the others.
AlikeSoFar ==
    /\ loop = <<>> => \A v, w \in handlers : registered[v] = registered[w]
    /\ loop # <<>> => \A v, w \in handlers :
          /\ v < loop[2] /\ w < loop[2] => registered[v] = registered[w]
          /\ v >= loop[2] /\ w >= loop[2] => registered[v] = registered[w]
          /\ v < loop[2] /\ w >= loop[2] => registered[v] = registered[w] \cup {loop[1]}

Noted(v) == V!ToSet(versionAPIs[v])

\* A handler knows nothing that is not noted, and all of it as long as nothing was repeated.
Notes ==
    /\ \A v \in handlers : registered[v] \subseteq Noted(v)
    /\ ended = "just" => \A v \in handlers : registered[v] = {}
    /\ ended = "never" /\ ~repeated => \A v \in handlers : V!IsInjective(versionAPIs[v]) /\ Noted(v) \subseteq registered[v]

VersionsInv ==
    /\ VersionsTypes /\ LoopPlace /\ AlikeSoFar /\ Notes
    /\ unknown \in BOOLEAN /\ repeated \in BOOLEAN
    /\ unknown => repeated

\* A uint8_t that is less than the greatest is increased.
LEMMA NextVersion ==
  ASSUME NEW ver \in Nat, ver < MaxUint8
  PROVE  (ver + 1) % (MaxUint8 + 1) = ver + 1
<1>1. \A n, m \in Nat : n < m => n % m = n
  OBVIOUS
<1> QED
  BY <1>1, VersionsAssumption

\* The handlers' keys are versions.
LEMMA HandlersAreVersions ==
  ASSUME VersionsTypes
  PROVE  /\ handlers \subseteq V!Versions
         /\ \A v \in handlers : v \in Nat /\ v >= 1 /\ (v <= currVersion \/ handlers = {1})
<1>1. /\ currVersion \in Nat /\ currVersion < MaxUint8 /\ MaxUint8 \in Nat /\ MaxUint8 >= 1
      /\ handlers = {1} \cup 2..currVersion
  BY VersionsAssumption DEF VersionsTypes
<1>2. handlers \subseteq V!Versions /\ \A v \in handlers : v \in Nat /\ v >= 1
  BY <1>1 DEF V!Versions
<1>3. CASE currVersion < 2
  <2>1. 2..currVersion = {}
    BY <1>1, <1>3
  <2> QED
    BY <1>1, <1>2, <2>1
<1>4. CASE ~(currVersion < 2)
  BY <1>1, <1>2, <1>4
<1> QED
  BY <1>3, <1>4

LEMMA NotedMore ==
  ASSUME NEW s \in Seq(Registered), NEW m \in Registered
  PROVE  /\ V!ToSet(Append(s, m)) = V!ToSet(s) \cup {m}
         /\ V!IsInjective(s) /\ ~V!Contains(s, m) => V!IsInjective(Append(s, m))
<1>1. /\ DOMAIN s = 1..Len(s) /\ Len(s) \in Nat /\ DOMAIN Append(s, m) = 1..(Len(s) + 1)
      /\ Append(s, m)[Len(s) + 1] = m /\ \A i \in 1..Len(s) : Append(s, m)[i] = s[i]
  OBVIOUS
<1>2. V!ToSet(Append(s, m)) = V!ToSet(s) \cup {m}
  BY <1>1 DEF V!ToSet
<1>3. ASSUME V!IsInjective(s), ~V!Contains(s, m) PROVE V!IsInjective(Append(s, m))
  <2>1. ASSUME NEW i \in DOMAIN Append(s, m), NEW j \in DOMAIN Append(s, m), Append(s, m)[i] = Append(s, m)[j]
        PROVE  i = j
    <3>1. \A k, n \in 1..Len(s) : s[k] = s[n] => k = n
      BY <1>1, <1>3 DEF V!IsInjective
    <3>2. \A k \in 1..Len(s) : s[k] # m
      BY <1>3 DEF V!Contains
    <3> QED
      BY <1>1, <2>1, <3>1, <3>2
  <2> QED
    BY <2>1 DEF V!IsInjective
<1> QED
  BY <1>2, <1>3

LEMMA VersionsInit == V!Init => VersionsInv
<1> SUFFICES ASSUME V!Init PROVE VersionsInv
  OBVIOUS
<1>1. VersionsTypes
  BY VersionsAssumption DEF V!Init, VersionsTypes
<1>2. LoopPlace /\ loop # <<>> /\ loop[2] = 1
  BY DEF V!Init, LoopPlace, Registered
<1>3. \A v \in handlers : registered[v] = {} /\ versionAPIs[v] = <<>>
  BY <1>1, HandlersAreVersions DEF V!Init
<1>4. AlikeSoFar
  <2>1. \A v \in handlers : v >= 1 /\ ~(v < 1)
    BY <1>1, HandlersAreVersions
  <2> QED
    BY <1>2, <1>3, <2>1 DEF AlikeSoFar
<1>5. Notes
  BY <1>3 DEF Notes, Noted, V!ToSet, V!IsInjective
<1> QED
  BY <1>1, <1>2, <1>4, <1>5 DEF V!Init, VersionsInv

LEMMA RegisterMethodStep ==
  ASSUME VersionsInv, NEW m \in Methods, V!registerMethod(m)
  PROVE  VersionsInv'
<1> USE DEF VersionsInv
<1>1. /\ loop = <<>> /\ loop' = <<m, 1>>
      /\ UNCHANGED <<currVersion, handlers, registered, versionAPIs, ended, unknown, repeated>>
  BY DEF V!registerMethod
<1>2. VersionsTypes' /\ Notes'
  BY <1>1 DEF VersionsTypes, Notes, Noted
<1>3. loop' # <<>> /\ loop'[2] = 1 /\ loop' \in Registered \X Nat
  BY <1>1 DEF Registered
<1>4. LoopPlace'
  BY <1>3 DEF LoopPlace
<1>5. AlikeSoFar'
  BY <1>1, <1>3, HandlersAreVersions DEF AlikeSoFar
<1> QED
  BY <1>1, <1>2, <1>4, <1>5

\* A turn of the loop, and its end.
LEMMA RegisterNextStep ==
  ASSUME VersionsInv, V!RegisterNext
  PROVE  VersionsInv'
<1> USE DEF VersionsInv
<1>0. PICK method \in Registered, ver \in Nat : loop # <<>> /\ loop[1] = method /\ loop[2] = ver
  BY DEF V!RegisterNext, LoopPlace
<1>1. /\ loop # <<>> /\ loop[1] = method /\ loop[2] = ver /\ ver >= 1
      /\ ver = 1 \/ ver <= currVersion + 1
      /\ currVersion \in Nat /\ currVersion < MaxUint8 /\ MaxUint8 \in Nat
      /\ UNCHANGED <<currVersion, handlers, unknown>>
  BY <1>0, VersionsAssumption DEF V!RegisterNext, LoopPlace, VersionsTypes
<1>2. CASE ver <= currVersion
  <2>1. /\ loop' = <<method, (ver + 1) % (MaxUint8 + 1)>> /\ ver \in handlers
        /\ registered' = [registered EXCEPT ![ver] = @ \cup {method}]
        /\ versionAPIs' = [versionAPIs EXCEPT ![ver] = Append(@, method)]
    BY <1>1, <1>2 DEF V!RegisterNext
  <2>2. /\ repeated' = (repeated \/ V!Contains(versionAPIs[ver], method))
        /\ ended' = IF ended = "never" THEN "never" ELSE "before"
    BY <1>1, <1>2 DEF V!RegisterNext
  <2>3. loop' = <<method, ver + 1>> /\ loop' # <<>> /\ loop'[1] = method /\ loop'[2] = ver + 1
    BY <1>1, <1>2, <2>1, NextVersion
  <2>4. ver \in V!Versions /\ versionAPIs[ver] \in Seq(Registered)
    BY <2>1, HandlersAreVersions DEF VersionsTypes
  <2>5. /\ \A v \in handlers : v # ver => registered'[v] = registered[v] /\ versionAPIs'[v] = versionAPIs[v]
        /\ registered'[ver] = registered[ver] \cup {method}
        /\ versionAPIs'[ver] = Append(versionAPIs[ver], method)
    BY <2>1, <2>4, HandlersAreVersions DEF VersionsTypes
  <2>6. VersionsTypes'
    <3>1. versionAPIs' \in [V!Versions -> Seq(Registered)]
      BY <1>1, <2>1, <2>4 DEF VersionsTypes
    <3>2. registered' = [v \in V!Versions |-> registered'[v]]
      BY <2>1 DEF VersionsTypes
    <3>3. ended' \in {"never", "just", "before"}
      BY <2>2
    <3> QED
      BY <1>1, <3>1, <3>2, <3>3 DEF VersionsTypes
  <2>7. LoopPlace'
    BY <1>1, <1>2, <2>3 DEF LoopPlace
  <2>8. AlikeSoFar'
    <3> SUFFICES ASSUME NEW v \in handlers, NEW w \in handlers
                 PROVE  /\ v < ver + 1 /\ w < ver + 1 => registered'[v] = registered'[w]
                        /\ v >= ver + 1 /\ w >= ver + 1 => registered'[v] = registered'[w]
                        /\ v < ver + 1 /\ w >= ver + 1 => registered'[v] = registered'[w] \cup {method}
      BY <1>1, <2>3 DEF AlikeSoFar
    <3>1. v \in Nat /\ w \in Nat
      BY HandlersAreVersions
    <3>2. v < ver => registered[v] = registered[ver] \cup {method}
      BY <1>1, <2>1 DEF AlikeSoFar
    <3>3. w < ver => registered[w] = registered[ver] \cup {method}
      BY <1>1, <2>1 DEF AlikeSoFar
    <3>4. v >= ver => registered[v] = registered[ver]
      BY <1>1, <2>1 DEF AlikeSoFar
    <3>5. w >= ver => registered[w] = registered[ver]
      BY <1>1, <2>1 DEF AlikeSoFar
    <3>6. v < ver + 1 => registered'[v] = registered[ver] \cup {method}
      BY <1>1, <2>5, <3>1, <3>2
    <3>7. w < ver + 1 => registered'[w] = registered[ver] \cup {method}
      BY <1>1, <2>5, <3>1, <3>3
    <3>8. v >= ver + 1 => registered'[v] = registered[ver]
      BY <1>1, <2>5, <3>1, <3>4
    <3>9. w >= ver + 1 => registered'[w] = registered[ver]
      BY <1>1, <2>5, <3>1, <3>5
    <3> QED
      BY <3>6, <3>7, <3>8, <3>9
  <2>9. Notes'
    <3>1. /\ Noted(ver)' = Noted(ver) \cup {method}
          /\ \A v \in handlers : v # ver => Noted(v)' = Noted(v)
      <4>1. V!ToSet(Append(versionAPIs[ver], method)) = V!ToSet(versionAPIs[ver]) \cup {method}
        BY <1>1, <2>4, NotedMore
      <4>2. V!ToSet(versionAPIs'[ver]) = V!ToSet(versionAPIs[ver]) \cup {method}
        BY <2>5, <4>1
      <4>3. Noted(ver)' = V!ToSet(versionAPIs'[ver])
        BY <1>1 DEF Noted, V!ToSet
      <4> QED
        BY <2>5, <4>2, <4>3 DEF Noted, V!ToSet
    <3>2. \A v \in handlers' : registered'[v] \subseteq Noted(v)'
      <4> SUFFICES ASSUME NEW v \in handlers PROVE registered'[v] \subseteq Noted(v)'
        BY <1>1
      <4>1. registered[v] \subseteq Noted(v)
        BY DEF Notes
      <4>2. CASE v = ver
        BY <2>5, <3>1, <4>1, <4>2
      <4>3. CASE v # ver
        BY <2>5, <3>1, <4>1, <4>3
      <4> QED
        BY <4>2, <4>3
    <3>3. ended' # "just"
      BY <2>2
    <3>4. ASSUME ended' = "never", ~repeated', NEW v \in handlers'
          PROVE  V!IsInjective(versionAPIs[v])' /\ Noted(v)' \subseteq registered'[v]
      <4>1. ended = "never" /\ ~repeated /\ ~V!Contains(versionAPIs[ver], method) /\ v \in handlers
        BY <1>1, <2>2, <3>4
      <4>2. \A w \in handlers : V!IsInjective(versionAPIs[w]) /\ Noted(w) \subseteq registered[w]
        BY <4>1 DEF Notes
      <4>3. CASE v = ver
        <5>1. V!IsInjective(versionAPIs'[ver])
          BY <1>1, <2>1, <2>4, <2>5, <4>1, <4>2, NotedMore
        <5>2. V!IsInjective(versionAPIs[v])'
          BY <4>3, <5>1 DEF V!IsInjective
        <5>3. Noted(v)' \subseteq registered'[v]
          BY <2>1, <2>5, <3>1, <4>2, <4>3
        <5> QED
          BY <5>2, <5>3
      <4>4. CASE v # ver
        <5>1. Noted(v)' \subseteq registered'[v]
          BY <2>5, <3>1, <4>1, <4>2, <4>4
        <5>2. V!IsInjective(versionAPIs[v])'
          BY <2>5, <4>1, <4>2, <4>4 DEF V!IsInjective
        <5> QED
          BY <5>1, <5>2
      <4> QED
        BY <4>3, <4>4
    <3> QED
      BY <3>2, <3>3, <3>4 DEF Notes
  <2>10. repeated' \in BOOLEAN /\ (unknown' => repeated') /\ unknown' \in BOOLEAN
    BY <1>1, <2>2 DEF V!Contains
  <2> QED
    BY <2>6, <2>7, <2>8, <2>9, <2>10
<1>3. CASE ~(ver <= currVersion)
  <2>1. loop' = <<>> /\ UNCHANGED <<registered, versionAPIs, ended, repeated>>
    BY <1>1, <1>3 DEF V!RegisterNext
  <2>2. \A v, w \in handlers : registered[v] = registered[w]
    <3>1. CASE handlers = {1}
      BY <3>1
    <3>2. CASE handlers # {1}
      <4>1. \A v \in handlers : v < ver
        BY <1>1, <1>3, <3>2, HandlersAreVersions
      <4> QED
        BY <1>1, <4>1 DEF AlikeSoFar
    <3> QED
      BY <3>1, <3>2
  <2>3. VersionsTypes' /\ LoopPlace' /\ Notes'
    BY <1>1, <2>1 DEF VersionsTypes, LoopPlace, Notes, Noted
  <2>4. AlikeSoFar'
    BY <1>1, <2>1, <2>2 DEF AlikeSoFar
  <2> QED
    BY <1>1, <2>1, <2>3, <2>4
<1> QED
  BY <1>2, <1>3

LEMMA DeinitializeStep ==
  ASSUME VersionsInv, V!Deinitialize
  PROVE  VersionsInv'
<1> USE DEF VersionsInv
<1>1. /\ loop = <<>> /\ ended' = "just" /\ UNCHANGED <<currVersion, handlers, versionAPIs, loop>>
      /\ registered' = [v \in V!Versions |-> registered[v] \ V!ToSet(versionAPIs[v])]
  BY DEF V!Deinitialize
<1>2. /\ unknown' = (unknown \/ \E v \in handlers :
                       ~V!IsInjective(versionAPIs[v]) \/ ~(V!ToSet(versionAPIs[v]) \subseteq registered[v]))
      /\ repeated' = (repeated \/ ended # "never")
  BY DEF V!Deinitialize
<1>3. \A v \in handlers : registered'[v] = {}
  BY <1>1, HandlersAreVersions DEF Notes, Noted
<1>4. VersionsTypes' /\ LoopPlace'
  BY <1>1 DEF VersionsTypes, LoopPlace
<1>5. AlikeSoFar' /\ Notes'
  <2>1. AlikeSoFar'
    <3>1. \A v, w \in handlers : registered'[v] = registered'[w]
      BY <1>3, Zenon
    <3>2. loop' = <<>> /\ handlers' = handlers
      BY <1>1, Zenon
    <3> QED
      BY <3>1, <3>2, Zenon DEF AlikeSoFar
  <2>2. Notes'
    BY <1>1, <1>3, Zenon DEF Notes
  <2> QED
    BY <2>1, <2>2
<1>6. unknown' \in BOOLEAN /\ repeated' \in BOOLEAN
  BY <1>2
<1>7. unknown' => repeated'
  BY <1>2 DEF Notes, Noted
<1> QED
  BY <1>4, <1>5, <1>6, <1>7

LEMMA VersionsStep == VersionsInv /\ [V!Next]_(V!vars) => VersionsInv'
<1> SUFFICES ASSUME VersionsInv, [V!Next]_(V!vars) PROVE VersionsInv'
  OBVIOUS
<1>1. CASE UNCHANGED V!vars
  <2>1. UNCHANGED <<currVersion, handlers, registered, versionAPIs, loop, ended, unknown, repeated>>
    BY <1>1 DEF V!vars
  <2>2. VersionsTypes'
    BY <2>1 DEF VersionsInv, VersionsTypes
  <2>4. LoopPlace' /\ AlikeSoFar'
    BY <2>1 DEF VersionsInv, LoopPlace, AlikeSoFar
  <2>3. Notes'
    BY <2>1 DEF VersionsInv, Notes, Noted
  <2> QED
    BY <2>1, <2>2, <2>3, <2>4 DEF VersionsInv
<1> QED
  BY <1>1, RegisterMethodStep, RegisterNextStep, DeinitializeStep DEF V!Next

\* However many versions an API has, as long as they are counted in a uint8_t, and whatever is
\* registered and unregistered: all versions know the same methods, and none at the end.
THEOREM AllVersionsAlike == Spec => []VersionsAlike
<1> DEFINE Inv == part = "versions" => VersionsInv
<1>1. Init => Inv
  BY VersionsInit DEF Init
<1>2. Inv /\ [Next]_vars => Inv'
  BY OwnState, VersionsStep
<1>3. Inv => VersionsAlike
  BY DEF VersionsInv, AlikeSoFar, Notes, V!VersionsAlike, VersionsAlike
<1> QED
  BY <1>1, <1>2, <1>3, PTL DEF Spec

-----------------------------------------------------------------------------
(* MoveFile.  While a copy is under way the source is whole, and the target, *)
(* which was not there, is what has been copied of it.                       *)

Copied(n) == n \in Nat /\ n <= Len(Content) /\ to = SubSeq(Content, 1, n)

MoveInv ==
    /\ from \in {Content, None}
    /\ misread \in BOOLEAN /\ checked \in BOOLEAN /\ undestroyed \in BOOLEAN
    /\ checked => from = Content /\ to \in {None, Other} /\ found = None /\ result = None /\ done = None
    /\ done # None => from = Content /\ found = None /\ result = None /\ ~checked /\ Copied(done)
    /\ misread \/ from = Content \/ to = Content
    /\ found = Other => to \in {Other, None}
    /\ result = FALSE => to \in {found, None, Other} \/ undestroyed

LEMMA ContentIsSeq == Content = SubSeq(Content, 1, Len(Content)) /\ Len(Content) \in Nat
BY FilesAssumption

\* A chunk more is copied.
LEMMA CopiedMore ==
  ASSUME NEW n \in Nat, n < Len(Content)
  PROVE  Append(SubSeq(Content, 1, n), Content[n + 1]) = SubSeq(Content, 1, n + 1)
BY FilesAssumption

LEMMA MoveInit == MF!Init => MoveInv
BY FilesAssumption DEF MF!Init, MoveInv

LEMMA MoveStep == MoveInv /\ [MF!Next]_(MF!vars) => MoveInv'
<1> SUFFICES ASSUME MoveInv, [MF!Next]_(MF!vars) PROVE MoveInv'
  OBVIOUS
<1> USE DEF MoveInv
<1>1. CASE MF!Refuse
  BY <1>1, FilesAssumption DEF MF!Refuse, MF!Looks, MF!Idle
<1>2. CASE MF!Check
  BY <1>2, FilesAssumption DEF MF!Check, MF!Looks, MF!Idle
<1>3. CASE MF!OpenFails
  BY <1>3, FilesAssumption DEF MF!OpenFails
<1>4. CASE MF!Create
  <2>1. /\ from = Content /\ found = None /\ result = None /\ checked' = FALSE
        /\ from' = from /\ result' = result /\ found' = found /\ misread' = misread
        /\ undestroyed' = undestroyed /\ to' = <<>> /\ done' = 0
    BY <1>4 DEF MF!Create
  <2>2. to' = SubSeq(Content, 1, 0)
    BY <2>1, FilesAssumption
  <2>3. Copied(done)'
    BY <2>1, <2>2, ContentIsSeq DEF Copied
  <2> QED
    BY <2>1, <2>3, FilesAssumption
<1>5. CASE MF!CopyChunk
  <2>1. /\ done \in Nat /\ done < Len(Content) /\ from = Content /\ found = None /\ result = None
        /\ ~checked /\ checked' = checked /\ undestroyed' = undestroyed
        /\ to' = Append(SubSeq(Content, 1, done), Content[done + 1]) /\ done' = done + 1
        /\ from' = from /\ result' = result /\ found' = found /\ misread' = misread
    BY <1>5 DEF MF!CopyChunk, Copied
  <2>2. to' = SubSeq(Content, 1, done + 1) /\ done + 1 <= Len(Content)
    BY <2>1, CopiedMore, ContentIsSeq
  <2>3. Copied(done)'
    BY <2>1, <2>2 DEF Copied
  <2> QED
    BY <2>1, <2>3, FilesAssumption
<1>6. CASE MF!WriteFails
  BY <1>6, FilesAssumption DEF MF!WriteFails
<1>7. CASE MF!ReadEnds
  <2>1. /\ from = Content /\ found = None /\ Copied(done) /\ ~checked /\ checked' = checked
        /\ from' \in {None, from} /\ done' = None /\ result' = TRUE /\ to' = to /\ found' = found
        /\ misread' = (misread \/ done < Len(from)) /\ undestroyed' = undestroyed
    BY <1>7 DEF MF!ReadEnds
  <2>2. ~(done < Len(from)) => to = Content
    <3> SUFFICES ASSUME ~(done < Len(from)) PROVE to = Content
      OBVIOUS
    <3>1. \A m, n \in Nat : n <= m /\ ~(n < m) => n = m
      OBVIOUS
    <3>2. done \in Nat /\ done <= Len(Content) /\ ~(done < Len(Content))
      BY <2>1 DEF Copied
    <3>3. done = Len(Content)
      BY <3>1, <3>2, ContentIsSeq
    <3> QED
      BY <2>1, <3>3, ContentIsSeq DEF Copied
  <2> QED
    BY <2>1, <2>2, FilesAssumption
<1>8. CASE MF!Dies
  BY <1>8, FilesAssumption DEF MF!Dies, MF!Idle
<1>9. CASE MF!TargetRemoved
  BY <1>9 DEF MF!TargetRemoved
<1>10. CASE MF!OtherCreates
  BY <1>10, FilesAssumption DEF MF!OtherCreates
<1>11. CASE UNCHANGED MF!vars
  BY <1>11 DEF MF!vars, Copied
<1> QED
  BY <1>1, <1>2, <1>3, <1>4, <1>5, <1>6, <1>7, <1>8, <1>9, <1>10, <1>11 DEF MF!Next

\* However often MoveFile() is tried, in whatever step it fails or dies, whoever uses the target's
\* name meanwhile and whether or not the two files can be destroyed, for files of any length: one of
\* the two has the whole content unless a read failed, a file that was there when a call looked is
\* not written to, and a call that fails leaves no target but one that it could not destroy.
THEOREM MovedOrKept == Spec => []NothingLost
<1> DEFINE Inv == part = "move" => MoveInv
<1>1. Init => Inv
  BY MoveInit DEF Init
<1>2. Inv /\ [Next]_vars => Inv'
  BY OwnState, MoveStep
<1>3. Inv => NothingLost
  BY DEF MoveInv, MF!NothingLost, NothingLost
<1> QED
  BY <1>1, <1>2, <1>3, PTL DEF Spec

-----------------------------------------------------------------------------
(* PersistedJson.  PersistedWhole looks at the file before the sync; the     *)
(* invariant follows a call that met no other one from what it read to that. *)

JsonSteps == {"idle", "destroy", "create", "write", "sync"}

JsonTypes ==
    /\ at \in [Threads -> JsonSteps]
    /\ before = [c \in Threads |-> before[c]]
    /\ cecSetting = [c \in Threads |-> cecSetting[c]]

Undisturbed(c) ==
    /\ at[c] # "idle" /\ \A d \in Threads \ {c} : at[d] = "idle"
    /\ cecSetting[c] = PJ!Put(before[c][1], before[c][2], before[c][3])
    /\ at[c] = "write" => c \in linked
    /\ at[c] = "sync" => cached = cecSetting[c]

JsonInv ==
    /\ JsonTypes
    /\ \A c \in Threads : before[c] # None => Undisturbed(c)
    /\ PJ!Idle /\ ~cut => durable = cached

LEMMA JsonInit == PJ!Init => JsonInv
BY DEF PJ!Init, JsonInv, JsonTypes, JsonSteps

\* A call that goes on is the only undisturbed one, if there is any.
LEMMA NoOtherUndisturbed ==
  ASSUME JsonInv, NEW c \in Threads, at[c] # "idle", NEW d \in Threads, d # c
  PROVE  before[d] = None
BY DEF JsonInv, Undisturbed

LEMMA JsonCallStep ==
  ASSUME JsonInv, NEW c \in Threads,
         \/ \E k \in JsonKeys, v \in JsonValues : PJ!Read(c, k, v)
         \/ PJ!Destroy(c) \/ PJ!Create(c) \/ PJ!ToFile(c) \/ PJ!syncPersistFile(c)
  PROVE  JsonInv'
<1> USE DEF JsonInv, JsonTypes, JsonSteps, PJ!Go
<1>1. ASSUME NEW k \in JsonKeys, NEW v \in JsonValues, PJ!Read(c, k, v) PROVE JsonInv'
  <2>1. /\ at[c] = "idle" /\ at' = [at EXCEPT ![c] = "destroy"]
        /\ cecSetting' = [cecSetting EXCEPT ![c] = PJ!Put(PJ!FromFile(cached), k, v)]
        /\ before' = IF PJ!Idle THEN [before EXCEPT ![c] = <<PJ!FromFile(cached), k, v>>]
                     ELSE [d \in Threads |-> None]
    BY <1>1 DEF PJ!Read
  <2>2. JsonTypes' /\ ~PJ!Idle'
    BY <2>1 DEF PJ!Idle
  <2>3. ASSUME NEW d \in Threads, before'[d] # None PROVE Undisturbed(d)'
    <3>1. PJ!Idle
      BY <2>1, <2>3
    <3>2. d = c
      BY <2>1, <2>3, <3>1 DEF PJ!Idle, Undisturbed
    <3>3. before'[c] = <<PJ!FromFile(cached), k, v>>
      BY <2>1, <3>1
    <3>4. cecSetting'[c] = PJ!Put(before'[c][1], before'[c][2], before'[c][3])
      BY <2>1, <3>3
    <3> QED
      BY <2>1, <3>1, <3>2, <3>4 DEF PJ!Idle, PJ!Put, Undisturbed
  <2> QED
    BY <2>2, <2>3
<1>2. CASE PJ!Destroy(c)
  BY <1>2, NoOtherUndisturbed DEF PJ!Destroy, PJ!Idle, Undisturbed
<1>3. CASE PJ!Create(c)
  BY <1>3, NoOtherUndisturbed DEF PJ!Create, PJ!Idle, Undisturbed
<1>4. CASE PJ!ToFile(c)
  BY <1>4, NoOtherUndisturbed DEF PJ!ToFile, PJ!Idle, Undisturbed
<1>5. CASE PJ!syncPersistFile(c)
  BY <1>5, NoOtherUndisturbed DEF PJ!syncPersistFile, PJ!Idle, Undisturbed
<1> QED
  BY <1>1, <1>2, <1>3, <1>4, <1>5

LEMMA JsonStep == JsonInv /\ [PJ!Next]_(PJ!vars) => JsonInv'
<1> SUFFICES ASSUME JsonInv, [PJ!Next]_(PJ!vars) PROVE JsonInv'
  OBVIOUS
<1> USE DEF JsonInv, JsonTypes, JsonSteps
<1>1. CASE PJ!WriteBack
  BY <1>1 DEF PJ!WriteBack, PJ!Idle, Undisturbed
<1>2. CASE PJ!ProcessDies
  BY <1>2 DEF PJ!ProcessDies, PJ!Ends
<1>3. CASE PJ!PowerFails
  BY <1>3 DEF PJ!PowerFails, PJ!Ends
<1>4. CASE UNCHANGED PJ!vars
  BY <1>4 DEF PJ!vars, PJ!Idle, Undisturbed
<1> QED
  BY <1>1, <1>2, <1>3, <1>4, JsonCallStep DEF PJ!Next

\* A call of persistJsonSettings() that meets no other and no error keeps all keys but its own,
\* whatever callers, kernel and power do before and after, and what it has synced stays.
THEOREM JsonKept == Spec => []PersistedWhole
<1> DEFINE Inv == part = "persisted" => JsonInv
<1>1. Init => Inv
  BY JsonInit DEF Init
<1>2. Inv /\ [Next]_vars => Inv'
  BY OwnState, JsonStep
<1>3. Inv => PersistedWhole
  BY DEF JsonInv, Undisturbed, PJ!PersistedWhole, PersistedWhole
<1> QED
  BY <1>1, <1>2, <1>3, PTL DEF Spec

-----------------------------------------------------------------------------
(* Settings.  SavedIsRead speaks of the memory; the invariant says the same  *)
(* of the file and what a write has still to add to it: a key whose value is *)
(* kept has no line with another value, and has its line unless it is lost.  *)

Texting == Seq(STRING) \ {<<>>}
Lines == {l \in Seq(STRING) : Len(l) >= 2}
Written == {k \o v : k \in Names, v \in Strings}

SettingsTypes ==
    /\ alive \in BOOLEAN
    /\ DOMAIN settings \subseteq Texting /\ \A k \in DOMAIN settings : settings[k] \in Texting
    /\ \A k \in S!NotEmpty(settings) : k \o settings[k] \in Written
    /\ lines # None => lines \subseteq Written
    /\ kept = [k \in Names |-> kept[k]] /\ \A k \in Names : kept[k] # None => kept[k] \in Texting

\* What the memory has of a key, or the empty value.
Held(data, k) == IF k \in DOMAIN data THEN data[k] ELSE S!NoValue

KeptInMemory == alive => \A k \in Names : kept[k] # None =>
    Held(settings, k) = kept[k] \/ (k \in lost /\ Held(settings, k) = S!NoValue)

\* The file as it is when the write under way has ended.
WholeFile == IF unwritten = None THEN lines ELSE lines \cup unwritten

OnlyKept(k) == \A l \in WholeFile : S!Front(l) = k => kept[k] # S!NoValue /\ l = k \o kept[k]

KeptInFile == \A k \in Names : kept[k] # None =>
    /\ lines # None
    /\ OnlyKept(k)
    /\ k \in lost \/ kept[k] = S!NoValue \/ k \o kept[k] \in WholeFile

ToWrite(data) == {key \o data[key] : key \in S!NotEmpty(data)}

Writing == unwritten # None =>
    /\ alive /\ lines # None
    /\ lines \cup unwritten \subseteq ToWrite(settings)

SettingsInv == SettingsTypes /\ KeptInMemory /\ KeptInFile /\ Writing

LEMMA NamesAndStrings ==
  /\ \A k \in Names : k \in Seq(STRING) /\ Len(k) = 1
  /\ \A v \in Strings : v \in Seq(STRING) /\ v # <<>>
  /\ \A X \in SUBSET Written : X # None
<1>1. \A k \in Names : k \in Seq(STRING) /\ Len(k) = 1
  BY SettingsAssumption, Zenon
<1>2. \A v \in Strings : v \in Seq(STRING) /\ v # <<>>
  BY SettingsAssumption, Zenon
<1>3. \A X \in SUBSET Written : X # None
  BY NoFileAssumption DEF Written
<1> QED
  BY <1>1, <1>2, <1>3

\* The line of a key and a value, taken apart.
LEMMA LineOfKey ==
  ASSUME NEW k \in Texting, NEW v \in Texting
  PROVE  k \o v \in Lines /\ (Len(v) = 1 => S!Front(k \o v) = k)
<1>1. /\ k \o v \in Seq(STRING) /\ Len(k \o v) = Len(k) + Len(v) /\ Len(k) \in Nat /\ Len(v) \in Nat
      /\ Len(k) >= 1 /\ Len(v) >= 1
  BY EmptySeq DEF Texting
<1>2. ASSUME Len(v) = 1 PROVE S!Front(k \o v) = k
  BY <1>1, <1>2 DEF S!Front, Texting
<1> QED
  BY <1>1, <1>2 DEF Lines

LEMMA KeyOfLine ==
  ASSUME NEW l \in Lines
  PROVE  S!Front(l) \in Texting /\ <<S!Last(l)>> \in Texting
<1>1. Len(l) \in Nat /\ Len(l) >= 2 /\ l \in Seq(STRING)
  BY DEF Lines
<1>2. S!Front(l) \in Seq(STRING) /\ Len(S!Front(l)) = Len(l) - 1
  BY <1>1 DEF S!Front
<1>3. S!Last(l) \in STRING
  BY <1>1 DEF S!Last
<1> QED
  BY <1>1, <1>2, <1>3 DEF Texting

\* A key of one string has the lines of no other key.
LEMMA KeysApart ==
  ASSUME NEW k \in Names, NEW key \in Texting, NEW v \in Texting, S!Front(key \o v) = k
  PROVE  key = k /\ Len(v) = 1
<1>1. /\ Len(key) \in Nat /\ Len(key) >= 1 /\ Len(v) \in Nat /\ Len(v) >= 1
      /\ key \in Seq(STRING) /\ v \in Seq(STRING)
  BY EmptySeq DEF Texting
<1>2. key \o v \in Seq(STRING) /\ Len(key \o v) = Len(key) + Len(v)
  BY <1>1
<1>3. Len(S!Front(key \o v)) = Len(key) + Len(v) - 1
  BY <1>1, <1>2 DEF S!Front
<1>4. Len(key) + Len(v) - 1 = 1
  BY <1>3, NamesAndStrings
<1>5. \A m, n \in Nat : m >= 1 /\ n >= 1 /\ m + n - 1 = 1 => m = 1 /\ n = 1
  OBVIOUS
<1>6. Len(v) = 1 /\ Len(key) = 1
  BY <1>1, <1>4, <1>5
<1> QED
  BY <1>6, LineOfKey

LEMMA SameKeySameValue ==
  ASSUME NEW k \in Texting, NEW v \in Texting, NEW w \in Texting, k \o v = k \o w
  PROVE  v = w
BY ConcatSimplifications DEF Texting

LEMMA NamesAreTexting ==
  /\ \A k \in Names : k \in Texting
  /\ \A v \in Strings : v \in Texting
  /\ S!NoValue \in Texting /\ Len(S!NoValue) = 1
<1>1. \A A : \A s \in A : <<s>> \in Seq(A) /\ <<s>> # <<>> /\ Len(<<s>>) = 1
  OBVIOUS
<1>2. \A k \in Names : k \in Texting
  BY NamesAndStrings DEF Texting
<1>3. \A v \in Strings : v \in Texting
  BY NamesAndStrings DEF Texting
<1>4. S!NoValue \in Texting /\ Len(S!NoValue) = 1
  BY <1>1, EmptyString, Zenon DEF S!NoValue, Texting
<1> QED
  BY <1>2, <1>3, <1>4

LEMMA WrittenAreLines == Written \subseteq Lines
<1> SUFFICES ASSUME NEW l \in Written PROVE l \in Lines
  OBVIOUS
<1>1. PICK k \in Names, v \in Strings : l = k \o v
  BY DEF Written
<1>2. k \in Texting /\ v \in Texting
  BY NamesAreTexting
<1> QED
  BY <1>1, <1>2, LineOfKey

LEMMA SettingsInit == S!Init => SettingsInv
BY DEF S!Init, S!NoData, S!NotEmpty, SettingsInv, SettingsTypes, KeptInMemory, KeptInFile, Writing

\* The line of a key among those to write is that of its value in memory.
LEMMA LineToWrite ==
  ASSUME NEW data, DOMAIN data \subseteq Texting, \A key \in DOMAIN data : data[key] \in Texting,
         NEW k \in Names, NEW l \in ToWrite(data), S!Front(l) = k
  PROVE  k \in S!NotEmpty(data) /\ l = k \o data[k]
<1>1. PICK key \in S!NotEmpty(data) : l = key \o data[key]
  BY DEF ToWrite
<1>2. key \in Texting /\ data[key] \in Texting
  BY <1>1 DEF S!NotEmpty
<1>3. key = k
  BY <1>1, <1>2, KeysApart
<1> QED
  BY <1>1, <1>3

\* What a plugin that starts reads of a key is what was kept, or nothing if the key is lost.
LEMMA ConstructStep ==
  ASSUME SettingsInv, S!Construct
  PROVE  SettingsInv'
<1> USE DEF SettingsInv
<1>0. /\ ~alive /\ alive' /\ alive' \in BOOLEAN /\ unwritten' = unwritten /\ unwritten = None
      /\ kept' = kept
  BY DEF S!Construct, Writing
<1>1. CASE /\ lines # None /\ settings' \in S!readFromFile(lines) /\ lines' = lines
           /\ lost' = S!Parted \cup {k \in lost : kept[k] # None /\ k \o kept[k] \notin lines}
  <2>2. /\ DOMAIN settings' = {S!Front(l) : l \in lines}
        /\ \A k \in DOMAIN settings' : /\ settings'[k] \in {<<S!Last(l)>> : l \in lines}
                                       /\ k \o settings'[k] \in lines
    BY <1>1 DEF S!readFromFile
  <2>3. lines \subseteq Written /\ lines \subseteq Lines
    BY <1>1, WrittenAreLines DEF SettingsTypes
  <2>4. SettingsTypes'
    BY <1>0, <1>1, <2>2, <2>3, KeyOfLine DEF SettingsTypes, S!NotEmpty
  <2>5. ASSUME NEW k \in Names, kept[k] # None
        PROVE  /\ k \in S!Parted => k \in lost' /\ k \notin DOMAIN settings'
               /\ k \notin S!Parted => k \in lost' <=> (k \in lost /\ k \o kept[k] \notin lines)
    <3>1. k \in S!Parted => k \in lost'
      BY <1>1
    <3>2. k \notin S!Parted => k \in lost' <=> (k \in lost /\ k \o kept[k] \notin lines)
      BY <1>1, <2>5
    <3>3. ASSUME k \in S!Parted, k \in DOMAIN settings' PROVE FALSE
      <4>1. PICK l \in lines : S!Front(l) = k
        BY <2>2, <3>3
      <4>2. l = k \o kept[k]
        BY <1>0, <2>5, <4>1 DEF KeptInFile, OnlyKept, WholeFile
      <4>3. k \in Texting /\ kept[k] \in Texting
        BY <2>5, NamesAreTexting DEF SettingsTypes
      <4>4. Len(kept[k]) = 1
        BY <4>1, <4>2, <4>3, KeysApart
      <4>5. Len(kept[k]) > 1
        BY <3>3 DEF S!Parted
      <4>6. ~(1 > 1)
        OBVIOUS
      <4> QED
        BY <4>4, <4>5, <4>6
    <3> QED
      BY <3>1, <3>2, <3>3
  <2>6. ASSUME NEW k \in Names, kept[k] # None
        PROVE  Held(settings', k) = kept[k] \/ (k \in lost' /\ Held(settings', k) = S!NoValue)
    <3>1. kept[k] \in Texting /\ k \in Texting /\ OnlyKept(k)
      BY <2>6, NamesAreTexting DEF KeptInFile, SettingsTypes
    <3>2. CASE k \in DOMAIN settings'
      <4>1. settings'[k] \in Texting /\ Len(settings'[k]) = 1 /\ k \o settings'[k] \in lines
        BY <2>2, <2>3, <3>2, KeyOfLine
      <4>2. S!Front(k \o settings'[k]) = k
        BY <3>1, <4>1, LineOfKey
      <4>3. k \o settings'[k] = k \o kept[k]
        BY <1>0, <3>1, <4>1, <4>2 DEF OnlyKept, WholeFile
      <4>4. settings'[k] = kept[k]
        BY <3>1, <4>1, <4>3, SameKeySameValue
      <4> QED
        BY <3>2, <4>4 DEF Held
    <3>3. CASE k \notin DOMAIN settings'
      <4>1. Held(settings', k) = S!NoValue
        BY <3>3 DEF Held
      <4>2. CASE k \in S!Parted
        BY <2>5, <2>6, <4>1, <4>2
      <4>3. CASE k \notin S!Parted /\ kept[k] # S!NoValue
        <5>1. Len(kept[k]) = 1
          <6>1. ~(Len(kept[k]) > 1)
            BY <2>6, <4>3 DEF S!Parted
          <6>2. Len(kept[k]) \in Nat /\ Len(kept[k]) # 0
            BY <3>1, EmptySeq DEF Texting
          <6>3. \A n \in Nat : n # 0 /\ ~(n > 1) => n = 1
            OBVIOUS
          <6> QED
            BY <6>1, <6>2, <6>3
        <5>2. k \o kept[k] \notin lines
          <6>1. S!Front(k \o kept[k]) = k
            BY <3>1, <5>1, LineOfKey
          <6> QED
            BY <2>2, <3>3, <6>1
        <5>3. k \in lost
          BY <1>0, <2>6, <4>3, <5>2 DEF KeptInFile, WholeFile
        <5> QED
          BY <2>5, <2>6, <4>1, <4>3, <5>2, <5>3
      <4> QED
        BY <4>1, <4>2, <4>3
    <3> QED
      BY <3>2, <3>3
  <2>7. KeptInMemory'
    BY <1>0, <2>6 DEF KeptInMemory
  <2>8. KeptInFile'
    BY <1>0, <1>1, <2>5 DEF KeptInFile, OnlyKept, WholeFile
  <2>9. Writing'
    BY <1>0 DEF Writing
  <2> QED
    BY <2>4, <2>7, <2>8, <2>9
<1>2. CASE settings' = S!NoData /\ \/ lines = None /\ lines' = {} /\ lost' = lost
                                   \/ lines' = lines /\ lost' = Names
  <2>1. SettingsTypes'
    BY <1>0, <1>2 DEF SettingsTypes, S!NoData, S!NotEmpty
  <2>2. KeptInFile'
    BY <1>0, <1>2 DEF KeptInFile, OnlyKept, WholeFile
  <2>3. KeptInMemory'
    BY <1>0, <1>2 DEF KeptInMemory, KeptInFile, Held, S!NoData
  <2>4. Writing'
    BY <1>0 DEF Writing
  <2> QED
    BY <2>1, <2>2, <2>3, <2>4
<1> QED
  BY <1>1, <1>2 DEF S!Construct

\* A change of one key, with what writeToFile() does first.
LEMMA ChangeStep ==
  ASSUME SettingsInv, NEW k \in Names,
         alive, unwritten = None, alive' = alive, lost' = lost,
         DOMAIN settings' \subseteq DOMAIN settings \cup {k},
         \A key \in DOMAIN settings' : settings'[key] \in Texting,
         \A key \in S!NotEmpty(settings') : key \o settings'[key] \in Written,
         \A key \in Names \ {k} : Held(settings', key) = Held(settings, key),
         S!writeToFile(settings', k)
  PROVE  SettingsInv'
<1> USE DEF SettingsInv
<1>1. DOMAIN settings' \subseteq Texting
  BY NamesAreTexting DEF SettingsTypes
<1>2. CASE /\ lines # None /\ lines' = {}
           /\ unwritten' = {key \o settings'[key] : key \in S!NotEmpty(settings')}
           /\ kept' = S!Saving(settings', k)
  <2>1. /\ kept' = [key \in Names |-> kept'[key]]
        /\ \A key \in Names \ {k} : kept'[key] = kept[key]
        /\ kept'[k] # None => kept'[k] = S!NoValue /\ k \notin S!NotEmpty(settings')
    BY <1>2 DEF SettingsTypes, S!Saving
  <2>2. SettingsTypes'
    BY <1>1, <1>2, <2>1, NamesAreTexting DEF SettingsTypes
  <2>3. KeptInMemory'
    <3>1. kept'[k] # None => Held(settings', k) = kept'[k]
      BY <2>1 DEF Held, S!NotEmpty
    <3> QED
      BY <2>1, <3>1 DEF KeptInMemory
  <2>4. unwritten' = ToWrite(settings') /\ lines' # None /\ unwritten' # None /\ WholeFile' = ToWrite(settings')
    <3>1. unwritten' = ToWrite(settings') /\ ToWrite(settings') \subseteq Written /\ lines' \subseteq Written
      BY <1>2 DEF ToWrite
    <3>2. lines' # None /\ unwritten' # None
      BY <3>1, NamesAndStrings
    <3> QED
      BY <1>2, <3>1, <3>2 DEF WholeFile
  <2>5. Writing'
    BY <1>2, <2>4 DEF Writing
  <2>6. ASSUME NEW key \in Names, kept'[key] # None
        PROVE  /\ OnlyKept(key)'
               /\ key \in lost \/ kept'[key] = S!NoValue \/ key \o kept'[key] \in WholeFile'
    <3>1. Held(settings', key) = kept'[key] \/ (key \in lost /\ Held(settings', key) = S!NoValue)
      BY <2>3, <2>6 DEF KeptInMemory
    <3>2. ASSUME NEW l \in WholeFile', S!Front(l) = key
          PROVE  kept'[key] # S!NoValue /\ l = key \o kept'[key]
      <4>1. key \in S!NotEmpty(settings') /\ l = key \o settings'[key]
        BY <1>1, <2>4, <3>2, LineToWrite
      <4> QED
        BY <3>1, <4>1 DEF Held, S!NotEmpty
    <3>3. ASSUME key \notin lost, kept'[key] # S!NoValue PROVE key \o kept'[key] \in WholeFile'
      <4>1. key \in S!NotEmpty(settings') /\ settings'[key] = kept'[key]
        BY <3>1, <3>3 DEF Held, S!NotEmpty
      <4> QED
        BY <2>4, <4>1 DEF ToWrite
    <3> QED
      BY <3>2, <3>3 DEF OnlyKept
  <2>7. KeptInFile'
    BY <2>4, <2>6 DEF KeptInFile
  <2> QED
    BY <2>2, <2>3, <2>5, <2>7
<1>3. CASE kept' = [kept EXCEPT ![k] = None] /\ lines' = lines /\ unwritten' = unwritten
  <2>1. kept' = [key \in Names |-> kept'[key]] /\ \A key \in Names : kept'[key] # None => kept'[key] = kept[key] /\ key # k
    BY <1>3 DEF SettingsTypes
  <2>2. SettingsTypes'
    BY <1>1, <1>3, <2>1 DEF SettingsTypes
  <2>3. KeptInMemory'
    BY <2>1 DEF KeptInMemory
  <2>4. KeptInFile'
    BY <1>3, <2>1 DEF KeptInFile, OnlyKept, WholeFile
  <2>5. Writing'
    BY <1>3 DEF Writing
  <2> QED
    BY <2>2, <2>3, <2>4, <2>5
<1> QED
  BY <1>2, <1>3 DEF S!writeToFile, S!NotSaved

\* A line is written: its key has that value, and is lost no longer.
LEMMA WriteLineStep ==
  ASSUME SettingsInv, unwritten # None, NEW l \in unwritten, S!WriteLine(l)
  PROVE  SettingsInv'
<1> USE DEF SettingsInv
<1>1. /\ lines' = lines \cup {l} /\ unwritten' = unwritten \ {l}
      /\ kept' = [k \in Names |-> IF k \in S!KeysOf({l}) THEN settings[k] ELSE kept[k]]
      /\ lost' = lost \ S!KeysOf({l})
      /\ settings' = settings /\ alive' = alive
  BY DEF S!WriteLine
<1>2. alive /\ lines # None /\ lines \cup unwritten \subseteq ToWrite(settings)
  BY DEF Writing
<1>3. ToWrite(settings) \subseteq Written
  BY DEF ToWrite, SettingsTypes
<1>4. lines' \subseteq Written /\ unwritten' \subseteq Written /\ lines' # None /\ unwritten' # None
  <2>1. lines' \subseteq Written /\ unwritten' \subseteq Written
    BY <1>1, <1>2, <1>3
  <2> QED
    BY <2>1, NamesAndStrings
<1>5. WholeFile' = WholeFile
  BY <1>1, <1>4 DEF WholeFile
<1>6. SettingsTypes'
  BY <1>1, <1>4 DEF SettingsTypes, S!KeysOf
<1>7. KeptInMemory'
  BY <1>1 DEF KeptInMemory, Held, S!KeysOf
<1>8. Writing'
  BY <1>1, <1>2, <1>4 DEF Writing
<1>9. ASSUME NEW k \in Names, kept'[k] # None
      PROVE  /\ OnlyKept(k)'
             /\ k \in lost' \/ kept'[k] = S!NoValue \/ k \o kept'[k] \in WholeFile'
  <2>1. CASE k \in S!KeysOf({l})
    <3>1. kept'[k] = settings[k] /\ k \o kept'[k] = l /\ l \in WholeFile'
      BY <1>1, <1>5, <2>1 DEF S!KeysOf, WholeFile
    <3>2. ASSUME NEW m \in WholeFile', S!Front(m) = k
          PROVE  kept'[k] # S!NoValue /\ m = k \o kept'[k]
      <4>1. m \in ToWrite(settings)
        BY <1>2, <1>5, <3>2 DEF WholeFile
      <4>2. k \in S!NotEmpty(settings) /\ m = k \o settings[k]
        BY <3>2, <4>1, LineToWrite DEF SettingsTypes
      <4> QED
        BY <3>1, <4>2 DEF S!NotEmpty
    <3> QED
      BY <3>1, <3>2 DEF OnlyKept
  <2>2. CASE k \notin S!KeysOf({l})
    <3>1. kept'[k] = kept[k] /\ (k \in lost' <=> k \in lost)
      BY <1>1, <2>2
    <3> QED
      BY <1>5, <1>9, <3>1 DEF KeptInFile, OnlyKept
  <2> QED
    BY <2>1, <2>2
<1>10. KeptInFile'
  BY <1>4, <1>9 DEF KeptInFile
<1> QED
  BY <1>6, <1>7, <1>8, <1>10

\* A write is cut short: the keys of the lines that are missing are lost.
LEMMA CutShort ==
  ASSUME SettingsInv, unwritten # None, lines' = lines, kept' = kept,
         lost' = lost \cup S!KeysOf(unwritten),
         \/ unwritten' = None
         \/ unwritten' = {}
  PROVE  KeptInFile'
<1> USE DEF SettingsInv
<1>1. alive /\ lines # None
  BY DEF Writing
<1>2. WholeFile' = lines
  BY DEF WholeFile
<1>3. ASSUME NEW k \in Names, kept[k] # None, k \notin lost', kept[k] # S!NoValue
      PROVE  k \o kept[k] \in lines
  <2>1. k \notin lost /\ k \notin S!KeysOf(unwritten)
    BY <1>3
  <2>2. k \o kept[k] \in lines \cup unwritten
    BY <1>3, <2>1 DEF KeptInFile, WholeFile
  <2>3. Held(settings, k) = kept[k]
    BY <1>1, <1>3, <2>1 DEF KeptInMemory
  <2>4. k \in DOMAIN settings /\ settings[k] = kept[k]
    BY <1>3, <2>3 DEF Held
  <2> QED
    BY <2>1, <2>2, <2>4 DEF S!KeysOf
<1> QED
  BY <1>1, <1>2, <1>3 DEF KeptInFile, OnlyKept, WholeFile

LEMMA SettingsEnds ==
  ASSUME SettingsInv, S!WriteFails \/ S!WriteEnds \/ S!Dies
  PROVE  SettingsInv'
<1> USE DEF SettingsInv
<1>0. {} # None
  BY NamesAndStrings
<1>1. CASE S!WriteFails
  <2>1. /\ unwritten # None /\ unwritten' = {} /\ lost' = lost \cup S!KeysOf(unwritten)
        /\ settings' = settings /\ lines' = lines /\ alive' = alive /\ kept' = kept
    BY <1>1 DEF S!WriteFails
  <2> QED
    BY <2>1, CutShort DEF SettingsTypes, KeptInMemory, Writing
<1>2. CASE S!WriteEnds
  <2>1. /\ unwritten = {} /\ unwritten # None /\ unwritten' = None /\ lost' = lost
        /\ settings' = settings /\ lines' = lines /\ alive' = alive /\ kept' = kept
    BY <1>0, <1>2 DEF S!WriteEnds
  <2>2. WholeFile' = WholeFile
    BY <2>1 DEF WholeFile
  <2> QED
    BY <2>1, <2>2 DEF SettingsTypes, KeptInMemory, KeptInFile, OnlyKept, Writing
<1>3. CASE S!Dies
  <2>1. /\ alive' = FALSE /\ settings' = S!NoData /\ unwritten' = None
        /\ lost' = IF unwritten = None THEN lost ELSE lost \cup S!KeysOf(unwritten)
        /\ lines' = lines /\ kept' = kept
    BY <1>3 DEF S!Dies
  <2>2. KeptInFile'
    <3>1. CASE unwritten = None
      BY <2>1, <3>1 DEF KeptInFile, OnlyKept, WholeFile
    <3>2. CASE unwritten # None
      BY <2>1, <3>2, CutShort
    <3> QED
      BY <3>1, <3>2
  <2>3. SettingsTypes'
    BY <2>1 DEF SettingsTypes, S!NoData, S!NotEmpty
  <2> QED
    BY <2>1, <2>2, <2>3 DEF KeptInMemory, Writing
<1> QED
  BY <1>1, <1>2, <1>3

LEMMA SettingsStep == SettingsInv /\ [S!Next]_(S!vars) => SettingsInv'
<1> SUFFICES ASSUME SettingsInv, [S!Next]_(S!vars) PROVE SettingsInv'
  OBVIOUS
<1>1. ASSUME NEW k \in Names, S!remove(k) PROVE SettingsInv'
  <2>1. settings' \in {S!Put(settings, k, S!NoValue), [key \in DOMAIN settings \ {k} |-> settings[key]]}
    BY <1>1 DEF S!remove
  <2>2. /\ DOMAIN settings' \subseteq DOMAIN settings \cup {k}
        /\ \A key \in DOMAIN settings' : settings'[key] \in Texting
        /\ \A key \in S!NotEmpty(settings') : key \o settings'[key] \in Written
        /\ \A key \in Names \ {k} : Held(settings', key) = Held(settings, key)
    <3>1. CASE settings' = S!Put(settings, k, S!NoValue)
      BY <3>1, NamesAreTexting DEF SettingsInv, SettingsTypes, S!Put, Held, S!NotEmpty
    <3>2. CASE settings' = [key \in DOMAIN settings \ {k} |-> settings[key]]
      BY <3>2 DEF SettingsInv, SettingsTypes, Held, S!NotEmpty
    <3> QED
      BY <2>1, <3>1, <3>2
  <2> QED
    BY <1>1, <2>2, ChangeStep DEF S!remove
<1>2. ASSUME NEW k \in Names, NEW v \in Strings, S!setValue(k, v) PROVE SettingsInv'
  <2>1. /\ DOMAIN settings' \subseteq DOMAIN settings \cup {k}
        /\ \A key \in DOMAIN settings' : settings'[key] \in Texting
        /\ \A key \in S!NotEmpty(settings') : key \o settings'[key] \in Written
        /\ \A key \in Names \ {k} : Held(settings', key) = Held(settings, key)
    <3>1. settings' = [key \in DOMAIN settings \cup {k} |-> IF key = k THEN v ELSE settings[key]]
      BY <1>2 DEF S!setValue, S!Put
    <3>2. v \in Texting /\ k \o v \in Written
      BY NamesAreTexting DEF Written
    <3>3. \A key \in S!NotEmpty(settings') : key # k => key \in S!NotEmpty(settings)
      BY <3>1 DEF S!NotEmpty
    <3>4. \A key \in S!NotEmpty(settings') : key \o settings'[key] \in Written
      BY <3>1, <3>2, <3>3 DEF SettingsInv, SettingsTypes, S!NotEmpty
    <3> QED
      BY <3>1, <3>2, <3>4 DEF SettingsInv, SettingsTypes, Held
  <2> QED
    BY <1>2, <2>1, ChangeStep DEF S!setValue
<1>3. CASE S!FreshPartition
  BY <1>3 DEF S!FreshPartition, SettingsInv, SettingsTypes, KeptInMemory, KeptInFile, Writing
<1>4. CASE UNCHANGED S!vars
  BY <1>4 DEF S!vars, SettingsInv, SettingsTypes, KeptInMemory, KeptInFile, OnlyKept, WholeFile, Writing
<1> QED
  BY <1>1, <1>2, <1>3, <1>4, ConstructStep, WriteLineStep, SettingsEnds DEF S!Next

LEMMA KeptIsRead == SettingsInv => S!SavedIsRead
BY DEF SettingsInv, KeptInMemory, Held, S!SavedIsRead, S!contains, S!getValue

\* Whatever restarts, deaths, full disks and changes of other keys come between, for all keys and all
\* values, those with a "=" too: what a change of a key has saved is read until its next change, or
\* the key is gone after a write that was cut short, a start that could not read the file, or a start
\* if its value has a "="; no other value is ever read in its place.
THEOREM SavedAndRead == Spec => []SavedIsRead
<1> DEFINE Inv == part = "settings" => SettingsInv
<1>1. Init => Inv
  BY SettingsInit DEF Init
<1>2. Inv /\ [Next]_vars => Inv'
  BY OwnState, SettingsStep
<1>3. Inv => SavedIsRead
  BY KeptIsRead DEF SavedIsRead
<1> QED
  BY <1>1, <1>2, <1>3, PTL DEF Spec
=============================================================================
