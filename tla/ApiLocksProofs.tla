--------------------------- MODULE ApiLocksProofs ---------------------------
(***************************************************************************)
(* Theorems about ApiLocks.  Base holds however calls nest.  On top of it, *)
(* PlainInv is inductive where every call is served by another thread, and *)
(* DirectInv where no LockApiGuard nests in a wrapped function.            *)
(***************************************************************************)
EXTENDS ApiLocks, FiniteSetTheorems, TLAPS

FrameType == [Threads -> [Levels -> Frames \cup {NoFrame}]]

BaseType ==
    /\ flag \in [Threads -> BOOLEAN]
    /\ holder \in [Classes -> SUBSET Threads]
    /\ count \in [Classes -> Nat]
    /\ level \in [Threads -> 0 .. MaxDepth]
    /\ frame \in FrameType
    /\ caller \in [Threads -> SUBSET Threads]

\* LockApiGuards are there only where they may nest.
Allowed(f) == f.kind = "plain" \/ f.at = "unlocked" => "plain" \in Nesting

OpenFrames ==
    \A t \in Threads : \A i \in Open(t) : frame[t][i] \in Frames /\ Allowed(frame[t][i])

\* Who waits for a call waits for one, and the call is going on.
CallersWait ==
    \A t \in Threads : \A u \in caller[t] :
        /\ level[t] > 0
        /\ At(u, "waiting")
        /\ \A v \in Threads : u \in caller[v] => v = t

HeldCounted == \A c \in Classes : holder[c] = {} <=> count[c] = 0

Base == BaseType /\ OpenFrames /\ CallersWait /\ HeldCounted

LEMMA TopIsFrame ==
    ASSUME Base, NEW t \in Threads, level[t] > 0
    PROVE  level[t] \in Levels /\ level[t] \in Open(t) /\ Top(t) \in Frames /\ Allowed(Top(t))
BY ApiLocksAssumption DEF Base, BaseType, OpenFrames, Levels, Open, Top

\* What a step does to the stacks: one level of one thread gets a new frame.
Sets(t, i, f) ==
    /\ frame' \in FrameType
    /\ frame'[t][i] = f
    /\ \A u \in Threads, j \in Levels : u # t \/ j # i => frame'[u][j] = frame[u][j]

LEMMA PlaceSets ==
    ASSUME Base, NEW t \in Threads, level[t] > 0, NEW p \in Places, Place(t, p)
    PROVE  /\ level[t] \in Levels /\ Top(t) \in Frames
           /\ Sets(t, level[t], [Top(t) EXCEPT !.at = p])
<1> DEFINE i == level[t]
<1>1. i \in Levels /\ i \in Open(t) /\ Top(t) \in Frames
  BY ApiLocksAssumption DEF Base, BaseType, OpenFrames, Levels, Open, Top
<1>2. [Top(t) EXCEPT !.at = p] \in Frames
  BY <1>1 DEF Frames
<1>3. frame' = [frame EXCEPT ![t] = [frame[t] EXCEPT ![i] = [Top(t) EXCEPT !.at = p]]]
  BY DEF Place, Top, Base, BaseType, FrameType
<1> QED
  BY <1>1, <1>2, <1>3 DEF Sets, Base, BaseType, FrameType

LEMMA PushSets ==
    ASSUME Base, NEW t \in Threads, NEW c \in Classes, NEW k \in {"api", "plain"}, Push(t, c, k)
    PROVE  /\ level[t] + 1 \in Levels
           /\ level' = [level EXCEPT ![t] = level[t] + 1]
           /\ level' \in [Threads -> 0 .. MaxDepth]
           /\ Sets(t, level[t] + 1, [class |-> c, kind |-> k, at |-> "lock"])
<1> DEFINE i == level[t] + 1
           f == [class |-> c, kind |-> k, at |-> "lock"]
<1>1. i \in Levels
  BY ApiLocksAssumption DEF Base, BaseType, Levels, Push
<1>2. f \in Frames
  BY DEF Frames, Places
<1>3. frame' = [frame EXCEPT ![t] = [frame[t] EXCEPT ![i] = f]]
  BY DEF Push, Base, BaseType, FrameType
<1>4. level' = [level EXCEPT ![t] = i] /\ level' \in [Threads -> 0 .. MaxDepth]
  BY <1>1, ApiLocksAssumption DEF Push, Base, BaseType, Levels
<1> QED
  BY <1>1, <1>2, <1>3, <1>4 DEF Sets, Base, BaseType, FrameType

\* Who goes on when a call or guard of a thread ends.
Woken(t) == IF level[t] = 1 THEN caller[t] ELSE {}

LEMMA LeaveSets ==
    ASSUME Base, NEW t \in Threads, level[t] > 0, ~ At(t, "waiting"), Leave(t)
    PROVE  /\ level[t] \in Levels /\ Top(t) \in Frames
           /\ level' = [level EXCEPT ![t] = level[t] - 1]
           /\ level' \in [Threads -> 0 .. MaxDepth]
           /\ caller' = [caller EXCEPT ![t] = caller[t] \ Woken(t)]
           /\ t \notin Woken(t)
           /\ frame' \in FrameType
           /\ \A j \in Levels : j # level[t] => frame'[t][j] = frame[t][j]
           /\ \A u \in Threads \ (Woken(t) \cup {t}) : frame'[u] = frame[u]
           /\ \A u \in Woken(t) :
                /\ At(u, "waiting")
                /\ frame'[u][level[u]] = [Top(u) EXCEPT !.at = "guarded"]
                /\ \A j \in Levels : j # level[u] => frame'[u][j] = frame[u][j]
<1>1. level[t] \in Levels /\ Top(t) \in Frames
  BY ApiLocksAssumption DEF Base, BaseType, OpenFrames, Levels, Open, Top
<1>2. /\ level' = [level EXCEPT ![t] = level[t] - 1]
      /\ level' \in [Threads -> 0 .. MaxDepth]
      /\ caller' = [caller EXCEPT ![t] = caller[t] \ Woken(t)]
  BY <1>1, ApiLocksAssumption DEF Leave, Woken, Base, BaseType, Levels
<1>3. t \notin Woken(t) /\ \A u \in Woken(t) : u \in Threads /\ At(u, "waiting")
  BY DEF Base, BaseType, CallersWait, Woken
<1>4. CASE level[t] = 1 /\ caller[t] # {}
  <2>1. frame' = [u \in Threads |->
                    IF u = t THEN [frame[t] EXCEPT ![1] = NoFrame]
                    ELSE IF u \in caller[t] THEN [frame[u] EXCEPT ![level[u]].at = "guarded"]
                    ELSE frame[u]]
    BY <1>4 DEF Leave
  <2>2. Woken(t) = caller[t]
    BY <1>4 DEF Woken
  <2>3. \A u \in Woken(t) :
            /\ level[u] \in Levels /\ Top(u) \in Frames
            /\ frame'[u] = [frame[u] EXCEPT ![level[u]] = [Top(u) EXCEPT !.at = "guarded"]]
    <3> TAKE u \in Woken(t)
    <3>1. u \in Threads /\ u # t /\ level[u] > 0
      BY <1>3 DEF At
    <3>2. level[u] \in Levels /\ Top(u) \in Frames
      BY <3>1, ApiLocksAssumption DEF Base, BaseType, OpenFrames, Levels, Open, Top
    <3> QED
      BY <2>1, <2>2, <3>1, <3>2 DEF Top
  <2>4. \A u \in Woken(t) :
            /\ frame'[u] \in [Levels -> Frames \cup {NoFrame}]
            /\ frame'[u][level[u]] = [Top(u) EXCEPT !.at = "guarded"]
            /\ \A j \in Levels : j # level[u] => frame'[u][j] = frame[u][j]
    <3> TAKE u \in Woken(t)
    <3>1. [Top(u) EXCEPT !.at = "guarded"] \in Frames
      BY <2>3 DEF Frames, Places
    <3>2. frame[u] \in [Levels -> Frames \cup {NoFrame}]
      BY <1>3 DEF Base, BaseType, FrameType
    <3> QED
      BY <2>3, <3>1, <3>2
  <2>5. /\ frame'[t] \in [Levels -> Frames \cup {NoFrame}]
        /\ \A j \in Levels : j # level[t] => frame'[t][j] = frame[t][j]
    BY <2>1, <1>4 DEF Base, BaseType, FrameType
  <2>6. \A u \in Threads \ (Woken(t) \cup {t}) :
            frame'[u] = frame[u] /\ frame'[u] \in [Levels -> Frames \cup {NoFrame}]
    BY <2>1, <2>2 DEF Base, BaseType, FrameType
  <2>7. frame' \in FrameType
    BY <2>1, <2>4, <2>5, <2>6 DEF FrameType
  <2> QED
    BY <1>1, <1>2, <1>3, <2>4, <2>5, <2>6, <2>7
<1>5. CASE ~ (level[t] = 1 /\ caller[t] # {})
  <2>1. frame' = [frame EXCEPT ![t] = [frame[t] EXCEPT ![level[t]] = NoFrame]] /\ Woken(t) = {}
    BY <1>5 DEF Leave, Woken, Base, BaseType, FrameType
  <2> QED
    BY <1>1, <1>2, <1>3, <2>1 DEF Base, BaseType, FrameType
<1> QED
  BY <1>4, <1>5

-----------------------------------------------------------------------------
(* Base *)

LEMMA BasePlace ==
    ASSUME Base, NEW t \in Threads, level[t] > 0, ~ At(t, "waiting"),
           NEW p \in Places, p = "unlocked" => "plain" \in Nesting, Place(t, p),
           BaseType', HeldCounted', UNCHANGED <<level, caller>>
    PROVE  Base'
<1>1. level[t] \in Levels /\ Top(t) \in Frames /\ Sets(t, level[t], [Top(t) EXCEPT !.at = p])
  BY PlaceSets
<1>2. [Top(t) EXCEPT !.at = p] \in Frames /\ Allowed([Top(t) EXCEPT !.at = p])
  BY <1>1, TopIsFrame DEF Frames, Allowed
<1>3. OpenFrames'
  <2> SUFFICES ASSUME NEW u \in Threads, NEW i \in Open(u)' PROVE frame'[u][i] \in Frames /\ Allowed(frame'[u][i])
    BY DEF OpenFrames
  <2>1. i \in Open(u) /\ i \in Levels
    BY ApiLocksAssumption DEF Open, Levels, Base, BaseType
  <2> QED
    BY <1>1, <1>2, <2>1 DEF Sets, Base, OpenFrames
<1>4. \A u \in Threads : At(u, "waiting") => At(u, "waiting")'
  <2> TAKE u \in Threads
  <2> HAVE At(u, "waiting")
  <2>1. u # t /\ level[u] \in Levels
    BY ApiLocksAssumption DEF At, Levels, Base, BaseType
  <2> QED
    BY <1>1, <2>1 DEF Sets, At, Top
<1>5. CallersWait'
  BY <1>4 DEF Base, BaseType, CallersWait
<1> QED
  BY <1>3, <1>5 DEF Base

LEMMA BasePush ==
    ASSUME Base, NEW t \in Threads, ~ At(t, "waiting"), NEW c \in Classes,
           NEW k \in {"api", "plain"}, k = "plain" => "plain" \in Nesting, Push(t, c, k),
           BaseType', HeldCounted', UNCHANGED caller
    PROVE  Base'
<1> DEFINE f == [class |-> c, kind |-> k, at |-> "lock"]
<1>1. level[t] + 1 \in Levels /\ level' = [level EXCEPT ![t] = level[t] + 1] /\ Sets(t, level[t] + 1, f)
  BY PushSets
<1>2. f \in Frames /\ Allowed(f)
  BY DEF Frames, Places, Allowed
<1>3. OpenFrames'
  <2> SUFFICES ASSUME NEW u \in Threads, NEW i \in Open(u)' PROVE frame'[u][i] \in Frames /\ Allowed(frame'[u][i])
    BY DEF OpenFrames
  <2>1. i \in Levels /\ (i \in Open(u) \/ (u = t /\ i = level[t] + 1))
    BY <1>1, ApiLocksAssumption DEF Open, Levels, Base, BaseType
  <2> QED
    BY <1>1, <1>2, <2>1 DEF Sets, Base, OpenFrames
<1>4. \A u \in Threads : At(u, "waiting") => At(u, "waiting")'
  <2> TAKE u \in Threads
  <2> HAVE At(u, "waiting")
  <2>1. u # t /\ level[u] \in Levels /\ level'[u] = level[u]
    BY <1>1, ApiLocksAssumption DEF At, Levels, Base, BaseType
  <2> QED
    BY <1>1, <2>1 DEF Sets, At, Top
<1>5. \A u \in Threads : level[u] > 0 => level'[u] > 0
  BY <1>1 DEF Base, BaseType
<1>6. CallersWait'
  BY <1>4, <1>5 DEF Base, BaseType, CallersWait
<1> QED
  BY <1>3, <1>6 DEF Base

LEMMA BaseLeave ==
    ASSUME Base, NEW t \in Threads, level[t] > 0, ~ At(t, "waiting"), Leave(t), BaseType', HeldCounted'
    PROVE  Base'
<1>1. /\ level[t] \in Levels /\ Top(t) \in Frames
      /\ level' = [level EXCEPT ![t] = level[t] - 1]
      /\ caller' = [caller EXCEPT ![t] = caller[t] \ Woken(t)]
      /\ t \notin Woken(t)
      /\ frame' \in FrameType
      /\ \A j \in Levels : j # level[t] => frame'[t][j] = frame[t][j]
      /\ \A u \in Threads \ (Woken(t) \cup {t}) : frame'[u] = frame[u]
      /\ \A u \in Woken(t) :
           /\ At(u, "waiting")
           /\ frame'[u][level[u]] = [Top(u) EXCEPT !.at = "guarded"]
           /\ \A j \in Levels : j # level[u] => frame'[u][j] = frame[u][j]
  BY LeaveSets
<1>2. OpenFrames'
  <2> SUFFICES ASSUME NEW u \in Threads, NEW i \in Open(u)' PROVE frame'[u][i] \in Frames /\ Allowed(frame'[u][i])
    BY DEF OpenFrames
  <2>1. i \in Open(u) /\ i \in Levels /\ frame[u][i] \in Frames /\ Allowed(frame[u][i])
    BY <1>1, ApiLocksAssumption DEF Open, Levels, Base, BaseType, OpenFrames
  <2>2. CASE u = t
    BY <1>1, <2>1, <2>2 DEF Open, Base, BaseType
  <2>3. CASE u \in Woken(t) /\ i = level[u]
    <3>1. frame[u][i] \in Frames /\ frame'[u][i] = [frame[u][i] EXCEPT !.at = "guarded"]
      BY <1>1, <2>1, <2>3 DEF Top
    <3> QED
      BY <2>1, <3>1 DEF Frames, Places, Allowed
  <2>4. CASE u \in Woken(t) /\ i # level[u]
    BY <1>1, <2>1, <2>4
  <2>5. CASE u \notin Woken(t) \cup {t}
    BY <1>1, <2>1, <2>5
  <2> QED
    BY <2>2, <2>3, <2>4, <2>5
<1>3. CallersWait'
  <2> SUFFICES ASSUME NEW v \in Threads, NEW u \in caller'[v]
               PROVE  /\ level'[v] > 0
                      /\ At(u, "waiting")'
                      /\ \A w \in Threads : u \in caller'[w] => w = v
    BY DEF CallersWait
  <2>1. /\ u \in caller[v] /\ u \in Threads /\ level[v] > 0 /\ At(u, "waiting")
        /\ \A w \in Threads : u \in caller[w] => w = v
    BY <1>1 DEF Base, BaseType, CallersWait
  <2>2. u \notin Woken(t) /\ u # t
    BY <1>1, <2>1 DEF Woken, Base, BaseType
  <2>3. level'[v] > 0
    BY <1>1, <2>2, <2>1 DEF Woken, Base, BaseType
  <2>4. At(u, "waiting")'
    BY <1>1, <2>1, <2>2 DEF At, Top, Base, BaseType
  <2> QED
    BY <1>1, <2>1, <2>3, <2>4 DEF Base, BaseType
<1> QED
  BY <1>2, <1>3 DEF Base

LEMMA LockStep ==
    ASSUME Base, NEW t \in Threads, NEW c \in Classes, Acquire(t, c) \/ Release(t, c)
    PROVE  holder' \in [Classes -> SUBSET Threads] /\ count' \in [Classes -> Nat] /\ HeldCounted'
<1>1. CASE Acquire(t, c)
  BY <1>1 DEF Acquire, Base, BaseType, HeldCounted
<1>2. CASE Release(t, c) /\ holder[c] = {t}
  <2>1. count[c] \in Nat \ {0}
    BY <1>2 DEF Base, BaseType, HeldCounted
  <2>2. count' = [count EXCEPT ![c] = count[c] - 1]
        /\ holder' = [holder EXCEPT ![c] = IF count[c] = 1 THEN {} ELSE {t}]
    BY <1>2 DEF Release
  <2> QED
    BY <2>1, <2>2 DEF Base, BaseType, HeldCounted
<1>3. CASE Release(t, c) /\ holder[c] # {t}
  BY <1>3 DEF Release, Base, BaseType, HeldCounted
<1> QED
  BY <1>1, <1>2, <1>3

LEMMA BaseInit == ASSUME Init PROVE Base
BY ApiLocksAssumption DEF Init, Base, BaseType, OpenFrames, CallersWait, HeldCounted, FrameType, Open

LEMMA BaseInvoke ==
    ASSUME Base, NEW t \in Threads, NEW u \in Threads, NEW c \in Classes, Invoke(t, u, c)
    PROVE  Base'
<1> DEFINE f == [class |-> c, kind |-> "api", at |-> "lock"]
           g == [Top(t) EXCEPT !.at = "waiting"]
<1>1. /\ level[t] > 0 /\ level[u] = 0 /\ u # t
      /\ level[t] \in Levels /\ Top(t) \in Frames /\ 1 \in Levels
      /\ level' = [level EXCEPT ![u] = 1]
  BY TopIsFrame, ApiLocksAssumption DEF Invoke, At, Levels
<1>2. f \in Frames /\ g \in Frames /\ Allowed(f) /\ Allowed(g)
  BY <1>1, TopIsFrame DEF Frames, Places, Allowed
<1>3. frame' = [frame EXCEPT ![t] = [frame[t] EXCEPT ![level[t]] = g],
                             ![u] = [frame[u] EXCEPT ![1] = f]]
  BY <1>1 DEF Invoke, Top, Base, BaseType, FrameType
<1>4. /\ frame' \in FrameType
      /\ frame'[t][level[t]] = g
      /\ frame'[u][1] = f
      /\ \A j \in Levels : j # level[t] => frame'[t][j] = frame[t][j]
      /\ \A v \in Threads \ {t, u} : frame'[v] = frame[v]
  BY <1>1, <1>2, <1>3 DEF Base, BaseType, FrameType
<1>5. BaseType' /\ HeldCounted'
  BY <1>1, <1>4, ApiLocksAssumption DEF Invoke, Base, BaseType, HeldCounted
<1>6. OpenFrames'
  <2> SUFFICES ASSUME NEW v \in Threads, NEW i \in Open(v)' PROVE frame'[v][i] \in Frames /\ Allowed(frame'[v][i])
    BY DEF OpenFrames
  <2>1. i \in Levels /\ (i \in Open(v) \/ (v = u /\ i = 1))
    BY <1>1, ApiLocksAssumption DEF Open, Levels, Base, BaseType
  <2>2. CASE v = u
    BY <1>1, <1>2, <1>4, <2>1, <2>2 DEF Open
  <2>3. CASE v # u
    BY <1>1, <1>2, <1>4, <2>1, <2>3 DEF Base, OpenFrames
  <2> QED
    BY <2>2, <2>3
<1>7. CallersWait'
  <2>1. \A v \in Threads : At(v, "waiting") => At(v, "waiting")' /\ v # t /\ v # u
    <3> TAKE v \in Threads
    <3> HAVE At(v, "waiting")
    <3>1. v # t /\ v # u
      BY <1>1 DEF At, Invoke
    <3>2. level'[v] = level[v] /\ frame'[v] = frame[v]
      BY <1>1, <1>4, <3>1 DEF Base, BaseType
    <3> QED
      BY <3>1, <3>2 DEF At, Top
  <2>2. At(t, "waiting")'
    BY <1>1, <1>2, <1>4 DEF At, Top, Base, BaseType, Frames
  <2>3. caller' = [caller EXCEPT ![u] = {t}]
    BY DEF Invoke
  <2>4. \A v \in Threads : t \notin caller[v]
    BY <2>1 DEF Base, CallersWait
  <2>5. \A v \in Threads : level[v] > 0 => level'[v] > 0
    BY <1>1 DEF Base, BaseType
  <2>6. level'[u] > 0
    BY <1>1 DEF Base, BaseType
  <2> QED
    BY <2>1, <2>2, <2>3, <2>4, <2>5, <2>6 DEF Base, BaseType, CallersWait
<1> QED
  BY <1>5, <1>6, <1>7 DEF Base

\* Base is inductive.
LEMMA BaseStep == ASSUME Base, [Next]_vars PROVE Base'
<1>1. ASSUME NEW t \in Threads, NEW c \in Classes, Call(t, c) PROVE Base'
  <2>1. ~ At(t, "waiting")
    BY <1>1 DEF Call, At
  <2>2. BaseType' /\ HeldCounted'
    BY <1>1, PushSets DEF Call, Base, BaseType, HeldCounted, Sets
  <2> QED
    BY <1>1, <2>1, <2>2, BasePush DEF Call
<1>2. ASSUME NEW t \in Threads, NEW c \in Classes, Guard(t, c) PROVE Base'
  <2>1. ~ At(t, "waiting")
    BY <1>2 DEF Guard, At
  <2>2. BaseType' /\ HeldCounted'
    BY <1>2, <2>1, PushSets DEF Guard, Base, BaseType, HeldCounted, Sets, Levels
  <2> QED
    BY <1>2, <2>1, <2>2, BasePush DEF Guard
<1>3. ASSUME NEW t \in Threads, NEW p \in Places,
             p = "unlocked" => "plain" \in Nesting, level[t] > 0, ~ At(t, "waiting"),
             Place(t, p), UNCHANGED <<flag, level, caller>>,
             \/ Acquire(t, Top(t).class)
             \/ Release(t, Top(t).class)
             \/ UNCHANGED <<holder, count>>
      PROVE  Base'
  <2>1. Top(t).class \in Classes
    BY <1>3, TopIsFrame DEF Frames
  <2>2. BaseType' /\ HeldCounted'
    BY <1>3, <2>1, LockStep, PlaceSets DEF Base, BaseType, HeldCounted, Sets
  <2> QED
    BY <1>3, <2>2, BasePlace
<1>4. ASSUME NEW t \in Threads, Lock(t) \/ Relock(t) \/ Unlock(t) \/ LockAgain(t)
                                 \/ GuardBegin(t) \/ GuardEnd(t)
      PROVE  Base'
  <2>1. level[t] > 0 /\ ~ At(t, "waiting")
    BY <1>4 DEF Lock, Relock, Unlock, LockAgain, GuardBegin, GuardEnd, At
  <2>2. Unlock(t) => "plain" \in Nesting
    BY <2>1, TopIsFrame DEF Unlock, Allowed
  <2> QED
    BY <1>3, <1>4, <2>1, <2>2 DEF Lock, Relock, Unlock, LockAgain, GuardBegin, GuardEnd, Places
<1>5. ASSUME NEW t \in Threads, Return(t) PROVE Base'
  <2>1. level[t] > 0 /\ ~ At(t, "waiting") /\ Leave(t)
    BY <1>5 DEF Return, At
  <2>2. Top(t).class \in Classes
    BY <2>1, TopIsFrame DEF Frames
  <2>3. holder' \in [Classes -> SUBSET Threads] /\ count' \in [Classes -> Nat] /\ HeldCounted'
    BY <1>5, <2>2, LockStep DEF Return, Base, BaseType, HeldCounted
  <2>4. BaseType'
    BY <2>1, <2>3, LeaveSets DEF Leave, Base, BaseType, Levels
  <2> QED
    BY <2>1, <2>3, <2>4, BaseLeave
<1>6. ASSUME NEW t \in Threads, NEW c \in Classes, InvokeDirect(t, c) PROVE Base'
  <2>1. ~ At(t, "waiting")
    BY <1>6 DEF InvokeDirect, At
  <2>2. BaseType' /\ HeldCounted'
    BY <1>6, PushSets DEF InvokeDirect, Base, BaseType, HeldCounted, Sets, Levels
  <2> QED
    BY <1>6, <2>1, <2>2, BasePush DEF InvokeDirect
<1>7. CASE UNCHANGED vars
  BY <1>7 DEF vars, Base, BaseType, OpenFrames, CallersWait, HeldCounted, Open, At, Top
<1> QED
  BY <1>1, <1>2, <1>4, <1>5, <1>6, <1>7, BaseInvoke DEF Next, Goes

-----------------------------------------------------------------------------
(* The top of the stacks after a step *)

Same(u) ==
    /\ level'[u] = level[u]
    /\ level[u] > 0 => Top(u)' = Top(u)
    /\ \A p \in Places : At(u, p)' <=> At(u, p)

LEMMA PlaceTops ==
    ASSUME Base, NEW t \in Threads, level[t] > 0, NEW p \in Places, Place(t, p), UNCHANGED level
    PROVE  /\ \A u \in Threads \ {t} : Same(u)
           /\ Top(t)'.class = Top(t).class
           /\ Top(t)'.kind = Top(t).kind
           /\ \A q \in Places : At(t, q)' <=> q = p
<1>1. level[t] \in Levels /\ Top(t) \in Frames /\ Sets(t, level[t], [Top(t) EXCEPT !.at = p])
  BY PlaceSets
<1>2. Top(t)' = [Top(t) EXCEPT !.at = p]
  BY <1>1 DEF Sets, Top
<1>3. \A u \in Threads \ {t} : Same(u)
  BY <1>1 DEF Same, At, Top, Sets, Base, BaseType, Levels
<1> QED
  BY <1>1, <1>2, <1>3 DEF Frames, At

LEMMA PushTops ==
    ASSUME Base, NEW t \in Threads, NEW c \in Classes, NEW k \in {"api", "plain"}, Push(t, c, k)
    PROVE  /\ \A u \in Threads \ {t} : Same(u)
           /\ Top(t)' = [class |-> c, kind |-> k, at |-> "lock"]
           /\ \A q \in Places : At(t, q)' <=> q = "lock"
<1>1. /\ level[t] + 1 \in Levels
      /\ level' = [level EXCEPT ![t] = level[t] + 1]
      /\ Sets(t, level[t] + 1, [class |-> c, kind |-> k, at |-> "lock"])
  BY PushSets
<1>2. level'[t] = level[t] + 1 /\ level[t] \in Nat /\ Top(t)' = [class |-> c, kind |-> k, at |-> "lock"]
  BY <1>1 DEF Sets, Top, Base, BaseType
<1>3. \A u \in Threads \ {t} : Same(u)
  <2> TAKE u \in Threads \ {t}
  <2>1. level'[u] = level[u] /\ level[u] \in 0 .. MaxDepth
    BY <1>1 DEF Base, BaseType
  <2>2. level[u] > 0 => Top(u)' = Top(u)
    BY <1>1, <2>1 DEF Sets, Top, Levels
  <2> QED
    BY <2>1, <2>2 DEF Same, At
<1> QED
  BY <1>2, <1>3 DEF At

LEMMA InvokeTops ==
    ASSUME Base, NEW t \in Threads, NEW u \in Threads, NEW c \in Classes, Invoke(t, u, c)
    PROVE  /\ \A v \in Threads \ {t, u} : Same(v)
           /\ level'[t] = level[t] /\ level'[u] = 1 /\ u # t
           /\ Top(t)' = [Top(t) EXCEPT !.at = "waiting"]
           /\ Top(u)' = [class |-> c, kind |-> "api", at |-> "lock"]
           /\ \A q \in Places : At(t, q)' <=> q = "waiting"
           /\ \A q \in Places : At(u, q)' <=> q = "lock"
           /\ \A j \in Levels : j # level[t] => frame'[t][j] = frame[t][j]
<1> DEFINE f == [class |-> c, kind |-> "api", at |-> "lock"]
           g == [Top(t) EXCEPT !.at = "waiting"]
<1>1. /\ level[t] > 0 /\ level[u] = 0 /\ u # t
      /\ level[t] \in Levels /\ Top(t) \in Frames /\ 1 \in Levels
      /\ level' = [level EXCEPT ![u] = 1]
  BY TopIsFrame, ApiLocksAssumption DEF Invoke, At, Levels
<1>2. frame' = [frame EXCEPT ![t] = [frame[t] EXCEPT ![level[t]] = g],
                             ![u] = [frame[u] EXCEPT ![1] = f]]
  BY <1>1 DEF Invoke, Top, Base, BaseType, FrameType
<1>3. level'[t] = level[t] /\ level'[u] = 1 /\ \A v \in Threads \ {t, u} : level'[v] = level[v]
  BY <1>1 DEF Base, BaseType
<1>4. /\ frame'[t][level[t]] = g
      /\ frame'[u][1] = f
      /\ \A v \in Threads \ {t, u} : frame'[v] = frame[v]
      /\ \A j \in Levels : j # level[t] => frame'[t][j] = frame[t][j]
  BY <1>1, <1>2 DEF Base, BaseType, FrameType
<1>5. Top(t)' = g /\ Top(u)' = f
  BY <1>3, <1>4 DEF Top
<1>6. g.at = "waiting" /\ f.at = "lock"
  BY <1>1 DEF Frames
<1>7. \A v \in Threads \ {t, u} : Same(v)
  BY <1>3, <1>4 DEF Same, Top, At
<1>8. \A q \in Places : At(t, q)' <=> q = "waiting"
  BY <1>1, <1>3, <1>5, <1>6 DEF At
<1>9. \A q \in Places : At(u, q)' <=> q = "lock"
  BY <1>3, <1>5, <1>6 DEF At
<1> QED
  BY <1>1, <1>3, <1>4, <1>5, <1>7, <1>8, <1>9

LEMMA LeaveTops ==
    ASSUME Base, NEW t \in Threads, level[t] > 0, ~ At(t, "waiting"), Leave(t)
    PROVE  /\ t \notin Woken(t)
           /\ \A u \in Threads \ (Woken(t) \cup {t}) : Same(u)
           /\ \A u \in Woken(t) : /\ u \in Threads
                                  /\ At(u, "waiting")
                                  /\ \A q \in Places : At(u, q)' <=> q = "guarded"
<1>1. \A u \in Woken(t) : u \in Threads
  BY DEF Woken, Base, BaseType
<1>2. \A u \in Threads \ {t} : level'[u] = level[u]
  BY LeaveSets DEF Base, BaseType
<1>3. \A u \in Threads \ (Woken(t) \cup {t}) : Same(u)
  BY <1>2, LeaveSets DEF Same, At, Top
<1>4. ASSUME NEW u \in Woken(t)
      PROVE  At(u, "waiting") /\ \A q \in Places : At(u, q)' <=> q = "guarded"
  <2>1. /\ u \in Threads \ {t} /\ At(u, "waiting") /\ level[u] > 0
        /\ frame'[u][level[u]] = [Top(u) EXCEPT !.at = "guarded"]
    BY <1>1, LeaveSets DEF At
  <2>2. Top(u) \in Frames
    BY <2>1, TopIsFrame
  <2>3. level'[u] = level[u] /\ Top(u)'.at = "guarded"
    BY <1>2, <2>1, <2>2 DEF Top, Frames
  <2> QED
    BY <2>1, <2>3 DEF At
<1>5. t \notin Woken(t)
  BY LeaveSets
<1> QED
  BY <1>1, <1>3, <1>4, <1>5

-----------------------------------------------------------------------------
(* Where no LockApiGuard nests *)

\* Only code on top of its thread's stack owns a mutex, its class's, once, and with
\* the flag set; who wants a mutex has the flag set too; below the top there are
\* only functions that have given their mutex back.
Owns(c, t) == At(t, "body") /\ Top(t).class = c /\ flag[t] /\ count[c] = 1

DirectInv ==
    /\ \A c \in Classes : holder[c] = {} \/ \E t \in Threads : holder[c] = {t}
    /\ \A c \in Classes, t \in Threads : holder[c] = {t} => Owns(c, t)
    /\ \A t \in Threads : At(t, "lock") \/ At(t, "relock") => flag[t]
    /\ \A t \in Threads, i \in Levels : i < level[t] => frame[t][i].at = "guarded"

LEMMA DirectInit == ASSUME Init PROVE DirectInv
BY DEF Init, DirectInv, At, Levels

\* A thread's own step, with its new place and what it does to the mutex.
LEMMA DirectPlace ==
    ASSUME Base, DirectInv, NEW t \in Threads, level[t] > 0, NEW p \in Places, Place(t, p),
           UNCHANGED <<flag, level>>,
           \/ p = "body" /\ flag[t] /\ ~ At(t, "body") /\ Acquire(t, Top(t).class)
           \/ p # "body" /\ At(t, "body") /\ Release(t, Top(t).class)
           \/ (\A c \in Classes : holder[c] # {t}) /\ UNCHANGED <<holder, count>>,
           p \in {"lock", "relock"} => flag[t]
    PROVE  DirectInv'
<1> DEFINE d == Top(t).class
<1>1. /\ \A u \in Threads \ {t} : Same(u)
      /\ Top(t)'.class = d
      /\ \A q \in Places : At(t, q)' <=> q = p
  BY PlaceTops
<1>2. d \in Classes /\ "body" \in Places /\ "lock" \in Places /\ "relock" \in Places
  BY TopIsFrame DEF Frames, Places
<1>3. \A u \in Threads : At(u, "lock")' \/ At(u, "relock")' => flag'[u]
  BY <1>1, <1>2 DEF Same, DirectInv
<1>4. \A u \in Threads, i \in Levels : i < level'[u] => frame'[u][i].at = "guarded"
  <2> TAKE u \in Threads, i \in Levels
  <2> HAVE i < level'[u]
  <2>1. i < level[u] /\ i \in Nat /\ level[u] \in Nat /\ i # level[u]
    BY ApiLocksAssumption DEF Levels, Base, BaseType
  <2>2. Sets(t, level[t], [Top(t) EXCEPT !.at = p])
    BY PlaceSets
  <2>3. frame'[u][i] = frame[u][i]
    BY <2>1, <2>2 DEF Sets
  <2> QED
    BY <2>1, <2>3 DEF DirectInv
<1>5. ASSUME NEW c \in Classes, NEW u \in Threads \ {t}, holder[c] = {u}, count'[c] = count[c]
      PROVE  Owns(c, u)'
  BY <1>1, <1>2, <1>5 DEF Owns, DirectInv, Same, At
<1>6. CASE p = "body" /\ flag[t] /\ ~ At(t, "body") /\ Acquire(t, d)
  <2>1. \A c \in Classes : holder[c] # {t}
    BY <1>6 DEF DirectInv, Owns
  <2>2. /\ holder[d] = {} /\ count[d] = 0
        /\ holder' = [holder EXCEPT ![d] = {t}]
        /\ count' = [count EXCEPT ![d] = count[d] + 1]
    BY <1>2, <1>6, <2>1 DEF Acquire, DirectInv, Base, HeldCounted
  <2>3. Owns(d, t)'
    BY <1>1, <1>2, <1>6, <2>2 DEF Owns, Base, BaseType
  <2>4. \A c \in Classes \ {d} : holder'[c] = holder[c] /\ count'[c] = count[c]
    BY <2>2 DEF Base, BaseType
  <2>5. holder'[d] = {t}
    BY <1>2, <2>2 DEF Base, BaseType
  <2>6. \A c \in Classes, u \in Threads : holder'[c] = {u} => Owns(c, u)'
    <3> TAKE c \in Classes, u \in Threads
    <3> HAVE holder'[c] = {u}
    <3>1. CASE c = d
      <4>1. u = t
        BY <2>5, <3>1
      <4> QED
        BY <1>1, <2>3, <3>1, <4>1 DEF Owns, At, Top
    <3>2. CASE c # d
      BY <1>5, <2>1, <2>4, <3>2
    <3> QED
      BY <3>1, <3>2
  <2>7. \A c \in Classes : holder'[c] = {} \/ \E u \in Threads : holder'[c] = {u}
    BY <2>4, <2>5 DEF DirectInv
  <2> QED
    BY <1>3, <1>4, <2>6, <2>7 DEF DirectInv
<1>7. CASE p # "body" /\ At(t, "body") /\ Release(t, d)
  <2>1. \A c \in Classes \ {d} : holder[c] # {t} /\ holder'[c] = holder[c] /\ count'[c] = count[c]
    BY <1>7 DEF DirectInv, Owns, Release, Base, BaseType
  <2>2. IF holder[d] = {t} THEN holder'[d] = {} ELSE holder'[d] = holder[d] /\ count'[d] = count[d]
    BY <1>2, <1>7 DEF DirectInv, Owns, Release, Base, BaseType
  <2> QED
    BY <1>3, <1>5, <1>4, <2>1, <2>2 DEF DirectInv
<1>8. CASE (\A c \in Classes : holder[c] # {t}) /\ UNCHANGED <<holder, count>>
  BY <1>3, <1>5, <1>8, <1>4 DEF DirectInv
<1> QED
  BY <1>6, <1>7, <1>8

LEMMA DirectPush ==
    ASSUME Base, DirectInv, NEW t \in Threads, NEW c \in Classes, Push(t, c, "api"),
           level[t] = 0 \/ At(t, "guarded"), flag' = [flag EXCEPT ![t] = TRUE], UNCHANGED <<holder, count>>
    PROVE  DirectInv'
<1>1. /\ \A u \in Threads \ {t} : Same(u)
      /\ \A q \in Places : At(t, q)' <=> q = "lock"
  BY PushTops
<1>2. flag'[t] /\ \A u \in Threads \ {t} : flag'[u] = flag[u]
  BY DEF Base, BaseType
<1>3. \A d \in Classes : holder[d] # {t}
  BY DEF DirectInv, Owns, At
<1>4. \A u \in Threads, i \in Levels : i < level'[u] => frame'[u][i].at = "guarded"
  <2> TAKE u \in Threads, i \in Levels
  <2> HAVE i < level'[u]
  <2>1. /\ level' = [level EXCEPT ![t] = level[t] + 1]
        /\ level[t] + 1 \in Levels
        /\ \A v \in Threads, j \in Levels : v # t \/ j # level[t] + 1 => frame'[v][j] = frame[v][j]
    BY PushSets DEF Sets
  <2>2. CASE u = t /\ i = level[t]
    BY <2>1, <2>2 DEF At, Top, Levels
  <2>3. CASE ~ (u = t /\ i = level[t])
    <3>1. i \in Nat /\ level[u] \in Nat /\ level[t] \in Nat
      BY ApiLocksAssumption DEF Levels, Base, BaseType
    <3>2. level'[u] = IF u = t THEN level[t] + 1 ELSE level[u]
      BY <2>1 DEF Base, BaseType
    <3>3. i < level[u] /\ (u # t \/ i # level[t] + 1)
      BY <2>3, <3>1, <3>2
    <3> QED
      BY <2>1, <3>3 DEF DirectInv
  <2> QED
    BY <2>2, <2>3
<1>5. ASSUME NEW d \in Classes, NEW u \in Threads \ {t}, holder[d] = {u}
      PROVE  Owns(d, u)'
  BY <1>1, <1>2, <1>5 DEF Owns, DirectInv, Same, At, Places
<1> QED
  BY <1>1, <1>2, <1>3, <1>4, <1>5 DEF DirectInv, Same, Places

LEMMA DirectLeave ==
    ASSUME Base, DirectInv, NEW t \in Threads, Return(t)
    PROVE  DirectInv'
<1> DEFINE d == Top(t).class
<1>1. /\ level[t] > 0 /\ ~ At(t, "waiting") /\ Leave(t)
      /\ At(t, "body") \/ At(t, "unlocked")
  BY DEF Return, At
<1>2. /\ t \notin Woken(t)
      /\ \A u \in Threads \ (Woken(t) \cup {t}) : Same(u)
      /\ \A u \in Woken(t) : /\ u \in Threads
                             /\ At(u, "waiting")
                             /\ \A q \in Places : At(u, q)' <=> q = "guarded"
  BY <1>1, LeaveTops
<1>3. d \in Classes
  BY <1>1, TopIsFrame DEF Frames
<1>4. \A u \in Threads \ {t} : flag'[u] = flag[u]
  BY <1>1 DEF Leave, Base, BaseType
<1>5. /\ \A c \in Classes : holder'[c] # {t}
      /\ \A c \in Classes : holder'[c] = {} \/ (holder'[c] = holder[c] /\ count'[c] = count[c])
  <2>1. CASE At(t, "body") /\ Release(t, d)
    <3>1. \A c \in Classes \ {d} : holder[c] # {t} /\ holder'[c] = holder[c] /\ count'[c] = count[c]
      BY <2>1 DEF DirectInv, Owns, Release, Base, BaseType
    <3>2. IF holder[d] = {t} THEN holder'[d] = {} ELSE holder'[d] = holder[d] /\ count'[d] = count[d]
      BY <1>3, <2>1 DEF DirectInv, Owns, Release, Base, BaseType
    <3> QED
      BY <3>1, <3>2
  <2>2. CASE At(t, "unlocked") /\ UNCHANGED <<holder, count>>
    BY <2>2 DEF DirectInv, Owns, At
  <2> QED
    BY <2>1, <2>2 DEF Return
<1>6. ASSUME NEW c \in Classes, NEW u \in Threads, holder'[c] = {u} PROVE Owns(c, u)'
  <2>1. u # t /\ holder[c] = {u} /\ count'[c] = count[c]
    BY <1>5, <1>6
  <2>2. Owns(c, u)
    BY <2>1 DEF DirectInv
  <2>3. Same(u)
    BY <1>2, <2>1, <2>2 DEF Owns, At
  <2> QED
    BY <1>4, <2>1, <2>2, <2>3 DEF Owns, Same, At, Places
<1>7. \A q \in Places : At(t, q)' => q = "guarded"
  <2>1. level[t] \in Levels /\ level'[t] = level[t] - 1
        /\ \A j \in Levels : j # level[t] => frame'[t][j] = frame[t][j]
    BY <1>1, LeaveSets DEF Base, BaseType
  <2>2. CASE level[t] = 1
    BY <2>1, <2>2 DEF At
  <2>3. CASE level[t] > 1
    <3>1. level[t] - 1 \in Levels /\ level[t] - 1 < level[t] /\ level[t] - 1 # level[t]
      BY <2>1, <2>3, ApiLocksAssumption DEF Levels
    <3>2. frame[t][level[t] - 1].at = "guarded"
      BY <3>1 DEF DirectInv
    <3> QED
      BY <2>1, <3>1, <3>2 DEF At, Top
  <2> QED
    BY <1>1, <2>2, <2>3, <2>1 DEF Levels
<1>8. ASSUME NEW u \in Threads, At(u, "lock")' \/ At(u, "relock")' PROVE flag'[u]
  <2>1. u \notin Woken(t)
    BY <1>2, <1>8 DEF Places
  <2>2. CASE u # t
    BY <1>2, <1>4, <1>8, <2>1, <2>2 DEF Same, DirectInv, Places
  <2>3. u # t
    BY <1>7, <1>8 DEF Places
  <2> QED
    BY <2>2, <2>3
<1>9. \A u \in Threads, i \in Levels : i < level'[u] => frame'[u][i].at = "guarded"
  <2> TAKE u \in Threads, i \in Levels
  <2> HAVE i < level'[u]
  <2>1. i \in Nat /\ level[u] \in Nat /\ level[t] \in Nat
    BY ApiLocksAssumption DEF Levels, Base, BaseType
  <2>2. level'[u] = IF u = t THEN level[t] - 1 ELSE level[u]
    BY <1>1, LeaveSets DEF Base, BaseType
  <2>3. i < level[u] /\ i # level[u]
    BY <2>1, <2>2
  <2>4. frame'[u][i] = frame[u][i]
    BY <1>1, <2>3, LeaveSets
  <2> QED
    BY <2>3, <2>4 DEF DirectInv
<1> QED
  BY <1>5, <1>6, <1>8, <1>9 DEF DirectInv

LEMMA DirectInvoke ==
    ASSUME Base, DirectInv, NEW t \in Threads, NEW v \in Threads, NEW d \in Classes, Invoke(t, v, d)
    PROVE  DirectInv'
<1>1. /\ \A u \in Threads \ {t, v} : Same(u)
      /\ level'[t] = level[t] /\ level'[v] = 1 /\ v # t
      /\ \A q \in Places : At(t, q)' <=> q = "waiting"
      /\ \A j \in Levels : j # level[t] => frame'[t][j] = frame[t][j]
  BY InvokeTops
<1>2. /\ At(t, "guarded") /\ level[v] = 0
      /\ flag' = [flag EXCEPT ![v] = TRUE]
      /\ UNCHANGED <<holder, count>>
  BY DEF Invoke
<1>3. flag'[v] /\ \A u \in Threads \ {v} : flag'[u] = flag[u]
  BY <1>2 DEF Base, BaseType
<1>4. \A c \in Classes : holder[c] # {t} /\ holder[c] # {v}
  BY <1>2 DEF DirectInv, Owns, At
<1>5. ASSUME NEW c \in Classes, NEW u \in Threads, holder'[c] = {u} PROVE Owns(c, u)'
  <2>1. u \in Threads \ {t, v} /\ Owns(c, u) /\ Same(u)
    BY <1>1, <1>2, <1>4, <1>5 DEF DirectInv
  <2> QED
    BY <1>2, <1>3, <2>1 DEF Owns, Same, At, Places
<1>6. \A u \in Threads : At(u, "lock")' \/ At(u, "relock")' => flag'[u]
  BY <1>1, <1>3 DEF DirectInv, Same, Places
<1>7. \A u \in Threads, i \in Levels : i < level'[u] => frame'[u][i].at = "guarded"
  <2> TAKE u \in Threads, i \in Levels
  <2> HAVE i < level'[u]
  <2>1. i \in Nat /\ i >= 1 /\ level[u] \in Nat
    BY ApiLocksAssumption DEF Levels, Base, BaseType
  <2>2. u # v
    BY <1>1, <2>1
  <2>3. level'[u] = level[u] /\ frame'[u][i] = frame[u][i]
    <3>1. CASE u = t
      BY <1>1, <2>1, <3>1
    <3>2. CASE u # t
      BY <2>2, <3>2 DEF Invoke, Base, BaseType, FrameType
    <3> QED
      BY <3>1, <3>2
  <2> QED
    BY <2>3 DEF DirectInv
<1> QED
  BY <1>2, <1>5, <1>6, <1>7 DEF DirectInv

LEMMA DirectStep ==
    ASSUME Base, DirectInv, "plain" \notin Nesting, [Next]_vars
    PROVE  DirectInv'
<1>1. ASSUME NEW t \in Threads, NEW c \in Classes, Call(t, c) PROVE DirectInv'
  BY <1>1, DirectPush DEF Call
<1>2. ASSUME NEW t \in Threads, Lock(t) \/ Relock(t) PROVE DirectInv'
  <2>1. level[t] > 0 /\ flag[t] /\ ~ At(t, "body")
    BY <1>2 DEF Lock, Relock, At, DirectInv
  <2> QED
    BY <1>2, <2>1, DirectPlace DEF Lock, Relock, Places
<1>3. \A t \in Threads : ~ Unlock(t) /\ ~ LockAgain(t)
  BY TopIsFrame DEF Unlock, LockAgain, At, Allowed
<1>4. ASSUME NEW t \in Threads, GuardBegin(t) PROVE DirectInv'
  <2>1. level[t] > 0 /\ At(t, "body")
    BY <1>4 DEF GuardBegin, At
  <2>2. CASE flag[t]
    BY <1>4, <2>1, <2>2, DirectPlace DEF GuardBegin, Places
  <2>3. CASE ~ flag[t]
    <3>1. \A c \in Classes : holder[c] # {t}
      BY <2>3 DEF DirectInv, Owns
    <3> QED
      BY <1>4, <2>1, <2>3, <3>1, DirectPlace DEF GuardBegin, Places
  <2> QED
    BY <2>2, <2>3
<1>5. ASSUME NEW t \in Threads, GuardEnd(t) PROVE DirectInv'
  <2>1. level[t] > 0 /\ \A c \in Classes : holder[c] # {t}
    BY <1>5 DEF GuardEnd, At, DirectInv, Owns
  <2> QED
    BY <1>5, <2>1, DirectPlace DEF GuardEnd, Places
<1>6. ASSUME NEW t \in Threads, NEW c \in Classes, InvokeDirect(t, c) PROVE DirectInv'
  BY <1>6, DirectPush DEF InvokeDirect
<1>7. CASE UNCHANGED vars
  BY <1>7 DEF vars, DirectInv, Owns, At, Top
<1> QED
  BY <1>1, <1>2, <1>3, <1>4, <1>5, <1>6, <1>7, DirectInvoke, DirectLeave DEF Next, Goes, Guard

-----------------------------------------------------------------------------
(* Counting the levels of a mutex *)

RunsSame(u) == \A c \in Classes : Running(u, c)' = Running(u, c)

\* A step changes at most the code of one class that runs in one thread.
OnlyRuns(t, d) ==
    /\ \A u \in Threads \ {t} : RunsSame(u)
    /\ \A c \in Classes \ {d} : Running(t, c)' = Running(t, c)

LEMMA RunningFinite ==
    ASSUME Base, NEW t \in Threads, NEW c \in Classes
    PROVE  IsFiniteSet(Running(t, c)) /\ Cardinality(Running(t, c)) \in Nat
<1>1. IsFiniteSet(Open(t))
  BY FS_Interval, ApiLocksAssumption DEF Open, Base, BaseType
<1>2. Running(t, c) \subseteq Open(t)
  BY DEF Running
<1> QED
  BY <1>1, <1>2, FS_Subset, FS_CardinalityType

LEMMA CountSame ==
    ASSUME LockedInBody, LevelsAccounted, UNCHANGED <<holder, count>>,
           \A u \in Threads : RunsSame(u)
    PROVE  LockedInBody' /\ LevelsAccounted'
BY DEF LockedInBody, LevelsAccounted, RunsSame

LEMMA CountMore ==
    ASSUME Base, LockedInBody, LevelsAccounted, NEW t \in Threads, NEW d \in Classes,
           Acquire(t, d), OnlyRuns(t, d), NEW i, i \notin Running(t, d),
           Running(t, d)' = Running(t, d) \cup {i}
    PROVE  LockedInBody' /\ LevelsAccounted'
<1>1. /\ holder[d] = {} \/ holder[d] = {t}
      /\ holder' = [holder EXCEPT ![d] = {t}]
      /\ count' = [count EXCEPT ![d] = count[d] + 1]
  BY DEF Acquire
<1>2. holder'[d] = {t} /\ \A c \in Classes \ {d} : holder'[c] = holder[c] /\ count'[c] = count[c]
  BY <1>1 DEF Base, BaseType
<1>3. count[d] = Cardinality(Running(t, d))
  <2>1. CASE holder[d] = {}
    BY <2>1, FS_EmptySet DEF LockedInBody, LevelsAccounted
  <2>2. CASE holder[d] = {t}
    BY <2>2 DEF LevelsAccounted
  <2> QED
    BY <1>1, <2>1, <2>2
<1>4. count'[d] = Cardinality(Running(t, d)') /\ count'[d] > 0
  <2>1. Cardinality(Running(t, d) \cup {i}) = Cardinality(Running(t, d)) + 1
    BY RunningFinite, FS_AddElement
  <2> QED
    BY <1>1, <1>3, <2>1, RunningFinite DEF Base, BaseType
<1>5. \A u \in Threads \ {t} : Running(u, d)' = {}
  BY <1>1 DEF LockedInBody, OnlyRuns, RunsSame
<1>6. ASSUME NEW c \in Classes \ {d}, NEW u \in Threads PROVE Running(u, c)' = Running(u, c)
  BY DEF OnlyRuns, RunsSame
<1>7. LockedInBody'
  BY <1>2, <1>5, <1>6 DEF LockedInBody
<1>8. LevelsAccounted'
  <2> SUFFICES ASSUME NEW c \in Classes, holder'[c] # {}
               PROVE  \E u \in Threads : /\ holder'[c] = {u}
                                         /\ count'[c] = Cardinality(Running(u, c)')
                                         /\ count'[c] > 0
      BY <1>2, <1>4 DEF LevelsAccounted
  <2>1. CASE c = d
    BY <1>2, <1>4, <2>1
  <2>2. CASE c # d
    <3>1. PICK u \in Threads : /\ holder[c] = {u}
                               /\ count[c] = Cardinality(Running(u, c))
                               /\ count[c] > 0
      BY <1>2, <2>2 DEF LevelsAccounted
    <3> QED
      BY <1>2, <1>6, <2>2, <3>1
  <2> QED
    BY <2>1, <2>2
<1> QED
  BY <1>7, <1>8

LEMMA CountLess ==
    ASSUME Base, LockedInBody, LevelsAccounted, NEW t \in Threads, NEW d \in Classes,
           Release(t, d), OnlyRuns(t, d), NEW i, i \in Running(t, d),
           Running(t, d)' = Running(t, d) \ {i}
    PROVE  LockedInBody' /\ LevelsAccounted'
<1>1. holder[d] = {t} /\ count[d] = Cardinality(Running(t, d)) /\ count[d] > 0
  BY DEF LockedInBody, LevelsAccounted
<1>2. /\ count' = [count EXCEPT ![d] = count[d] - 1]
      /\ holder' = [holder EXCEPT ![d] = IF count[d] = 1 THEN {} ELSE {t}]
  BY <1>1 DEF Release
<1>3. /\ holder'[d] = IF count[d] = 1 THEN {} ELSE {t}
      /\ count'[d] = count[d] - 1
      /\ \A c \in Classes \ {d} : holder'[c] = holder[c] /\ count'[c] = count[c]
  BY <1>2 DEF Base, BaseType
<1>4. count'[d] = Cardinality(Running(t, d)')
  <2>1. Cardinality(Running(t, d) \ {i}) = Cardinality(Running(t, d)) - 1
    BY RunningFinite, FS_RemoveElement
  <2> QED
    BY <1>1, <1>3, <2>1
<1>5. \A u \in Threads \ {t} : Running(u, d)' = {}
  BY <1>1 DEF LockedInBody, OnlyRuns, RunsSame
<1>6. ASSUME NEW c \in Classes \ {d}, NEW u \in Threads PROVE Running(u, c)' = Running(u, c)
  BY DEF OnlyRuns, RunsSame
<1>7. count[d] = 1 => Running(t, d)' = {}
  <2>1. IsFiniteSet(Running(t, d) \ {i})
    BY RunningFinite, FS_RemoveElement
  <2> QED
    BY <1>3, <1>4, <2>1, FS_EmptySet
<1>8. LockedInBody'
  BY <1>3, <1>5, <1>6, <1>7 DEF LockedInBody
<1>9. LevelsAccounted'
  <2> SUFFICES ASSUME NEW c \in Classes
               PROVE  IF holder'[c] = {} THEN count'[c] = 0
                      ELSE \E u \in Threads : /\ holder'[c] = {u}
                                              /\ count'[c] = Cardinality(Running(u, c)')
                                              /\ count'[c] > 0
      BY DEF LevelsAccounted
  <2>1. CASE c = d
    <3>1. count[d] \in Nat
      BY DEF Base, BaseType
    <3>2. CASE count[d] = 1
      BY <1>3, <2>1, <3>2
    <3>3. CASE count[d] # 1
      <4>1. holder'[d] = {t} /\ count'[d] > 0 /\ count'[d] = Cardinality(Running(t, d)')
        BY <1>1, <1>3, <1>4, <3>1, <3>3
      <4>2. Running(t, c)' = Running(t, d)'
        BY <2>1 DEF Running
      <4> QED
        BY <2>1, <4>1, <4>2
    <3> QED
      BY <3>2, <3>3
  <2>2. CASE c # d
    <3>1. CASE holder[c] = {}
      BY <1>3, <2>2, <3>1 DEF LevelsAccounted
    <3>2. CASE holder[c] # {}
      <4>1. PICK u \in Threads : /\ holder[c] = {u}
                                 /\ count[c] = Cardinality(Running(u, c))
                                 /\ count[c] > 0
        BY <3>2 DEF LevelsAccounted
      <4> QED
        BY <1>3, <1>6, <2>2, <4>1
    <3> QED
      BY <3>1, <3>2
  <2> QED
    BY <2>1, <2>2
<1> QED
  BY <1>8, <1>9

LEMMA RunningBase ==
    ASSUME Base, NEW t \in Threads, level[t] > 0, NEW c \in Classes
    PROVE  level[t] \in Running(t, c) <=> At(t, "body") /\ Top(t).class = c
BY TopIsFrame DEF Running, At, Top

LEMMA PlaceRuns ==
    ASSUME Base, NEW t \in Threads, level[t] > 0, NEW d \in Classes, d = Top(t).class,
           NEW p \in Places, Place(t, p), UNCHANGED level
    PROVE  /\ OnlyRuns(t, d)
           /\ Running(t, d)' = IF p = "body" THEN Running(t, d) \cup {level[t]}
                               ELSE Running(t, d) \ {level[t]}
<1>1. level[t] \in Levels /\ Top(t) \in Frames /\ Sets(t, level[t], [Top(t) EXCEPT !.at = p])
  BY PlaceSets
<1>2. frame'[t][level[t]].at = p /\ frame'[t][level[t]].class = d
  BY <1>1 DEF Sets, Frames
<1>3. \A u \in Threads : Open(u)' = Open(u) /\ Open(u) \subseteq Levels
  BY ApiLocksAssumption DEF Open, Levels, Base, BaseType
<1>4. \A u \in Threads \ {t} : RunsSame(u)
  BY <1>1, <1>3 DEF RunsSame, Running, Sets
<1>5. \A c \in Classes \ {d} : Running(t, c)' = Running(t, c)
  <2> TAKE c \in Classes \ {d}
  <2>1. \A j \in Open(t) : (frame'[t][j].class = c /\ frame'[t][j].at = "body")
                              <=> (frame[t][j].class = c /\ frame[t][j].at = "body")
    BY <1>1, <1>2, <1>3 DEF Sets, Top
  <2> QED
    BY <1>3, <2>1 DEF Running
<1>6. \A j \in Open(t) : (frame'[t][j].class = d /\ frame'[t][j].at = "body")
                            <=> IF j = level[t] THEN p = "body"
                                ELSE frame[t][j].class = d /\ frame[t][j].at = "body"
  BY <1>1, <1>2, <1>3 DEF Sets
<1>7. level[t] \in Open(t)
  BY TopIsFrame
<1>8. {j \in Open(t) : frame'[t][j].class = d /\ frame'[t][j].at = "body"}
         = IF p = "body" THEN Running(t, d) \cup {level[t]} ELSE Running(t, d) \ {level[t]}
  BY <1>6, <1>7 DEF Running
<1>9. Running(t, d)' = {j \in Open(t) : frame'[t][j].class = d /\ frame'[t][j].at = "body"}
  BY <1>3 DEF Running
<1> QED
  BY <1>4, <1>5, <1>8, <1>9 DEF OnlyRuns

LEMMA PushRuns ==
    ASSUME Base, NEW t \in Threads, NEW c \in Classes, NEW k \in {"api", "plain"}, Push(t, c, k)
    PROVE  \A u \in Threads : RunsSame(u)
<1> DEFINE f == [class |-> c, kind |-> k, at |-> "lock"]
<1>1. /\ level[t] + 1 \in Levels
      /\ level' = [level EXCEPT ![t] = level[t] + 1]
      /\ Sets(t, level[t] + 1, f)
  BY PushSets
<1>2. \A u \in Threads : level'[u] = IF u = t THEN level[t] + 1 ELSE level[u]
  BY <1>1 DEF Base, BaseType
<1>3. \A u \in Threads : level[u] \in Nat /\ level[u] <= MaxDepth
  BY ApiLocksAssumption DEF Base, BaseType
<1>4. ASSUME NEW u \in Threads, NEW d \in Classes PROVE Running(u, d)' = Running(u, d)
  <2>1. ASSUME NEW j \in Running(u, d) PROVE j \in Running(u, d)'
    <3>1. j \in Levels /\ j <= level[u] /\ j <= level'[u] /\ (u # t \/ j # level[t] + 1)
      BY <1>2, <1>3, ApiLocksAssumption DEF Running, Open, Levels
    <3> QED
      BY <1>1, <3>1 DEF Running, Open, Sets, Levels
  <2>2. ASSUME NEW j \in Running(u, d)' PROVE j \in Running(u, d)
    <3>1. j \in Nat /\ 1 <= j /\ j <= level'[u] /\ frame'[u][j].class = d /\ frame'[u][j].at = "body"
      BY <1>2, <1>3 DEF Running, Open
    <3>2. ~ (u = t /\ j = level[t] + 1)
      BY <1>1, <3>1 DEF Sets
    <3>3. j \in Levels /\ j <= level[u]
      BY <1>2, <1>3, <3>1, <3>2, ApiLocksAssumption DEF Levels
    <3>4. frame'[u][j] = frame[u][j]
      BY <1>1, <3>2, <3>3 DEF Sets
    <3> QED
      BY <1>3, <3>1, <3>3, <3>4 DEF Running, Open
  <2> QED
    BY <2>1, <2>2
<1> QED
  BY <1>4 DEF RunsSame

LEMMA LeaveRuns ==
    ASSUME Base, NEW t \in Threads, level[t] > 0, ~ At(t, "waiting"), Leave(t),
           NEW d \in Classes, d = Top(t).class
    PROVE  OnlyRuns(t, d) /\ Running(t, d)' = Running(t, d) \ {level[t]}
<1>1. /\ level[t] \in Levels
      /\ level' = [level EXCEPT ![t] = level[t] - 1]
      /\ t \notin Woken(t)
      /\ \A j \in Levels : j # level[t] => frame'[t][j] = frame[t][j]
      /\ \A u \in Threads \ (Woken(t) \cup {t}) : frame'[u] = frame[u]
      /\ \A u \in Woken(t) :
           /\ At(u, "waiting")
           /\ frame'[u][level[u]] = [Top(u) EXCEPT !.at = "guarded"]
           /\ \A j \in Levels : j # level[u] => frame'[u][j] = frame[u][j]
  BY LeaveSets
<1>2. \A u \in Threads : /\ level[u] \in Nat /\ level[u] <= MaxDepth
                         /\ level'[u] = IF u = t THEN level[t] - 1 ELSE level[u]
                         /\ Open(u) \subseteq Levels
  BY <1>1, ApiLocksAssumption DEF Base, BaseType, Open, Levels
<1>3. Open(t)' = Open(t) \ {level[t]}
  BY <1>1, <1>2 DEF Open, Levels
<1>4. \A c \in Classes : Running(t, c)' = Running(t, c) \ {level[t]}
  BY <1>1, <1>2, <1>3 DEF Running
<1>5. \A c \in Classes \ {d} : Running(t, c)' = Running(t, c)
  BY <1>4, RunningBase
<1>6. ASSUME NEW u \in Threads \ {t}, NEW c \in Classes PROVE Running(u, c)' = Running(u, c)
  <2>1. Open(u)' = Open(u)
    BY <1>2 DEF Open
  <2>2. CASE u \in Woken(t)
    <3>1. Top(u) \in Frames /\ level[u] > 0
      BY <1>1, <2>2, TopIsFrame DEF At
    <3>2. frame'[u][level[u]].at = "guarded" /\ frame[u][level[u]].at = "waiting"
      BY <1>1, <2>2, <3>1 DEF Frames, At, Top
    <3>3. \A j \in Open(u) : (frame'[u][j].class = c /\ frame'[u][j].at = "body")
                                <=> (frame[u][j].class = c /\ frame[u][j].at = "body")
      BY <1>1, <1>2, <2>2, <3>2
    <3> QED
      BY <2>1, <3>3 DEF Running
  <2>3. CASE u \notin Woken(t)
    BY <1>1, <2>1, <2>3 DEF Running
  <2> QED
    BY <2>2, <2>3
<1> QED
  BY <1>4, <1>5, <1>6 DEF OnlyRuns, RunsSame

LEMMA InvokeRuns ==
    ASSUME Base, NEW t \in Threads, NEW v \in Threads, NEW d \in Classes, Invoke(t, v, d)
    PROVE  \A u \in Threads : RunsSame(u)
<1>1. /\ level'[t] = level[t] /\ level'[v] = 1 /\ v # t /\ level[v] = 0
      /\ Top(v)' = [class |-> d, kind |-> "api", at |-> "lock"]
      /\ \A j \in Levels : j # level[t] => frame'[t][j] = frame[t][j]
      /\ At(t, "guarded") /\ At(t, "waiting")'
  <2>1. level[v] = 0 /\ At(t, "guarded")
    BY DEF Invoke
  <2> QED
    BY <2>1, InvokeTops DEF Places
<1>2. \A u \in Threads : Open(u) \subseteq Levels
  BY ApiLocksAssumption DEF Base, BaseType, Open, Levels
<1>3. ASSUME NEW c \in Classes PROVE Running(v, c)' = Running(v, c)
  <2>1. Open(v) = {} /\ Open(v)' = {1}
    BY <1>1 DEF Open
  <2>2. frame'[v][1].at = "lock"
    BY <1>1 DEF Top
  <2> QED
    BY <2>1, <2>2 DEF Running
<1>4. ASSUME NEW c \in Classes PROVE Running(t, c)' = Running(t, c)
  <2>1. Open(t)' = Open(t)
    BY <1>1 DEF Open
  <2>2. frame[t][level[t]].at = "guarded" /\ frame'[t][level[t]].at = "waiting"
    BY <1>1 DEF At, Top
  <2>3. \A j \in Open(t) : (frame'[t][j].class = c /\ frame'[t][j].at = "body")
                              <=> (frame[t][j].class = c /\ frame[t][j].at = "body")
    BY <1>1, <1>2, <2>2
  <2> QED
    BY <2>1, <2>3 DEF Running
<1>5. ASSUME NEW u \in Threads \ {t, v}, NEW c \in Classes PROVE Running(u, c)' = Running(u, c)
  <2>1. level'[u] = level[u] /\ frame'[u] = frame[u]
    BY DEF Invoke, Base, BaseType, FrameType
  <2> QED
    BY <2>1 DEF Running, Open
<1> QED
  BY <1>3, <1>4, <1>5 DEF RunsSame

-----------------------------------------------------------------------------
(* Where every call is served by another thread *)

\* A call at the bottom, with the flag set; LockApiGuards on it; code runs below
\* the top.
StackInv ==
    /\ \A t \in Threads : level[t] > 0 => flag[t]
    /\ \A t \in Threads, i \in Levels : i < level[t] => frame[t][i].at = "body"
    /\ \A t \in Threads, i \in Levels : i <= level[t] => (frame[t][i].kind = "api" <=> i = 1)

PlainInv == LockedInBody /\ LevelsAccounted /\ StackInv

LEMMA PlainInit == ASSUME Init PROVE PlainInv
<1>1. \A t \in Threads, c \in Classes : Running(t, c) = {}
  BY DEF Init, Running, Open
<1> QED
  BY <1>1 DEF Init, PlainInv, StackInv, LockedInBody, LevelsAccounted, Levels

LEMMA PlainPlace ==
    ASSUME Base, PlainInv, NEW t \in Threads, level[t] > 0, NEW p \in Places, Place(t, p),
           UNCHANGED <<flag, level>>,
           \/ p = "body" /\ ~ At(t, "body") /\ Acquire(t, Top(t).class)
           \/ p # "body" /\ At(t, "body") /\ Release(t, Top(t).class)
           \/ p # "body" /\ ~ At(t, "body") /\ UNCHANGED <<holder, count>>
    PROVE  PlainInv'
<1>1. StackInv'
  <2>1. Sets(t, level[t], [Top(t) EXCEPT !.at = p]) /\ Top(t) \in Frames
    BY PlaceSets
  <2>2. \A u \in Threads, i \in Levels : frame'[u][i].kind = frame[u][i].kind
    BY <2>1 DEF Sets, Frames, Top
  <2>3. \A u \in Threads, i \in Levels : i < level[u] => frame'[u][i] = frame[u][i]
    <3> TAKE u \in Threads, i \in Levels
    <3> HAVE i < level[u]
    <3>1. i # level[u]
      BY ApiLocksAssumption DEF Levels, Base, BaseType
    <3> QED
      BY <2>1, <3>1 DEF Sets
  <2> QED
    BY <2>2, <2>3 DEF PlainInv, StackInv
<1>2. PICK d \in Classes : d = Top(t).class
  BY TopIsFrame DEF Frames
<1>3. /\ OnlyRuns(t, d)
      /\ Running(t, d)' = IF p = "body" THEN Running(t, d) \cup {level[t]}
                          ELSE Running(t, d) \ {level[t]}
  BY <1>2, PlaceRuns
<1>4. level[t] \in Running(t, d) <=> At(t, "body")
  BY <1>2, RunningBase
<1>5. CASE p = "body" /\ ~ At(t, "body") /\ Acquire(t, Top(t).class)
  BY <1>1, <1>2, <1>3, <1>4, <1>5, CountMore DEF PlainInv
<1>6. CASE p # "body" /\ At(t, "body") /\ Release(t, Top(t).class)
  BY <1>1, <1>2, <1>3, <1>4, <1>6, CountLess DEF PlainInv
<1>7. CASE p # "body" /\ ~ At(t, "body") /\ UNCHANGED <<holder, count>>
  <2>1. \A u \in Threads : RunsSame(u)
    BY <1>3, <1>4, <1>7 DEF OnlyRuns, RunsSame
  <2> QED
    BY <1>1, <1>7, <2>1, CountSame DEF PlainInv
<1> QED
  BY <1>5, <1>6, <1>7

LEMMA PlainPush ==
    ASSUME Base, PlainInv, NEW t \in Threads, NEW c \in Classes, NEW k \in {"api", "plain"},
           Push(t, c, k), UNCHANGED <<holder, count>>,
           \/ level[t] = 0 /\ k = "api" /\ flag' = [flag EXCEPT ![t] = TRUE]
           \/ At(t, "body") /\ k = "plain" /\ UNCHANGED flag
    PROVE  PlainInv'
<1>1. /\ level[t] + 1 \in Levels
      /\ level' = [level EXCEPT ![t] = level[t] + 1]
      /\ Sets(t, level[t] + 1, [class |-> c, kind |-> k, at |-> "lock"])
  BY PushSets
<1>2. \A u \in Threads : /\ level[u] \in Nat
                         /\ level'[u] = IF u = t THEN level[t] + 1 ELSE level[u]
  BY <1>1, ApiLocksAssumption DEF Base, BaseType
<1>3. \A u \in Threads : level'[u] > 0 => flag'[u]
  BY <1>2 DEF PlainInv, StackInv, At, Base, BaseType
<1>4. ASSUME NEW u \in Threads, NEW i \in Levels, ~ (u = t /\ i = level[t] + 1), i <= level'[u]
      PROVE  i <= level[u] /\ frame'[u][i] = frame[u][i]
  <2>1. i \in Nat
    BY DEF Levels
  <2>2. i <= level[u]
    BY <1>2, <1>4, <2>1
  <2> QED
    BY <1>1, <1>4, <2>2 DEF Sets
<1>5. \A u \in Threads, i \in Levels : i < level'[u] => frame'[u][i].at = "body"
  <2> TAKE u \in Threads, i \in Levels
  <2> HAVE i < level'[u]
  <2>1. i \in Nat /\ i >= 1 /\ ~ (u = t /\ i = level[t] + 1)
    BY <1>2 DEF Levels
  <2>2. i <= level[u] /\ frame'[u][i] = frame[u][i]
    BY <1>2, <1>4, <2>1
  <2>3. i < level[u] \/ (u = t /\ i = level[t])
    BY <1>2, <2>1, <2>2
  <2>4. CASE u = t /\ i = level[t]
    BY <2>1, <2>2, <2>4 DEF At, Top
  <2> QED
    BY <2>2, <2>3, <2>4 DEF PlainInv, StackInv
<1>6. \A u \in Threads, i \in Levels : i <= level'[u] => (frame'[u][i].kind = "api" <=> i = 1)
  <2> TAKE u \in Threads, i \in Levels
  <2> HAVE i <= level'[u]
  <2>1. CASE u = t /\ i = level[t] + 1
    BY <1>1, <1>2, <2>1 DEF Sets, At
  <2>2. CASE ~ (u = t /\ i = level[t] + 1)
    BY <1>4, <2>2 DEF PlainInv, StackInv
  <2> QED
    BY <2>1, <2>2
<1>7. LockedInBody' /\ LevelsAccounted'
  BY PushRuns, CountSame DEF PlainInv
<1> QED
  BY <1>3, <1>5, <1>6, <1>7 DEF PlainInv, StackInv

LEMMA PlainReturn ==
    ASSUME Base, PlainInv, NEW t \in Threads, Return(t)
    PROVE  PlainInv'
<1>1. level[t] > 0 /\ ~ At(t, "waiting") /\ Leave(t)
  BY DEF Return, At
<1>2. /\ level[t] \in Levels /\ Top(t) \in Frames
      /\ level' = [level EXCEPT ![t] = level[t] - 1]
      /\ t \notin Woken(t)
      /\ \A j \in Levels : j # level[t] => frame'[t][j] = frame[t][j]
      /\ \A u \in Threads \ (Woken(t) \cup {t}) : frame'[u] = frame[u]
      /\ \A u \in Woken(t) :
           /\ At(u, "waiting")
           /\ frame'[u][level[u]] = [Top(u) EXCEPT !.at = "guarded"]
           /\ \A j \in Levels : j # level[u] => frame'[u][j] = frame[u][j]
  BY <1>1, LeaveSets
<1>3. \A u \in Threads : /\ level[u] \in Nat
                         /\ level'[u] = IF u = t THEN level[t] - 1 ELSE level[u]
  BY <1>2, ApiLocksAssumption DEF Base, BaseType
<1>4. \A u \in Threads : level'[u] > 0 => flag'[u]
  <2> TAKE u \in Threads
  <2> HAVE level'[u] > 0
  <2>1. level[u] > 0 /\ flag[u]
    BY <1>3 DEF PlainInv, StackInv
  <2>2. CASE u # t
    BY <1>1, <2>1, <2>2 DEF Leave, Base, BaseType
  <2>3. CASE u = t
    <3>1. level[t] > 1 /\ Top(t).kind # "api"
      BY <1>2, <1>3, <2>3 DEF PlainInv, StackInv, Top
    <3> QED
      BY <1>1, <2>1, <2>3, <3>1 DEF Leave
  <2> QED
    BY <2>2, <2>3
<1>5. ASSUME NEW u \in Threads, NEW i \in Levels, i <= level'[u]
      PROVE  /\ i <= level[u] /\ (i < level'[u] => i < level[u])
             /\ frame'[u][i].kind = frame[u][i].kind
             /\ i < level[u] => frame'[u][i] = frame[u][i]
  <2>1. i \in Nat
    BY DEF Levels
  <2>2. i <= level[u] /\ (i < level'[u] => i < level[u]) /\ (u = t => i # level[t])
    BY <1>3, <1>5, <2>1
  <2>3. CASE u = t
    BY <1>2, <2>2, <2>3
  <2>4. CASE u \in Woken(t)
    <3>1. Top(u) \in Frames /\ level[u] > 0
      BY <1>2, <2>4, TopIsFrame DEF At
    <3>2. i < level[u] => i # level[u]
      BY <1>3, <2>1
    <3>3. frame'[u][level[u]].kind = frame[u][level[u]].kind
      BY <1>2, <2>4, <3>1 DEF Top, Frames
    <3> QED
      BY <1>2, <2>2, <2>4, <3>2, <3>3
  <2>5. CASE u \notin Woken(t) \cup {t}
    BY <1>2, <2>2, <2>5
  <2> QED
    BY <2>3, <2>4, <2>5
<1>6. \A u \in Threads, i \in Levels : i < level'[u] => frame'[u][i].at = "body"
  <2> TAKE u \in Threads, i \in Levels
  <2> HAVE i < level'[u]
  <2>1. i <= level'[u]
    BY <1>3 DEF Levels
  <2> QED
    BY <1>5, <2>1 DEF PlainInv, StackInv
<1>7. \A u \in Threads, i \in Levels : i <= level'[u] => (frame'[u][i].kind = "api" <=> i = 1)
  BY <1>5 DEF PlainInv, StackInv
<1>8. LockedInBody' /\ LevelsAccounted'
  <2>1. PICK d \in Classes : d = Top(t).class
    BY <1>2 DEF Frames
  <2>2. OnlyRuns(t, d) /\ Running(t, d)' = Running(t, d) \ {level[t]}
    BY <1>1, <2>1, LeaveRuns
  <2>3. level[t] \in Running(t, d) <=> At(t, "body")
    BY <1>1, <2>1, RunningBase
  <2>4. CASE At(t, "body") /\ Release(t, Top(t).class)
    BY <2>1, <2>2, <2>3, <2>4, CountLess DEF PlainInv
  <2>5. CASE At(t, "unlocked") /\ UNCHANGED <<holder, count>>
    <3>1. \A u \in Threads : RunsSame(u)
      BY <2>2, <2>3, <2>5 DEF OnlyRuns, RunsSame, At
    <3> QED
      BY <2>5, <3>1, CountSame DEF PlainInv
  <2> QED
    BY <2>4, <2>5 DEF Return
<1> QED
  BY <1>4, <1>6, <1>7, <1>8 DEF PlainInv, StackInv

LEMMA PlainInvoke ==
    ASSUME Base, PlainInv, NEW t \in Threads, NEW v \in Threads, NEW d \in Classes, Invoke(t, v, d)
    PROVE  PlainInv'
<1>1. /\ level'[t] = level[t] /\ level'[v] = 1 /\ v # t
      /\ Top(t)' = [Top(t) EXCEPT !.at = "waiting"]
      /\ Top(v)' = [class |-> d, kind |-> "api", at |-> "lock"]
      /\ \A j \in Levels : j # level[t] => frame'[t][j] = frame[t][j]
  BY InvokeTops
<1>2. \A u \in Threads : level[u] \in Nat
  BY ApiLocksAssumption DEF Base, BaseType
<1>3. \A u \in Threads \ {t, v} : level'[u] = level[u] /\ frame'[u] = frame[u]
  BY DEF Invoke, Base, BaseType, FrameType
<1>4. \A u \in Threads : level'[u] > 0 => flag'[u]
  <2>1. flag' = [flag EXCEPT ![v] = TRUE]
    BY DEF Invoke
  <2> QED
    BY <1>1, <1>3, <2>1 DEF PlainInv, StackInv, Base, BaseType
<1>5. \A u \in Threads, i \in Levels : i < level'[u] => frame'[u][i].at = "body"
  <2> TAKE u \in Threads, i \in Levels
  <2> HAVE i < level'[u]
  <2>1. i \in Nat /\ i >= 1 /\ u # v
    BY <1>1 DEF Levels
  <2>2. level'[u] = level[u] /\ i # level[u]
    BY <1>1, <1>2, <1>3, <2>1
  <2> QED
    BY <1>1, <1>3, <2>1, <2>2 DEF PlainInv, StackInv
<1>6. \A u \in Threads, i \in Levels : i <= level'[u] => (frame'[u][i].kind = "api" <=> i = 1)
  <2> TAKE u \in Threads, i \in Levels
  <2> HAVE i <= level'[u]
  <2>1. CASE u = v
    <3>1. i = 1
      BY <1>1, <2>1 DEF Levels
    <3> QED
      BY <1>1, <2>1, <3>1 DEF Top
  <2>2. CASE u = t
    <3>1. Top(t) \in Frames
      BY TopIsFrame DEF Invoke, At
    <3>2. frame'[t][level[t]].kind = frame[t][level[t]].kind
      BY <1>1, <3>1 DEF Top, Frames
    <3> QED
      BY <1>1, <2>2, <3>2 DEF PlainInv, StackInv
  <2>3. CASE u \notin {t, v}
    BY <1>3, <2>3 DEF PlainInv, StackInv
  <2> QED
    BY <2>1, <2>2, <2>3
<1>7. LockedInBody' /\ LevelsAccounted'
  <2>1. UNCHANGED <<holder, count>>
    BY DEF Invoke
  <2> QED
    BY <2>1, InvokeRuns, CountSame DEF PlainInv
<1> QED
  BY <1>4, <1>5, <1>6, <1>7 DEF PlainInv, StackInv

LEMMA PlainStep ==
    ASSUME Base, PlainInv, "direct" \notin Nesting, [Next]_vars
    PROVE  PlainInv'
<1>1. ASSUME NEW t \in Threads, NEW c \in Classes, Call(t, c) PROVE PlainInv'
  BY <1>1, PlainPush DEF Call
<1>2. ASSUME NEW t \in Threads, NEW c \in Classes, Guard(t, c) PROVE PlainInv'
  BY <1>2, PlainPush DEF Guard
<1>3. ASSUME NEW t \in Threads, Lock(t) \/ Relock(t) PROVE PlainInv'
  <2>1. level[t] > 0 /\ ~ At(t, "body")
    BY <1>3 DEF Lock, Relock, At
  <2> QED
    BY <1>3, <2>1, PlainPlace DEF Lock, Relock, Places
<1>4. ASSUME NEW t \in Threads, Unlock(t) \/ GuardBegin(t) PROVE PlainInv'
  <2>1. level[t] > 0 /\ At(t, "body") /\ flag[t]
    BY <1>4 DEF Unlock, GuardBegin, At, PlainInv, StackInv
  <2> QED
    BY <1>4, <2>1, PlainPlace DEF Unlock, GuardBegin, Places
<1>5. ASSUME NEW t \in Threads, LockAgain(t) \/ GuardEnd(t) PROVE PlainInv'
  <2>1. level[t] > 0 /\ ~ At(t, "body") /\ flag[t]
    BY <1>5 DEF LockAgain, GuardEnd, At, PlainInv, StackInv
  <2> QED
    BY <1>5, <2>1, PlainPlace DEF LockAgain, GuardEnd, Places
<1>6. CASE UNCHANGED vars
  <2>1. \A u \in Threads : RunsSame(u)
    BY <1>6 DEF vars, RunsSame, Running, Open
  <2> QED
    BY <1>6, <2>1, CountSame DEF vars, PlainInv, StackInv
<1> QED
  BY <1>1, <1>2, <1>3, <1>4, <1>5, <1>6, PlainInvoke, PlainReturn DEF Next, Goes, InvokeDirect

-----------------------------------------------------------------------------
(* Theorems *)

\* Base holds in every reachable state.
THEOREM BaseInvariance == Spec => []Base
<1>1. Init => Base
  BY BaseInit
<1>2. Base /\ [Next]_vars => Base'
  BY BaseStep
<1> QED
  BY <1>1, <1>2, PTL DEF Spec

\* However threads call each other, over direct links too: as long as no LockApiGuard
\* nests in a wrapped function, nobody waits while it owns a mutex.
THEOREM NoDeadlock == ASSUME "plain" \notin Nesting PROVE Spec => []HoldersNeverWait
<1>1. Init => DirectInv
  BY DirectInit
<1>2. Base /\ DirectInv /\ [Next]_vars => DirectInv'
  BY DirectStep
<1>3. Base /\ DirectInv => HoldersNeverWait
  <2> SUFFICES ASSUME Base, DirectInv, NEW c \in Classes, NEW t \in Threads, t \in holder[c]
               PROVE  ~ At(t, "waiting") /\ ~ At(t, "lock") /\ ~ At(t, "relock")
    BY DEF HoldersNeverWait
  <2>1. At(t, "body")
    BY DEF DirectInv, Owns
  <2> QED
    BY <2>1 DEF At
<1> QED
  BY <1>1, <1>2, <1>3, BaseInvariance, PTL DEF Spec

LEMMA PlainInvariance == ASSUME "direct" \notin Nesting PROVE Spec => [](Base /\ PlainInv)
<1>1. Init => PlainInv
  BY PlainInit
<1>2. Base /\ PlainInv /\ [Next]_vars => PlainInv'
  BY PlainStep
<1> QED
  BY <1>1, <1>2, BaseInvariance, PTL DEF Spec

\* As long as no call is served by its caller's thread, code of a class runs in the
\* owner of the class's mutex only, however UnlockApiGuards and LockApiGuards nest.
THEOREM MutualExclusion == ASSUME "direct" \notin Nesting PROVE Spec => []LockedInBody
<1>1. PlainInv => LockedInBody
  BY DEF PlainInv
<1> QED
  BY <1>1, PlainInvariance, PTL

\* Then a mutex is locked as often as open calls and guards rely on it.
THEOREM Balance == ASSUME "direct" \notin Nesting PROVE Spec => []LevelsAccounted
<1>1. PlainInv => LevelsAccounted
  BY DEF PlainInv
<1> QED
  BY <1>1, PlainInvariance, PTL

\* Every variable keeps its type, and no mutex is locked more often than calls and
\* guards are open on a thread.
THEOREM TypeCorrect == ASSUME "direct" \notin Nesting PROVE Spec => []TypeOK
<1>1. Base /\ PlainInv => TypeOK
  <2> SUFFICES ASSUME Base, PlainInv PROVE TypeOK
    OBVIOUS
  <2>1. ASSUME NEW c \in Classes PROVE count[c] \in 0 .. MaxDepth
    <3>1. CASE holder[c] = {}
      BY <3>1, ApiLocksAssumption DEF PlainInv, LevelsAccounted
    <3>2. CASE holder[c] # {}
      <4>1. PICK t \in Threads : count[c] = Cardinality(Running(t, c))
        BY <3>2 DEF PlainInv, LevelsAccounted
      <4>2. level[t] \in 0 .. MaxDepth
        BY DEF Base, BaseType
      <4>3. IsFiniteSet(Open(t)) /\ Cardinality(Open(t)) = level[t]
        <5>1. level[t] \in Int /\ level[t] >= 0
          BY <4>2, ApiLocksAssumption
        <5>2. /\ IsFiniteSet(1 .. level[t])
              /\ Cardinality(1 .. level[t]) = IF 1 > level[t] THEN 0 ELSE level[t] - 1 + 1
          BY <5>1, FS_Interval
        <5> QED
          BY <5>1, <5>2 DEF Open
      <4>4. Cardinality(Running(t, c)) <= Cardinality(Open(t))
        BY <4>3, FS_Subset DEF Running
      <4>5. count[c] \in Nat
        BY DEF Base, BaseType
      <4>6. count[c] <= level[t]
        BY <4>1, <4>3, <4>4
      <4> QED
        BY <4>2, <4>5, <4>6, ApiLocksAssumption
    <3> QED
      BY <3>1, <3>2
  <2> QED
    BY <2>1 DEF TypeOK, Base, BaseType, FrameType
<1> QED
  BY <1>1, PlainInvariance, PTL
=============================================================================
