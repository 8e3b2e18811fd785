------------------------------ MODULE ApiLocks ------------------------------
(***************************************************************************)
(* The API locks of helpers/UtilsSynchro.hpp: one recursive mutex per      *)
(* plugin class, ApiLocks<C>::mtx, and one flag per thread,                *)
(* isThreadUsingLockedApi.  The functions that getFunctionToCall() wraps   *)
(* (and the IARM handlers of UtilsSynchroIarm.hpp, which have the same     *)
(* shape) run under the mutex of their class; UnlockApiGuard gives it back *)
(* around a call of another plugin; LockApiGuard takes it anywhere.        *)
(*                                                                         *)
(* A plugin calls another one by Invoke.  Either another thread serves the *)
(* call and the caller waits for it, or, over a direct link, the caller's  *)
(* own thread does.                                                        *)
(***************************************************************************)
EXTENDS Naturals, FiniteSets

CONSTANTS
    Threads,
    Classes,    \* the plugin classes, one mutex each
    Nesting,    \* what nests on a thread: "direct" calls, LockApiGuards ("plain")
    MaxDepth,   \* bound: how many calls and guards are open on one thread
    NoFrame     \* a level of a thread that is not in use

ASSUME ApiLocksAssumption ==
    /\ IsFiniteSet(Threads)
    /\ Nesting \subseteq {"direct", "plain"}
    /\ MaxDepth \in Nat \ {0}
    /\ NoFrame \notin [class : Classes, kind : {"api", "plain"}, at : STRING]

Levels == 1 .. MaxDepth

VARIABLES
    flag,   \* per thread, isThreadUsingLockedApi
    holder, \* per class, the owner of its mutex as a set of at most one thread
    count,  \* per class, how often its owner has locked it
    level,  \* per thread, how many calls and guards are open
    frame,  \* per thread and level, an open call or guard
    caller  \* per thread, the thread that waits for the call it serves, if any

vars == <<flag, holder, count, level, frame, caller>>

\* Where an open call or guard stands: it wants the mutex, has it, has an
\* UnlockApiGuard alive, waits there for an Invoke, wants the mutex back, or is a
\* LockApiGuard that has been unlocked.
Places == {"lock", "body", "guarded", "waiting", "relock", "unlocked"}

\* "api" is a wrapped function, "plain" a LockApiGuard.
Frames == [class : Classes, kind : {"api", "plain"}, at : Places]

TypeOK ==
    /\ flag \in [Threads -> BOOLEAN]
    /\ holder \in [Classes -> SUBSET Threads]
    /\ count \in [Classes -> 0 .. MaxDepth]
    /\ level \in [Threads -> 0 .. MaxDepth]
    /\ frame \in [Threads -> [Levels -> Frames \cup {NoFrame}]]
    /\ caller \in [Threads -> SUBSET Threads]

Init ==
    /\ flag = [t \in Threads |-> FALSE]
    /\ holder = [c \in Classes |-> {}]
    /\ count = [c \in Classes |-> 0]
    /\ level = [t \in Threads |-> 0]
    /\ frame = [t \in Threads |-> [i \in Levels |-> NoFrame]]
    /\ caller = [t \in Threads |-> {}]

-----------------------------------------------------------------------------
(* The mutex and the stack of a thread *)

Acquire(t, c) ==
    /\ holder[c] \subseteq {t}
    /\ holder' = [holder EXCEPT ![c] = {t}]
    /\ count' = [count EXCEPT ![c] = @ + 1]

\* Mutant: a mutex that is not recursive; one unlock() frees it.
ReleaseAll(t, c) ==
    IF holder[c] = {t}
    THEN /\ count' = [count EXCEPT ![c] = 0]
         /\ holder' = [holder EXCEPT ![c] = {}]
    ELSE UNCHANGED <<holder, count>>

\* unlock() by a thread that is not the owner is undefined; the recursive mutexes
\* of POSIX refuse it, and std::recursive_mutex ignores that.
Release(t, c) ==
    IF holder[c] = {t}
    THEN /\ count' = [count EXCEPT ![c] = @ - 1]
         /\ holder' = [holder EXCEPT ![c] = IF count[c] = 1 THEN {} ELSE {t}]
    ELSE UNCHANGED <<holder, count>>

Top(t) == frame[t][level[t]]

At(t, place) == level[t] > 0 /\ Top(t).at = place

Place(t, place) == frame' = [frame EXCEPT ![t][level[t]].at = place]

Push(t, c, kind) ==
    /\ level[t] < MaxDepth
    /\ level' = [level EXCEPT ![t] = @ + 1]
    /\ frame' = [frame EXCEPT ![t][level[t] + 1] = [class |-> c, kind |-> kind, at |-> "lock"]]

-----------------------------------------------------------------------------
(* Calls *)

\* A wrapped function is called on a thread that does nothing else.
Call(t, c) ==
    /\ level[t] = 0
    /\ Push(t, c, "api")
    /\ flag' = [flag EXCEPT ![t] = TRUE]
    /\ UNCHANGED <<holder, count, caller>>

\* A LockApiGuard, of the class whose code runs or another; it leaves the flag alone.
Guard(t, c) ==
    /\ "plain" \in Nesting
    /\ At(t, "body")
    /\ Push(t, c, "plain")
    /\ UNCHANGED <<flag, holder, count, caller>>

Lock(t) ==
    /\ At(t, "lock")
    /\ Acquire(t, Top(t).class)
    /\ Place(t, "body")
    /\ UNCHANGED <<flag, level, caller>>

\* LockApiGuard::unlock() and lock().
Unlock(t) ==
    /\ At(t, "body")
    /\ Top(t).kind = "plain"
    /\ Release(t, Top(t).class)
    /\ Place(t, "unlocked")
    /\ UNCHANGED <<flag, level, caller>>

LockAgain(t) ==
    /\ At(t, "unlocked")
    /\ Place(t, "lock")
    /\ UNCHANGED <<flag, holder, count, level, caller>>

\* The end of a call or guard.  A wrapped function resets the flag.  Who waits for
\* the call goes on.
Leave(t) ==
    /\ flag' = IF Top(t).kind = "api" THEN [flag EXCEPT ![t] = FALSE] ELSE flag
    /\ level' = [level EXCEPT ![t] = @ - 1]
    /\ IF level[t] = 1 /\ caller[t] # {}
       THEN /\ frame' = [u \in Threads |->
                          IF u = t THEN [frame[t] EXCEPT ![1] = NoFrame]
                          ELSE IF u \in caller[t] THEN [frame[u] EXCEPT ![level[u]].at = "guarded"]
                          ELSE frame[u]]
            /\ caller' = [caller EXCEPT ![t] = {}]
       ELSE /\ frame' = [frame EXCEPT ![t][level[t]] = NoFrame]
            /\ UNCHANGED caller

\* Mutant: a function that throws leaves its mutex locked.
ReturnThrows(t) ==
    /\ At(t, "body")
    /\ Release(t, Top(t).class) \/ UNCHANGED <<holder, count>>
    /\ Leave(t)

\* The function returns or throws, or the guard goes out of scope.
Return(t) ==
    /\ \/ At(t, "body") /\ Release(t, Top(t).class)
       \/ At(t, "unlocked") /\ UNCHANGED <<holder, count>>
    /\ Leave(t)

-----------------------------------------------------------------------------
(* UnlockApiGuard and the calls it is there for *)

\* Mutant: the mutex is kept while another plugin is called.
GuardBeginKeeps(t) ==
    /\ At(t, "body")
    /\ Place(t, "guarded")
    /\ UNCHANGED <<flag, holder, count, level, caller>>

\* The constructor.
GuardBegin(t) ==
    /\ At(t, "body")
    /\ Place(t, "guarded")
    /\ IF flag[t] THEN Release(t, Top(t).class) ELSE UNCHANGED <<holder, count>>
    /\ UNCHANGED <<flag, level, caller>>

\* Another plugin is called; thread u serves the call.
Invoke(t, u, c) ==
    /\ At(t, "guarded")
    /\ c # Top(t).class
    /\ level[u] = 0
    /\ u # t
    /\ level' = [level EXCEPT ![u] = 1]
    /\ frame' = [frame EXCEPT ![t][level[t]].at = "waiting",
                              ![u][1] = [class |-> c, kind |-> "api", at |-> "lock"]]
    /\ caller' = [caller EXCEPT ![u] = {t}]
    /\ flag' = [flag EXCEPT ![u] = TRUE]
    /\ UNCHANGED <<holder, count>>

\* Another plugin is called over a direct link, on the same thread.
InvokeDirect(t, c) ==
    /\ "direct" \in Nesting
    /\ At(t, "guarded")
    /\ c # Top(t).class
    /\ Push(t, c, "api")
    /\ flag' = [flag EXCEPT ![t] = TRUE]
    /\ UNCHANGED <<holder, count, caller>>

\* Mutant: the destructor takes nothing back.
GuardEndUnlocked(t) ==
    /\ At(t, "guarded")
    /\ Place(t, "body")
    /\ UNCHANGED <<flag, holder, count, level, caller>>

\* The destructor: without the flag it does nothing.
GuardEnd(t) ==
    /\ At(t, "guarded")
    /\ IF flag[t] THEN Place(t, "relock") ELSE Place(t, "body")
    /\ UNCHANGED <<flag, holder, count, level, caller>>

Relock(t) ==
    /\ At(t, "relock")
    /\ Acquire(t, Top(t).class)
    /\ Place(t, "body")
    /\ UNCHANGED <<flag, level, caller>>

-----------------------------------------------------------------------------
(* Specification *)

\* What a thread does with a call once it has begun.
Goes(t) ==
    \/ \E c \in Classes : Guard(t, c)
    \/ Lock(t) \/ Unlock(t) \/ LockAgain(t) \/ Return(t)
    \/ GuardBegin(t) \/ GuardEnd(t) \/ Relock(t)
    \/ \E u \in Threads, c \in Classes : Invoke(t, u, c)
    \/ \E c \in Classes : InvokeDirect(t, c)

Next == \E t \in Threads : Goes(t) \/ \E c \in Classes : Call(t, c)

Spec == Init /\ [][Next]_vars

\* A thread that can go on does.  This includes that a call ends some time; it
\* says nothing of who wins a mutex that several threads want.
LiveSpec == Spec /\ \A t \in Threads : WF_vars(Goes(t))

-----------------------------------------------------------------------------
(* Properties *)

Open(t) == 1 .. level[t]

\* The open calls and guards of a thread that rely on the mutex of a class.
Running(t, c) == {i \in Open(t) : frame[t][i].class = c /\ frame[t][i].at = "body"}

\* The code of a class runs in the thread that owns the mutex of the class, also
\* after an UnlockApiGuard has gone: no two threads are in it at a time.
LockedInBody ==
    \A t \in Threads, c \in Classes : Running(t, c) # {} => holder[c] = {t}

\* A mutex is locked as often as there is code that relies on it, so the last of
\* nested calls and guards to end frees it, and no guard takes another's level.
LevelsAccounted ==
    \A c \in Classes :
        IF holder[c] = {} THEN count[c] = 0
        ELSE \E t \in Threads :
                /\ holder[c] = {t}
                /\ count[c] = Cardinality(Running(t, c))
                /\ count[c] > 0

\* UnlockApiGuard is there "to prevent deadlock": a thread that owns a mutex waits
\* neither for a plugin it has called nor for a mutex it does not own, so threads
\* never wait for each other in a circle.
HoldersNeverWait ==
    \A c \in Classes, t \in Threads :
        t \in holder[c] =>
            /\ ~ At(t, "waiting")
            /\ At(t, "lock") \/ At(t, "relock") => holder[Top(t).class] = {t}

\* The comment on UnlockApiGuard: it "can unlock & re-lock api mutex to prevent deadlock"
\* when other plugins are called.  So the caller does not own that mutex meanwhile.
UnlockedAcrossInvoke ==
    \A t \in Threads : At(t, "waiting") => t \notin holder[Top(t).class]

\* Every mutex that is locked becomes free, however plugins call each other.
LockReleased == \A c \in Classes : holder[c] # {} ~> holder[c] = {}

=============================================================================
