------------------------------ MODULE TpTimer -------------------------------
(***************************************************************************)
(* TpTimer: a timer whose thread calls a callback and then, in Timed(),    *)
(* stops it or starts it again, while the plugin's thread may start() and  *)
(* stop() it.  Nothing is locked: the steps of start() and stop() of the   *)
(* two threads interleave.                                                 *)
(***************************************************************************)
EXTENDS Naturals

VARIABLES
    due,        \* the number of jobs that baseTimer has
    active,     \* m_isActive
    singleShot, \* m_isSingleShot
    timed,      \* where Timed() is: "waiting" for its time, "callback", "stop" or "start"
    doing,      \* per thread, what is left of a start() or stop(), or "nothing"
    met         \* history: the threads were both at it

vars == <<due, active, singleShot, timed, doing, met>>

Both == {"plugin", "timer"}

Init ==
    /\ due = 0 /\ active = FALSE /\ singleShot = FALSE
    /\ timed = "waiting"
    /\ doing = [t \in Both |-> "nothing"]
    /\ met = FALSE

\* baseTimer.Revoke(), which start() and stop() begin with.  It waits for no job under way: Timed()
\* calls it too.
Revoke(t, next) ==
    /\ doing[t] = "nothing"
    /\ due' = 0
    /\ doing' = [doing EXCEPT ![t] = next]

\* The plugin calls, in its thread.  On a timer that waits, this mends what went wrong before.
PluginCalls(next) ==
    /\ Revoke("plugin", next)
    /\ met' = IF timed = "waiting" THEN FALSE
              ELSE met \/ timed # "callback" \/ doing["timer"] # "nothing"
    /\ UNCHANGED <<active, singleShot, timed>>

\* The callback calls.
CallbackCalls(next) ==
    /\ timed = "callback"
    /\ Revoke("timer", next)
    /\ met' = (met \/ doing["plugin"] # "nothing")
    /\ UNCHANGED <<active, singleShot, timed>>

Schedule(t) ==
    /\ doing[t] = "schedule"
    /\ due' = due + 1
    /\ doing' = [doing EXCEPT ![t] = "activate"]
    /\ UNCHANGED <<active, singleShot, timed, met>>

\* The end of start() or stop(), and of Timed() if it was called there.
SetActive(t) ==
    /\ doing[t] \in {"activate", "deactivate"}
    /\ active' = (doing[t] = "activate")
    /\ doing' = [doing EXCEPT ![t] = "nothing"]
    /\ timed' = IF t = "timer" /\ timed # "callback" THEN "waiting" ELSE timed
    /\ UNCHANGED <<due, singleShot, met>>

setSingleShot ==
    /\ singleShot' = ~singleShot
    /\ UNCHANGED <<due, active, timed, doing, met>>

-----------------------------------------------------------------------------
(* Timed() *)

Expire ==
    /\ timed = "waiting" /\ due > 0
    /\ due' = due - 1
    /\ timed' = "callback"
    /\ UNCHANGED <<active, singleShot, doing, met>>

\* The callback has returned; an inactive timer is left alone.
Decide ==
    /\ timed = "callback" /\ doing["timer"] = "nothing"
    /\ timed' = IF ~active THEN "waiting" ELSE IF singleShot THEN "stop" ELSE "start"
    /\ met' = (met \/ doing["plugin"] # "nothing")
    /\ UNCHANGED <<due, active, singleShot, doing>>

\* Mutant: the timer is started without a look at what is pending.
RearmAdds ==
    /\ timed \in {"stop", "start"} /\ doing["timer"] = "nothing"
    /\ doing' = [doing EXCEPT !["timer"] = IF timed = "stop" THEN "deactivate" ELSE "schedule"]
    /\ UNCHANGED <<due, active, singleShot, timed, met>>

\* stop() or start() in Timed().
Rearm ==
    /\ timed \in {"stop", "start"}
    /\ Revoke("timer", IF timed = "stop" THEN "deactivate" ELSE "schedule")
    /\ UNCHANGED <<active, singleShot, timed, met>>

Next ==
    \/ \E next \in {"schedule", "deactivate"} : PluginCalls(next) \/ CallbackCalls(next)
    \/ \E t \in Both : Schedule(t) \/ SetActive(t)
    \/ setSingleShot
    \/ Expire \/ Decide \/ Rearm

Spec == Init /\ [][Next]_vars

-----------------------------------------------------------------------------

\* Between calls one job is pending if the timer is active and none if it is not, whatever the
\* callback and the plugin have started and stopped in between, unless their calls overlapped; and a
\* start() or stop() while the timer waits mends even that.
PendingIfActive ==
    timed = "waiting" /\ doing["plugin"] = "nothing" /\ ~met =>
        due = IF active THEN 1 ELSE 0
=============================================================================
