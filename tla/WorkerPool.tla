----------------------------- MODULE WorkerPool -----------------------------
(***************************************************************************)
(* activatePlugin(): a job that refers to the caller's locals and event is *)
(* submitted to the worker pool, and the caller waits for the event        *)
(* without a timeout.  The plugin that a job activates may call            *)
(* activatePlugin() itself, for a plugin that it needs, and then a worker  *)
(* is the caller that waits.                                               *)
(***************************************************************************)
EXTENDS Naturals, FiniteSets, Sequences

CONSTANTS
    Workers,   \* the threads of the pool
    Clients,   \* other threads that call activatePlugin()
    MaxNested, \* how many workers may wait at the same time
    None

Callers == Workers \cup Clients

VARIABLES
    jobs,     \* the pool's queue, a job being the thread whose locals it refers to
    runs,     \* per worker, the job it runs, or None
    step,     \* per worker, where the job is: "query", "activate" or "set"
    nested,   \* the workers whose job has called activatePlugin() itself
    waiting,  \* the callers at event.Lock()
    event,    \* the callers whose event is set
    outcome   \* per caller, the local "result"

vars == <<jobs, runs, step, nested, waiting, event, outcome>>

Init ==
    /\ jobs = <<>>
    /\ runs = [w \in Workers |-> None]
    /\ step = [w \in Workers |-> "query"]
    /\ nested = {} /\ waiting = {} /\ event = {}
    /\ outcome = [c \in Callers |-> "ERROR_ASYNC_FAILED"]

\* activatePlugin() up to event.Lock(): a client's, or that of the plugin that a job activates.
Submit(c) ==
    /\ c \notin waiting
    /\ IF c \in Workers
       THEN /\ runs[c] # None /\ step[c] = "activate"
            /\ c \notin nested
            /\ Cardinality(waiting \cap Workers) < MaxNested
            /\ nested' = nested \cup {c}
       ELSE UNCHANGED nested
    /\ jobs' = Append(jobs, c)
    /\ waiting' = waiting \cup {c}
    /\ event' = event \ {c}
    /\ outcome' = [outcome EXCEPT ![c] = "ERROR_ASYNC_FAILED"]
    /\ UNCHANGED <<runs, step>>

\* Mutant: the caller waits for a limited time.
ReturnLate(c) ==
    /\ c \in waiting
    /\ waiting' = waiting \ {c}
    /\ UNCHANGED <<jobs, runs, step, nested, event, outcome>>

Return(c) ==
    /\ c \in waiting /\ c \in event
    /\ waiting' = waiting \ {c}
    /\ UNCHANGED <<jobs, runs, step, nested, event, outcome>>

Take(w) ==
    /\ runs[w] = None /\ jobs # <<>>
    /\ runs' = [runs EXCEPT ![w] = Head(jobs)]
    /\ step' = [step EXCEPT ![w] = "query"]
    /\ jobs' = Tail(jobs)
    /\ UNCHANGED <<nested, waiting, event, outcome>>

\* QueryInterfaceByCallsign()
Query(w) ==
    /\ runs[w] # None /\ step[w] = "query"
    /\ \/ /\ step' = [step EXCEPT ![w] = "set"]
          /\ outcome' = [outcome EXCEPT ![runs[w]] = "ERROR_UNAVAILABLE"]
       \/ /\ step' = [step EXCEPT ![w] = "activate"]
          /\ UNCHANGED outcome
    /\ UNCHANGED <<jobs, runs, nested, waiting, event>>

\* Activate() returns, whatever it answers.
Activate(w) ==
    /\ runs[w] # None /\ step[w] = "activate" /\ w \notin waiting
    /\ \E answer \in {"ERROR_NONE", "ERROR_ILLEGAL_STATE"} :
        outcome' = [outcome EXCEPT ![runs[w]] = answer]
    /\ step' = [step EXCEPT ![w] = "set"]
    /\ UNCHANGED <<jobs, runs, nested, waiting, event>>

\* Mutant: the event is set only after an activation.
SetEventActivated(w) ==
    /\ runs[w] # None /\ step[w] = "set"
    /\ event' = IF outcome[runs[w]] = "ERROR_UNAVAILABLE" THEN event ELSE event \cup {runs[w]}
    /\ runs' = [runs EXCEPT ![w] = None]
    /\ nested' = nested \ {w}
    /\ UNCHANGED <<jobs, step, waiting, outcome>>

SetEvent(w) ==
    /\ runs[w] # None /\ step[w] = "set"
    /\ event' = event \cup {runs[w]}
    /\ runs' = [runs EXCEPT ![w] = None]
    /\ nested' = nested \ {w}
    /\ UNCHANGED <<jobs, step, waiting, outcome>>

Next ==
    \/ \E c \in Callers : Submit(c) \/ Return(c)
    \/ \E w \in Workers : Take(w) \/ Query(w) \/ Activate(w) \/ SetEvent(w)

\* The pool's threads and the callers are scheduled; nobody has to call.
Fairness ==
    /\ \A c \in Callers : WF_vars(Return(c))
    /\ \A w \in Workers : WF_vars(Take(w) \/ Query(w) \/ Activate(w) \/ SetEvent(w))

Spec == Init /\ [][Next]_vars /\ Fairness

-----------------------------------------------------------------------------

Unfinished == {jobs[i] : i \in DOMAIN jobs} \cup ({runs[w] : w \in Workers} \ {None})

\* A job writes to its caller's locals, so the caller must still be there: every job in the queue or
\* under way has a caller that waits and has no other job, and a caller that goes on has a result.
JobsHaveCallers ==
    /\ Unfinished = waiting \ event
    /\ Cardinality(Unfinished) = Len(jobs) + Cardinality({w \in Workers : runs[w] # None})
    /\ \A c \in event : outcome[c] # "ERROR_ASYNC_FAILED"

\* Every call returns, those of the workers included, as long as one worker does not wait itself.
CallsReturn == \A c \in Callers : c \in waiting ~> c \notin waiting
=============================================================================
