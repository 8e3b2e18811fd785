---------------------------- MODULE IarmHandlers ----------------------------
(***************************************************************************)
(* The event handlers of one class: a map, written under the class's mutex *)
(* by RegisterLockedIarmEventHandler() and RemoveLockedEventHandler(), and *)
(* read by the generic handler, which the bus knows and which waits for    *)
(* that mutex before it looks up whom to call.                             *)
(***************************************************************************)
EXTENDS Naturals

CONSTANTS
    Events,   \* pairs of an owner and an event ID
    Handlers,
    MaxCalls, \* a bound of the calls under way for an event
    None

VARIABLES
    handlerOf, \* _registered_iarm_handlers, None where there is no entry or an empty one
    onBus,     \* the events for which the bus calls the generic handler
    entering,  \* per event, the generic calls that wait for the mutex
    called,    \* the handler called last, None or an entry, and what the histories said of its event
    removed,   \* history: the events removed and not registered since
    late,      \* history: the events removed while a call of them was under way
    busFailed  \* history: the events that the bus still has because it refused to remove them

vars == <<handlerOf, onBus, entering, called, removed, late, busFailed>>

Init ==
    /\ handlerOf = [e \in Events |-> None]
    /\ onBus = {}
    /\ entering = [e \in Events |-> 0]
    /\ called = None
    /\ removed = {} /\ late = {} /\ busFailed = {}

\* The handler is in the map whatever the bus answers.
Register(e, h) ==
    /\ handlerOf' = [handlerOf EXCEPT ![e] = h]
    /\ onBus' \in {onBus, onBus \cup {e}}
    /\ removed' = removed \ {e}
    /\ busFailed' = busFailed \ {e}
    /\ UNCHANGED <<entering, called, late>>

\* Mutant: the handler is only erased if it is the one that was passed.
RemoveOwn(e, h) ==
    /\ handlerOf' = IF handlerOf[e] = h THEN [handlerOf EXCEPT ![e] = None] ELSE handlerOf
    /\ onBus' \in {onBus, onBus \ {e}}
    /\ removed' = removed \cup {e}
    /\ late' = IF entering[e] > 0 THEN late \cup {e} ELSE late
    /\ busFailed' = IF e \in onBus' THEN busFailed \cup {e} ELSE busFailed \ {e}
    /\ UNCHANGED <<entering, called>>

\* "still erase the event in any case": the handler may be another one than was passed.
Remove(e, h) ==
    /\ handlerOf' = [handlerOf EXCEPT ![e] = None]
    /\ onBus' \in {onBus, onBus \ {e}}
    /\ removed' = removed \cup {e}
    /\ late' = IF entering[e] > 0 THEN late \cup {e} ELSE late
    /\ busFailed' = IF e \in onBus' THEN busFailed \cup {e} ELSE busFailed \ {e}
    /\ UNCHANGED <<entering, called>>

\* The bus calls the generic handler; it does not wait for such calls when a handler is removed.
Dispatch(e) ==
    /\ e \in onBus
    /\ entering[e] < MaxCalls
    /\ entering' = [entering EXCEPT ![e] = @ + 1]
    /\ UNCHANGED <<handlerOf, onBus, called, removed, late, busFailed>>

\* The generic handler has the mutex and calls what the map has, an entry that it makes included.
Handle(e) ==
    /\ entering[e] > 0 /\ called = None
    /\ entering' = [entering EXCEPT ![e] = @ - 1]
    /\ called' = [handler |-> handlerOf[e],
                  removed |-> e \in removed, excused |-> e \in late \cup busFailed]
    /\ late' = IF entering[e] = 1 THEN late \ {e} ELSE late
    /\ UNCHANGED <<handlerOf, onBus, removed, busFailed>>

Returned ==
    /\ called # None
    /\ called' = None
    /\ UNCHANGED <<handlerOf, onBus, entering, removed, late, busFailed>>

Next ==
    \/ \E e \in Events :
        \/ \E h \in Handlers : Register(e, h) \/ Remove(e, h)
        \/ Dispatch(e) \/ Handle(e)
    \/ Returned

Spec == Init /\ [][Next]_vars

-----------------------------------------------------------------------------

\* What is registered is called and what was removed is not, whichever handler the removal named:
\* once an event is removed its calls find no handler (the call is then one of an empty function),
\* and that happens only to a call that was waiting for the mutex when the event was removed, or
\* after the bus refused to remove it.
RemovedNotCalled ==
    called # None =>
        /\ called.removed <=> called.handler = None
        /\ called.removed => called.excused
=============================================================================
