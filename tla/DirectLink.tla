----------------------------- MODULE DirectLink -----------------------------
(***************************************************************************)
(* GetThunderControllerClient() keeps the security token in statics that   *)
(* it reads and writes without a lock, and makes a JSONRPCDirectLink,      *)
(* which holds a reference to a plugin's dispatcher.                       *)
(***************************************************************************)
EXTENDS Naturals, FiniteSets

CONSTANTS
    Askers, \* threads
    Calls,  \* a bound of the calls made on a link
    Token,  \* what the agent creates
    Empty,  \* the empty string
    Torn,   \* what a copy of a string made during an assignment is
    None

VARIABLES
    sThunderSecurityToken, acquired,
    agent,      \* whether the SecurityAgent plugin is there
    getting,    \* per thread, its place in GetThunderControllerClient()
    tried,      \* per thread, whether this call asked for the token, and what for an answer
    link,       \* per thread, the link it has, or None
    dispatcher, \* the dispatcher's references
    firstAnswer,\* history: what the first successful acquisition found, or None
    overlapped  \* history: a thread began to acquire while another one was in its call

linkVars == <<sThunderSecurityToken, acquired, getting, tried, link, dispatcher, firstAnswer, overlapped>>
vars == <<linkVars, agent>>

Init ==
    /\ sThunderSecurityToken = Empty /\ acquired = FALSE
    /\ agent \in BOOLEAN
    /\ getting = [t \in Askers |-> "out"]
    /\ tried = [t \in Askers |-> "not"]
    /\ link = [t \in Askers |-> None]
    /\ dispatcher = 0
    /\ firstAnswer = None /\ overlapped = FALSE

AgentComesOrGoes ==
    /\ agent' = ~agent
    /\ UNCHANGED linkVars

\* "sThunderSecurityTokenAcquired == false"
CheckAcquired(t) ==
    /\ getting[t] = "out" /\ link[t] = None
    /\ getting' = [getting EXCEPT ![t] = IF acquired THEN "copy" ELSE "query"]
    /\ tried' = [tried EXCEPT ![t] = "not"]
    /\ overlapped' = (overlapped \/ (~acquired /\ \E u \in Askers : getting[u] # "out"))
    /\ UNCHANGED <<sThunderSecurityToken, acquired, link, dispatcher, firstAnswer, agent>>

\* GetThunderSecurityToken(): without an agent no token is needed; CreateToken() may fail.
QueryAgent(t) ==
    /\ getting[t] = "query"
    /\ IF ~agent
       THEN /\ getting' = [getting EXCEPT ![t] = "written"]
            /\ tried' = [tried EXCEPT ![t] = "no agent"]
       ELSE \/ /\ getting' = [getting EXCEPT ![t] = "write"]
               /\ tried' = [tried EXCEPT ![t] = "token"]
            \/ /\ getting' = [getting EXCEPT ![t] = "written"]
               /\ tried' = [tried EXCEPT ![t] = "failed"]
    /\ UNCHANGED <<sThunderSecurityToken, acquired, link, dispatcher, firstAnswer, overlapped, agent>>

\* The assignment to the static has ended; beside another one it leaves anything.
WriteToken(t) ==
    /\ getting[t] = "write"
    /\ sThunderSecurityToken' \in {Token} \cup
          (IF \E u \in Askers \ {t} : getting[u] = "write" THEN {Torn} ELSE {})
    /\ getting' = [getting EXCEPT ![t] = "written"]
    /\ UNCHANGED <<acquired, tried, link, dispatcher, firstAnswer, overlapped, agent>>

\* Mutant: a failure is an answer too.
SetAcquiredAlways(t) ==
    /\ getting[t] = "written"
    /\ acquired' = TRUE
    /\ firstAnswer' = IF tried[t] # "failed" /\ firstAnswer = None THEN tried[t] ELSE firstAnswer
    /\ getting' = [getting EXCEPT ![t] = "copy"]
    /\ UNCHANGED <<sThunderSecurityToken, tried, link, dispatcher, overlapped, agent>>

SetAcquired(t) ==
    /\ getting[t] = "written"
    /\ acquired' = (tried[t] # "failed")
    /\ firstAnswer' = IF tried[t] # "failed" /\ firstAnswer = None THEN tried[t] ELSE firstAnswer
    /\ getting' = [getting EXCEPT ![t] = "copy"]
    /\ UNCHANGED <<sThunderSecurityToken, tried, link, dispatcher, overlapped, agent>>

\* The link copies the token and queries its plugin, which may be missing.
MakeLink(t) ==
    /\ getting[t] = "copy"
    /\ \E there \in BOOLEAN,
          token \in {sThunderSecurityToken} \cup (IF \E u \in Askers : getting[u] = "write" THEN {Torn} ELSE {}) :
        /\ link' = [link EXCEPT ![t] = [token |-> token, failed |-> tried[t] = "failed", has |-> there, mId |-> 0]]
        /\ dispatcher' = dispatcher + IF there THEN 1 ELSE 0
    /\ getting' = [getting EXCEPT ![t] = "out"]
    /\ UNCHANGED <<sThunderSecurityToken, acquired, tried, firstAnswer, overlapped, agent>>

\* What the dispatcher answers changes nothing here.
Invoke(t) ==
    /\ link[t] # None
    /\ link[t].has
    /\ link[t].mId < Calls
    /\ link' = [link EXCEPT ![t].mId = @ + 1]
    /\ UNCHANGED <<sThunderSecurityToken, acquired, getting, tried, dispatcher, firstAnswer, overlapped, agent>>

\* ~JSONRPCDirectLink(), at the last copy of the shared pointer
DropLink(t) ==
    /\ link[t] # None
    /\ dispatcher' = dispatcher - IF link[t].has THEN 1 ELSE 0
    /\ link' = [link EXCEPT ![t] = None]
    /\ UNCHANGED <<sThunderSecurityToken, acquired, getting, tried, firstAnswer, overlapped, agent>>

Next ==
    \/ AgentComesOrGoes
    \/ \E t \in Askers :
        \/ CheckAcquired(t) \/ QueryAgent(t) \/ WriteToken(t) \/ SetAcquired(t) \/ MakeLink(t)
        \/ Invoke(t) \/ DropLink(t)

Spec == Init /\ [][Next]_vars

-----------------------------------------------------------------------------

\* A link carries the token that the first successful acquisition found, or none if its own
\* acquisition failed, unless an acquisition began during another call; and each link accounts for one reference
\* to its plugin's dispatcher.
LinksCarryToken ==
    /\ ~overlapped => \A t \in Askers : link[t] # None =>
          \/ link[t].failed /\ link[t].token = Empty
          \/ firstAnswer = "token" /\ link[t].token = Token
          \/ firstAnswer = "no agent" /\ link[t].token = Empty
    /\ dispatcher = Cardinality({t \in Askers : link[t] # None /\ link[t].has})
=============================================================================
