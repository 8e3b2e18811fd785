--------------------------- MODULE SecurityToken ----------------------------
(***************************************************************************)
(* SecurityToken::getSecurityToken(): the token that getThunderController- *)
(* Client() puts into its query is asked for once, under a mutex, and the  *)
(* answer is remembered whatever it is.                                    *)
(***************************************************************************)

CONSTANTS
    TokenCallers, \* threads
    SecurityTokens, \* what the agent may create, a new one at each call
    Empty,
    None

VARIABLES
    sToken, sThunderSecurityChecked, \* the statics
    mtx,     \* the static mutex: the thread that has it, or None
    asks,    \* where the call that has the mutex is: "check", "configured" or "agent"
    created, \* history: the tokens that the agent has created
    gotten   \* history: what the calls returned

vars == <<sToken, sThunderSecurityChecked, mtx, asks, created, gotten>>

Init ==
    /\ sToken = Empty /\ sThunderSecurityChecked = FALSE
    /\ mtx = None /\ asks = "check"
    /\ created = {} /\ gotten = {}

Lock(t) ==
    /\ mtx = None
    /\ mtx' = t
    /\ asks' = "check"
    /\ UNCHANGED <<sToken, sThunderSecurityChecked, created, gotten>>

Unlock(token) ==
    /\ gotten' = gotten \cup {token}
    /\ mtx' = None

CheckAsked(t) ==
    /\ mtx = t /\ asks = "check"
    /\ IF sThunderSecurityChecked
       THEN Unlock(sToken) /\ UNCHANGED <<sThunderSecurityChecked, asks>>
       ELSE /\ sThunderSecurityChecked' = TRUE
            /\ asks' = "configured"
            /\ UNCHANGED <<mtx, gotten>>
    /\ UNCHANGED <<sToken, created>>

\* isThunderSecurityConfigured() asks the Controller.
AskConfigured(t) ==
    /\ mtx = t /\ asks = "configured"
    /\ \/ asks' = "agent" /\ UNCHANGED <<mtx, gotten>>
       \/ Unlock(sToken) /\ UNCHANGED asks
    /\ UNCHANGED <<sToken, sThunderSecurityChecked, created>>

\* Mutant: the token is given to the caller and not kept.
AskAgentNotKept(t) ==
    /\ mtx = t /\ asks = "agent"
    /\ \E token \in SecurityTokens \ created :
        /\ Unlock(token)
        /\ created' = created \cup {token}
    /\ UNCHANGED <<sToken, sThunderSecurityChecked, asks>>

\* GetSecurityToken(): if it fails, the caller's string stays what it was.
AskAgent(t) ==
    /\ mtx = t /\ asks = "agent"
    /\ \/ \E token \in SecurityTokens \ created :
            /\ sToken' = token
            /\ Unlock(token)
            /\ created' = created \cup {token}
       \/ Unlock(Empty) /\ UNCHANGED <<sToken, created>>
    /\ UNCHANGED <<sThunderSecurityChecked, asks>>

Next == \E t \in TokenCallers : Lock(t) \/ CheckAsked(t) \/ AskConfigured(t) \/ AskAgent(t)

Spec == Init /\ [][Next]_vars

-----------------------------------------------------------------------------

\* All the calls of all the threads return the same: the one token that the agent was asked for, or
\* none, even to the calls that come while the first one still asks.
OneAnswer ==
    \A a, b \in created \cup gotten : a = b
=============================================================================
