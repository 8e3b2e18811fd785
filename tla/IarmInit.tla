------------------------------ MODULE IarmInit ------------------------------
(***************************************************************************)
(* Utils::IARM::init(), which several plugins of a process call at once,   *)
(* over the IARM library of the process: it is initialised and then        *)
(* connected once, and answers INVALID_STATE to whoever comes late.        *)
(***************************************************************************)
EXTENDS Naturals

CONSTANTS
    Initers,  \* threads
    Retries,  \* "retryCount++ < 20"
    MaxCrashes \* a bound of the daemon's restarts

VARIABLES
    bus,        \* the library: "fresh", "inited" or "connected"
    daemon,     \* whether the IARM daemon runs
    crashes,
    trying,     \* per thread, the statement of init() that comes next, or "out"
    retryCount,
    initResult, \* per thread, what init() returned, and FALSE before
    upSince     \* history: per thread, the daemon ran since the attempt began

vars == <<bus, daemon, crashes, trying, retryCount, initResult, upSince>>

Init ==
    /\ bus = "fresh" /\ daemon \in BOOLEAN /\ crashes = 0
    /\ trying = [t \in Initers |-> "out"]
    /\ retryCount = [t \in Initers |-> 0]
    /\ initResult = [t \in Initers |-> FALSE]
    /\ upSince = [t \in Initers |-> FALSE]

isConnected == bus = "connected"

\* External: the daemon comes and goes until the process is connected to it.  init() has nothing for
\* a connection that is lost, and what the library answers then is not in this repository.
DaemonStarts ==
    /\ ~daemon
    /\ daemon' = TRUE
    /\ UNCHANGED <<bus, crashes, trying, retryCount, initResult, upSince>>

DaemonStops ==
    /\ daemon /\ bus # "connected"
    /\ crashes < MaxCrashes
    /\ daemon' = FALSE
    /\ crashes' = crashes + 1
    /\ upSince' = [t \in Initers |-> FALSE]
    /\ UNCHANGED <<bus, trying, retryCount, initResult>>

\* External: IARM_Bus_Init() and IARM_Bus_Connect(), as the comments on their results have them.
InitAnswers ==
    IF bus # "fresh" THEN {"INVALID_STATE"} ELSE IF daemon THEN {"SUCCESS"} ELSE {"SUCCESS", "IPCCORE_FAIL"}

ConnectAnswers ==
    IF bus # "inited" THEN {"INVALID_STATE"} ELSE IF daemon THEN {"SUCCESS"} ELSE {"IPCCORE_FAIL"}

Accepted == {"SUCCESS", "INVALID_STATE"}

Enter(t) ==
    /\ trying[t] = "out" /\ ~initResult[t]
    /\ trying' = [trying EXCEPT ![t] = IF isConnected THEN "out" ELSE "init"]
    /\ initResult' = [initResult EXCEPT ![t] = isConnected]
    /\ retryCount' = [retryCount EXCEPT ![t] = 0]
    /\ upSince' = [upSince EXCEPT ![t] = daemon]
    /\ UNCHANGED <<bus, daemon, crashes>>

CallInit(t) ==
    /\ trying[t] = "init"
    /\ \E res \in InitAnswers :
        /\ bus' = IF res = "SUCCESS" THEN "inited" ELSE bus
        /\ trying' = [trying EXCEPT ![t] = IF res \in Accepted THEN "connect" ELSE "retry"]
    /\ UNCHANGED <<daemon, crashes, retryCount, initResult, upSince>>

\* Mutant: a thread that finds the connection made takes that for a failure.
CallConnectStrict(t) ==
    /\ trying[t] = "connect"
    /\ \E res \in ConnectAnswers :
        /\ bus' = IF res = "SUCCESS" THEN "connected" ELSE bus
        /\ trying' = [trying EXCEPT ![t] = IF res = "SUCCESS" THEN "ask" ELSE "retry"]
    /\ UNCHANGED <<daemon, crashes, retryCount, initResult, upSince>>

CallConnect(t) ==
    /\ trying[t] = "connect"
    /\ \E res \in ConnectAnswers :
        /\ bus' = IF res = "SUCCESS" THEN "connected" ELSE bus
        /\ trying' = [trying EXCEPT ![t] = IF res \in Accepted THEN "ask" ELSE "retry"]
    /\ UNCHANGED <<daemon, crashes, retryCount, initResult, upSince>>

Ask(t) ==
    /\ trying[t] = "ask"
    /\ initResult' = [initResult EXCEPT ![t] = isConnected]
    /\ trying' = [trying EXCEPT ![t] = IF isConnected THEN "out" ELSE "retry"]
    /\ UNCHANGED <<bus, daemon, crashes, retryCount, upSince>>

Retry(t) ==
    /\ trying[t] = "retry"
    /\ IF retryCount[t] < Retries
       THEN /\ retryCount' = [retryCount EXCEPT ![t] = @ + 1]
            /\ trying' = [trying EXCEPT ![t] = "init"]
            /\ upSince' = [upSince EXCEPT ![t] = daemon]
       ELSE /\ trying' = [trying EXCEPT ![t] = "out"]
            /\ UNCHANGED <<retryCount, upSince>>
    /\ UNCHANGED <<bus, daemon, crashes, initResult>>

\* A caller to whom init() has failed may call it again.
Next ==
    \/ DaemonStarts \/ DaemonStops
    \/ \E t \in Initers : Enter(t) \/ CallInit(t) \/ CallConnect(t) \/ Ask(t) \/ Retry(t)

Spec == Init /\ [][Next]_vars

-----------------------------------------------------------------------------

\* A thread gives up only if the daemon was down at some moment of its last attempt: other threads
\* that initialise and connect the same library in between never make init() fail.
OthersDoNoHarm ==
    \A t \in Initers : trying[t] = "retry" => ~upSince[t]
=============================================================================
