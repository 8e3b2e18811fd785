----------------------------- MODULE MCDSHelper -----------------------------
(* DSHelper with one client thread beside the notifier's. *)
EXTENDS DSHelper

CONSTANT c1

MCClients == {c1}
\* A client that fetches resolutions; what a load or a reload needs it acquires anyway.
MCVideoKind == {"videoPort"}
\* A device with audio ports and video devices.
MCAnswers == {{"audio", "videoDevice"}}

\* Close() is called in a first activation that nothing has been fetched from, and no thread
\* of the two is in a call of DSHelper meanwhile.
ClosesEarly ==
    \/ owner \in {"closed", "opening", "open"}
    \/ epoch = 1 /\ ~loaded /\ \A t \in Threads : pc[t] = "idle" /\ acq[t] = "idle"
=============================================================================
