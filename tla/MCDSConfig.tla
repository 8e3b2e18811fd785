----------------------------- MODULE MCDSConfig -----------------------------
(* DSConfig with one or two client threads. *)
EXTENDS DSConfig

CONSTANTS c1, c2

MCOneClient == {c1}
MCTwoClients == {c1, c2}
MCFull == {Parts}
\* A device that has audio ports in one answer and video ports, with resolutions, in another.
MCAudioOrVideo == {{"audio"}, {"videoPort"}}
=============================================================================
