-------------------------- MODULE MCDSSubInterface --------------------------
(* DSSubInterface with two client threads and two activations. *)
EXTENDS DSSubInterface, TLC

CONSTANTS c1, c2, video, audio

MCClients == {c1, c2}
MCOneKind == {video}
MCTwoKinds == {video, audio}
MCSymmetry == Permutations({c1, c2})
=============================================================================
