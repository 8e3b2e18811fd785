----------------------------- MODULE MCApiLocks -----------------------------
(* Instances of ApiLocks for TLC; the .cfg files choose what nests. *)
EXTENDS ApiLocks, TLC

CONSTANTS t1, t2, t3, c1, c2, none

MCThreads == {t1, t2, t3}

MCClasses == {c1, c2}

\* Neither threads nor classes differ.
MCSymmetry == Permutations(MCThreads) \cup Permutations(MCClasses)
=============================================================================
