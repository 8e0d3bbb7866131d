--------------------------- MODULE MCRuntimeState ---------------------------
(***************************************************************************)
(* Instances of RuntimeState for TLC.                                      *)
(***************************************************************************)
EXTENDS RuntimeState, TLC

CONSTANTS m1, m2, s1, s2

Symmetry == Permutations({m1, m2}) \cup Permutations({s1, s2})
=============================================================================
