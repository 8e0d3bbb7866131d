-------------------------- MODULE MCIntegrityKeys --------------------------
(***************************************************************************)
(* Instances of IntegrityKeys for TLC.                                     *)
(***************************************************************************)
EXTENDS IntegrityKeys, TLC

CONSTANTS k1, k2, k3

Symmetry == Permutations(Keys)
=============================================================================
