---------------------------- MODULE MCVectorSync ----------------------------
(***************************************************************************)
(* Instances of VectorSync for TLC: up to three memories, two models, two  *)
(* vector lengths.                                                         *)
(***************************************************************************)
EXTENDS VectorSync, TLC

CONSTANTS m1, m2, m3

\* No sidecar, or one with a vector of m1 and one of a retired m2.
MCSidecars == {<<>>, <<m1, m2>>}

\* A sidecar whose only vector is of a memory that was retired since.
RetiredSidecar == {<<m3>>}

\* Rows of the provider's model, and of another model and length.
MCEmbedders == {[model |-> "A", dimensions |-> 1], [model |-> "B", dimensions |-> 2]}

MCProvider == [model |-> "A", dimensions |-> 1]
=============================================================================
