------------------------- MODULE MCMutationJournal --------------------------
(***************************************************************************)
(* Instances of MutationJournal for TLC: one imported memory, identities   *)
(* for two new ones, and requests that contend for the imported memory.    *)
(***************************************************************************)
EXTENDS MutationJournal, TLC

CONSTANTS m1, m2, m3, x1

MCMemoryIDs == {m1, m2, m3}
MCImported == {m1}

Request(turn, kind, target) == [turn |-> turn, kind |-> kind, target |-> target]

\* A new memory against the end of the imported one; the three kinds together;
\* two mutations of the imported one.  A reviewer may also retire any memory.
Growing == {Request(1, "REMEMBER", NoMemory), Request(2, "FORGET", m1)}
Mixed ==
  {Request(1, "REMEMBER", NoMemory), Request(1, "CORRECT", m1), Request(2, "FORGET", m1)}
Contending == {Request(1, "CORRECT", m1), Request(2, "FORGET", m1)}

\* New identities are interchangeable.
MCSymmetry == Permutations({m2, m3})
=============================================================================
