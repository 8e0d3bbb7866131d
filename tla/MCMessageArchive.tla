-------------------------- MODULE MCMessageArchive --------------------------
(***************************************************************************)
(* Instances of MessageArchive for TLC: two external ids, one of them sent *)
(* with two contents, and a user and an assistant.                         *)
(***************************************************************************)
EXTENDS MessageArchive, TLC

CONSTANTS k1, k2, r1, r2, r3, r4

Message(key, body, user) == [key |-> key, body |-> body, user |-> user]

MCMessages ==
  {Message(k1, "a", TRUE), Message(k1, "b", TRUE), Message(k2, "a", FALSE)}

MCRowIDs == {r1, r2, r3, r4}
Few == {r1, r2, r3}

None == <<>>

\* Two rows of a version that wrote only messages.jsonl.
Two ==
  <<[id |-> r1, message |-> Message(k1, "a", TRUE)],
    [id |-> r2, message |-> Message("k3", "a", FALSE)]>>

WithLegacy == MCMessages \cup {Two[2].message}

\* One such row, for the runs where anything may fail.
One == <<Two[1]>>

\* Identities are interchangeable, but those of the legacy rows.
AllAlike == Permutations(MCRowIDs)
NewAlike == Permutations({r3, r4})
FewAlike == Permutations({r2, r3})
=============================================================================
