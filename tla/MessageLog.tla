----------------------------- MODULE MessageLog -----------------------------
(***************************************************************************)
(* What the message archive promises, with no segments, no index and no    *)
(* failure: one append-only log in which a session's external message id   *)
(* occurs once, with the content it was first sent with.  MessageArchive   *)
(* is shown to implement this specification.                               *)
(***************************************************************************)
EXTENDS Sequences

CONSTANT Messages    \* what a host may send: records with the field key

VARIABLE log         \* the archived messages, in server order

Init == log = <<>>

Archived(key) == \E i \in DOMAIN log : log[i].key = key

Archive(m) ==
  /\ ~Archived(m.key)
  /\ log' = Append(log, m)

Next == \E m \in Messages : Archive(m)

Spec == Init /\ [][Next]_log
=============================================================================
