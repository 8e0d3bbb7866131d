--------------------------- MODULE GovernedMemory ---------------------------
(***************************************************************************)
(* What the mutation lane of mindmoryd-lite promises, with no journal, no  *)
(* projection, no lock and no failure: governed memories are versioned     *)
(* rows, a request takes effect at most once, and a memory that was        *)
(* superseded or forgotten never changes again.  MutationJournal is shown  *)
(* to implement this specification.                                        *)
(***************************************************************************)
EXTENDS Naturals

CONSTANTS
  MemoryIDs,   \* identities of memories
  Requests,    \* governed requests: records with fields kind and target
  Imported     \* memories that exist before the first governed mutation

VARIABLES
  rows,        \* the governed row of every memory
  effected     \* the requests that have taken effect

gvars == <<rows, effected>>

(***************************************************************************)
(* A governed row is what a mutation event determines of a MemoryRow: its  *)
(* lifecycle and its StateVersion.                                         *)
(***************************************************************************)
NoRow == [life |-> "NONE", version |-> 0]

ActiveRow(v) == [life |-> "ACTIVE", version |-> v]

IsActive(m) == rows[m].life = "ACTIVE"

Init ==
  /\ rows = [m \in MemoryIDs |-> IF m \in Imported THEN ActiveRow(1) ELSE NoRow]
  /\ effected = {}

Effect(r) ==
  /\ r \notin effected
  /\ effected' = effected \cup {r}

Created(m) == rows[m] = NoRow

Ended(m, life) == [rows EXCEPT ![m] = [life |-> life, version |-> @.version + 1]]

Remember(r, m) ==
  /\ r.kind = "REMEMBER"
  /\ Effect(r)
  /\ Created(m)
  /\ rows' = [rows EXCEPT ![m] = ActiveRow(1)]

\* A REMEMBER whose subject repeats an ACTIVE memory reinforces that memory.
Reinforce(r, m) ==
  /\ r.kind = "REMEMBER"
  /\ Effect(r)
  /\ IsActive(m)
  /\ rows' = [rows EXCEPT ![m] = ActiveRow(@.version + 1)]

Correct(r, m) ==
  /\ r.kind = "CORRECT"
  /\ Effect(r)
  /\ IsActive(r.target)
  /\ Created(m)
  /\ rows' = [Ended(r.target, "SUPERSEDED") EXCEPT ![m] = ActiveRow(1)]

Forget(r) ==
  /\ r.kind = "FORGET"
  /\ Effect(r)
  /\ IsActive(r.target)
  /\ rows' = Ended(r.target, "FORGOTTEN")

\* The reviewer's undo path: no request, no proposal.
Retire(m) ==
  /\ IsActive(m)
  /\ rows' = Ended(m, "SUPERSEDED")
  /\ UNCHANGED effected

Next ==
  \/ \E r \in Requests, m \in MemoryIDs :
       Remember(r, m) \/ Reinforce(r, m) \/ Correct(r, m)
  \/ \E r \in Requests : Forget(r)
  \/ \E m \in MemoryIDs : Retire(m)

Spec == Init /\ [][Next]_gvars
=============================================================================
