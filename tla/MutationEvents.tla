--------------------------- MODULE MutationEvents ---------------------------
(***************************************************************************)
(* The governed mutation event of internal/lite/mutation_event.go and what *)
(* replaying a sequence of events produces.                                *)
(*                                                                         *)
(* An event names at most one memory it creates (new) and at most one it   *)
(* changes (target), with the version the target had when the mutation was *)
(* decided (expected) and the lifecycle it leaves the target in (life):    *)
(*                                                                         *)
(*   REMEMBER                new                                           *)
(*   REMEMBER of a duplicate      target, life = "ACTIVE"                  *)
(*   CORRECT                 new, target, life = "SUPERSEDED"              *)
(*   FORGET                       target, life = "FORGOTTEN"               *)
(*   admin retire                 target, life = "SUPERSEDED", NoRequest   *)
(*                                                                         *)
(* The content of a row is fixed by the event that creates it, so a row is *)
(* its lifecycle and its StateVersion.  Runtime fields (access heat,       *)
(* confidence, dispute) are not governed by events and are not part of it. *)
(***************************************************************************)
EXTENDS Naturals, Sequences

CONSTANTS
  MemoryIDs,
  NoMemory,    \* an empty memory id
  Requests,    \* what a RequestHash identifies: records with kind and target
  NoRequest,   \* the proposal of a mutation that has none
  Imported     \* memories imported into memories.jsonl without any event

ASSUME IdentityAssumption ==
  /\ NoMemory \notin MemoryIDs
  /\ NoRequest \notin Requests
  /\ Imported \subseteq MemoryIDs

ASSUME RequestAssumption ==
  \A r \in Requests :
    /\ r.kind \in {"REMEMBER", "CORRECT", "FORGET"}
    /\ r.target \in MemoryIDs \cup {NoMemory}
    /\ (r.target = NoMemory) <=> (r.kind = "REMEMBER")

Lifecycles == {"NONE", "ACTIVE", "SUPERSEDED", "FORGOTTEN"}

Rows == [life : Lifecycles, version : Nat]

NoRow == [life |-> "NONE", version |-> 0]

ImportedRows ==
  [m \in MemoryIDs |->
     IF m \in Imported THEN [life |-> "ACTIVE", version |-> 1] ELSE NoRow]

Events ==
  [seq : Nat, revision : Nat, proposal : Requests \cup {NoRequest},
   new : MemoryIDs \cup {NoMemory}, target : MemoryIDs \cup {NoMemory},
   expected : Nat, life : Lifecycles]

Touches(e, m) == m \in {e.new, e.target}

\* Mutant of RowAfter: the target's lifecycle is not taken from the event.
RowAfterStaysActive(e, m) ==
  [life |-> "ACTIVE", version |-> IF m = e.new THEN 1 ELSE e.expected + 1]

\* The row an event leaves behind for a memory it touches.
RowAfter(e, m) ==
  IF m = e.new THEN [life |-> "ACTIVE", version |-> 1]
               ELSE [life |-> e.life, version |-> e.expected + 1]

\* applyMutationEventLocked: NewMemory, UpdatedMemory and the target's lifecycle.
ApplyRows(rows, e) ==
  [m \in MemoryIDs |-> IF Touches(e, m) THEN RowAfter(e, m) ELSE rows[m]]

Touching(log, m) == {i \in DOMAIN log : Touches(log[i], m)}

\* Mutant of LastTouch: the first event wins.
FirstTouch(log, m) ==
  CHOOSE i \in Touching(log, m) : \A j \in Touching(log, m) : i <= j

LastTouch(log, m) ==
  CHOOSE i \in Touching(log, m) : \A j \in Touching(log, m) : j <= i

\* Replaying a journal over loaded rows: the last event that touches a memory
\* decides its row.  Applying the events in order gives the same rows (the lemma
\* InOrderIsReplay of MutationJournalProofs).
Replay(rows, log) ==
  [m \in MemoryIDs |->
     IF Touching(log, m) = {} THEN rows[m]
     ELSE RowAfter(log[LastTouch(log, m)], m)]

\* The requests that have an event, the evidence links and the continuity
\* revisions a journal contains.  A link ties the memory of memoryIDForEvent
\* to the message of the request; the retire path records none.
Proposers(log) == {log[i].proposal : i \in DOMAIN log} \ {NoRequest}

Link(e) ==
  IF e.proposal = NoRequest THEN {}
  ELSE {[memory |-> IF e.new = NoMemory THEN e.target ELSE e.new,
         request |-> e.proposal]}

EvidenceLinks == [memory : MemoryIDs \cup {NoMemory}, request : Requests]

Links(log) == UNION {Link(log[i]) : i \in DOMAIN log}

Revisions(log) == {log[i].revision : i \in DOMAIN log}
=============================================================================
