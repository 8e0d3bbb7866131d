--------------------------- MODULE MessageArchive ---------------------------
(***************************************************************************)
(* The message archive of mindmoryd-lite: Store.InsertMessage (queries.go),*)
(* the segmented hash-chained journal it appends to (message_journal.go),  *)
(* the messages_current table it answers retries from (index.go), and how  *)
(* the store opens all of it again (store.go).                             *)
(*                                                                         *)
(* Who may step.  Store.mu is held for the whole of InsertMessage and for  *)
(* opening, so there is one append at a time; a step here is what reaches  *)
(* the disk together, and the process or the machine may die in between.   *)
(*                                                                         *)
(* A row's hash covers the row and the hash before it.  Identities are     *)
(* never reused, so the hash of a row is represented by its identity.      *)
(***************************************************************************)
EXTENDS Naturals, Sequences, FiniteSets

CONSTANTS
  Messages,     \* what a host may send: records with key, body and user
  RowIDs,       \* message ids
  NoID,         \* an empty message id, an empty hash
  Legacy,       \* rows of messages.jsonl from before the segments, oldest first
  Start,        \* how the archive came to the first state
  LowRAM,       \* the low-RAM mode: the message map is released
  Faults,       \* what may go wrong
  SegmentSize,  \* the size of a segment, in records
  MaxRows       \* bound on the rows the segments hold

(***************************************************************************)
(* fresh     an empty store                                                *)
(* upgraded  a store closed by a version that knew only messages.jsonl     *)
(* imported  this process imported Legacy from a CSV export                *)
(*                                                                         *)
(* write   the append of a record fails before it writes a byte            *)
(* short   the append stops after a part of the record                     *)
(* sync    the record is written and its fsync reports an error            *)
(* index   the upsert into messages_current fails                          *)
(* flush   rewriting messages.jsonl fails                                  *)
(* kill    the process dies, perhaps in the middle of an append            *)
(* power   the machine dies; what was not fsynced may be lost or torn      *)
(***************************************************************************)
FaultKinds == {"write", "short", "sync", "index", "flush", "kill", "power"}

ASSUME ArchiveAssumption ==
  /\ NoID \notin RowIDs
  /\ Start \in {"fresh", "upgraded", "imported"}
  /\ LowRAM \in BOOLEAN
  /\ Faults \subseteq FaultKinds
  /\ SegmentSize \in Nat \ {0}
  /\ MaxRows \in Nat
  /\ \A m \in Messages : m.user \in BOOLEAN

ASSUME LegacyAssumption ==
  /\ Legacy \in Seq([id : RowIDs, message : Messages])
  /\ Len(Legacy) <= MaxRows
  /\ \A i, j \in DOMAIN Legacy :
       i # j => Legacy[i].id # Legacy[j].id /\ Legacy[i].message.key # Legacy[j].message.key

VARIABLES
  segments,                     \* messages/messages-*.jsonl
  file,                         \* messages.jsonl
  index,                        \* messages_current
  messages,                     \* the map of Store
  messageSeq, turnSeq, lastID,  \* messageSeq, turnSeq, lastMessageHash
  phase,                        \* the process
  append,                       \* the append in progress
  told                          \* history: rows a host was given the id of

counters == <<messageSeq, turnSeq, lastID>>
vars == <<segments, file, index, messages, counters, phase, append, told>>

-----------------------------------------------------------------------------

Rows ==
  [id : RowIDs, message : Messages, seq : Nat, turn : Nat, prev : RowIDs \cup {NoID}]

\* Two appends run together: a line that is no record.
Glued == [id |-> NoID]

Segments == [entries : Seq(Rows \cup {Glued}), torn : BOOLEAN, synced : Nat]

EmptySegment == [entries |-> <<>>, torn |-> FALSE, synced |-> 0]

LastSegment == segments[Len(segments)]

\* The bytes of a segment in records, a partial record counted as one.
Size(s) ==
  LET glued == {i \in DOMAIN s.entries : s.entries[i] = Glued}
  IN  Len(s.entries) + Cardinality(glued) + (IF s.torn THEN 1 ELSE 0)

\* ensureAppendFile: the next record's segment, created and its entry in messages/
\* fsynced.  The entry of messages/ in the data directory (os.MkdirAll) is fsynced by
\* nobody; it is taken to survive.
WithRoom ==
  IF segments = <<>> \/ Size(LastSegment) >= SegmentSize
  THEN Append(segments, EmptySegment)
  ELSE segments

UpdateLast(s) == [segments EXCEPT ![Len(segments)] = s]

\* Where the entries are, in the order they are read.
Positions == UNION {{i} \X DOMAIN segments[i].entries : i \in DOMAIN segments}

At(p) == segments[p[1]].entries[p[2]]

Before(p, q) == p[1] < q[1] \/ (p[1] = q[1] /\ p[2] < q[2])

IsFirst(p) == \A q \in Positions : ~Before(q, p)

IsLast(p) == \A q \in Positions : ~Before(p, q)

Follows(q, p) ==
  Before(p, q) /\ ~\E o \in Positions : Before(p, o) /\ Before(o, q)

Journal == {At(p) : p \in Positions}

\* loadMessageSegments accepts rows numbered from 1, each naming the one before.
Chained ==
  /\ Glued \notin Journal
  /\ \A p \in Positions : IsFirst(p) => At(p).seq = 1 /\ At(p).prev = NoID
  /\ \A p, q \in Positions :
       Follows(q, p) => At(q).seq = At(p).seq + 1 /\ At(q).prev = At(p).id

\* A partial record is quarantined at the very end, and an error before it.
Readable ==
  /\ \A i \in DOMAIN segments : segments[i].torn => i = Len(segments)
  /\ Chained

\* Mutant of Quarantined: the partial record stays where it is.
Unquarantined == segments

Quarantined ==
  IF LastSegment.torn
  THEN UpdateLast([LastSegment EXCEPT !.torn = FALSE, !.synced = Len(LastSegment.entries)])
  ELSE segments

\* The counters after reading the segments.
ReadSeq == Cardinality(Positions)

ReadID == IF Positions = {} THEN NoID ELSE At(CHOOSE p \in Positions : IsLast(p)).id

ReadTurn ==
  IF Positions = {} THEN 0
  ELSE CHOOSE t \in {r.turn : r \in Journal} : \A r \in Journal : r.turn <= t

-----------------------------------------------------------------------------

IDs(rows) == {r.id : r \in rows}

\* UNIQUE(session_id, external_message_id)
Unique(rows) == \A r, q \in rows : r.message.key = q.message.key => r = q

Idle == [step |-> "idle"]

Doing(step, row) == [step |-> step, row |-> row]

LegacyRows == {[id |-> l.id, message |-> l.message, seq |-> 0, turn |-> 0, prev |-> NoID] :
                 l \in {Legacy[i] : i \in DOMAIN Legacy}}

Init ==
  /\ segments = <<>>
  /\ file = IF Start = "fresh" THEN {} ELSE LegacyRows
  /\ index = {}
  /\ messages = IF Start = "imported" /\ ~LowRAM THEN LegacyRows ELSE {}
  /\ messageSeq = 0 /\ turnSeq = 0 /\ lastID = NoID
  /\ phase = IF Start = "upgraded" THEN "down" ELSE "up"
  /\ append = Idle
  /\ told = {}

-----------------------------------------------------------------------------
(***************************************************************************)
(* InsertMessage.  The table answers a retry; a message whose key is taken *)
(* by another content is refused, which changes nothing.                   *)
(***************************************************************************)
Serving == phase = "up" /\ append = Idle

Replayed(m) ==
  /\ Serving
  /\ \E r \in index :
       /\ r.message = m
       /\ told' = told \cup {[id |-> r.id, message |-> m]}
  /\ UNCHANGED <<segments, file, index, messages, counters, phase, append>>

Turn(m) == turnSeq + (IF m.user THEN 1 ELSE 0)

\* newID
Fresh == RowIDs \ (IDs(Journal) \cup IDs(file) \cup IDs(messages) \cup IDs(told))

NewRow(m, id) ==
  [id |-> id, message |-> m, seq |-> messageSeq + 1, turn |-> Turn(m), prev |-> lastID]

\* Mutant of Insert: the table is not asked for the key.
InsertUnchecked(m) ==
  /\ Serving
  /\ Cardinality(Positions) < MaxRows
  /\ \E id \in Fresh : append' = Doing("ensured", NewRow(m, id))
  /\ messageSeq' = messageSeq + 1
  /\ turnSeq' = Turn(m)
  /\ segments' = WithRoom
  /\ UNCHANGED <<file, index, messages, lastID, phase, told>>

Insert(m) ==
  /\ Serving
  /\ Cardinality(Positions) < MaxRows
  /\ \A r \in index : r.message.key # m.key
  /\ \E id \in Fresh : append' = Doing("ensured", NewRow(m, id))
  /\ messageSeq' = messageSeq + 1
  /\ turnSeq' = Turn(m)
  /\ segments' = WithRoom
  /\ UNCHANGED <<file, index, messages, lastID, phase, told>>

(***************************************************************************)
(* appendMessageRecordLocked, for a new message and for a migrated row.    *)
(* O_APPEND puts a record behind a partial one without a line end between. *)
(***************************************************************************)
Written(s, row) ==
  [s EXCEPT !.entries = Append(@, IF s.torn THEN Glued ELSE row), !.torn = FALSE]

WriteRecord ==
  /\ append.step = "ensured"
  /\ segments' = UpdateLast(Written(LastSegment, append.row))
  /\ append' = [append EXCEPT !.step = "written"]
  /\ UNCHANGED <<file, index, messages, counters, phase, told>>

\* The maps of a process that has ended.
Emptied ==
  /\ messages' = {}
  /\ messageSeq' = 0 /\ turnSeq' = 0 /\ lastID' = NoID

Ended ==
  /\ phase' = "down"
  /\ append' = Idle
  /\ Emptied
  /\ UNCHANGED <<index, told>>

\* Mutant of Undone: the sequence number of the failed append stays taken.
UndoneTurn ==
  /\ messageSeq' = messageSeq
  /\ turnSeq' = turnSeq - (IF append.row.message.user THEN 1 ELSE 0)
  /\ append' = Idle
  /\ UNCHANGED <<messages, lastID, index, phase, told>>

\* InsertMessage takes its numbers back; a migration that fails ends the process.
Undone ==
  /\ messageSeq' = messageSeq - 1
  /\ turnSeq' = turnSeq - (IF append.row.message.user THEN 1 ELSE 0)
  /\ append' = Idle
  /\ UNCHANGED <<messages, lastID, index, phase, told>>

AppendFailed == IF phase = "up" THEN Undone ELSE Ended

WriteFails ==
  /\ append.step = "ensured"
  /\ \/ "write" \in Faults /\ segments' = segments
     \/ "short" \in Faults /\ segments' = UpdateLast([LastSegment EXCEPT !.torn = TRUE])
  /\ AppendFailed
  /\ UNCHANGED file

SyncFails ==
  /\ append.step = "written"
  /\ "sync" \in Faults
  /\ AppendFailed
  /\ UNCHANGED <<segments, file>>

\* Mutant of SyncRecord: the record is taken for archived without an fsync.
TakenUnsynced ==
  /\ append.step = "written"
  /\ lastID' = append.row.id
  /\ messages' = IF LowRAM /\ phase = "up" THEN messages
                 ELSE {r \in messages : r.id # append.row.id} \cup {append.row}
  /\ append' = IF phase = "up" THEN [append EXCEPT !.step = "archived"] ELSE Idle
  /\ UNCHANGED <<segments, file, index, messageSeq, turnSeq, phase, told>>

\* The commit point of the archive; the row enters the map.
SyncRecord ==
  /\ append.step = "written"
  /\ segments' = UpdateLast([LastSegment EXCEPT !.synced = Len(LastSegment.entries)])
  /\ lastID' = append.row.id
  /\ messages' = IF LowRAM /\ phase = "up" THEN messages
                 ELSE {r \in messages : r.id # append.row.id} \cup {append.row}
  /\ append' = IF phase = "up" THEN [append EXCEPT !.step = "archived"] ELSE Idle
  /\ UNCHANGED <<file, index, messageSeq, turnSeq, phase, told>>

UpsertMessage ==
  /\ append.step = "archived"
  /\ index' = index \cup {append.row}
  /\ append' = [append EXCEPT !.step = "indexed"]
  /\ UNCHANGED <<segments, file, messages, counters, phase, told>>

\* The host is told of an error; the record stays.
UpsertFails ==
  /\ append.step = "archived"
  /\ "index" \in Faults
  /\ append' = Idle
  /\ UNCHANGED <<segments, file, index, messages, counters, phase, told>>

\* messages.jsonl is rewritten, which may fail, and the host gets the id.
Answer ==
  /\ append.step = "indexed"
  /\ \/ file' = IF LowRAM THEN file ELSE messages
     \/ "flush" \in Faults /\ file' = file
  /\ told' = told \cup {[id |-> append.row.id, message |-> append.row.message]}
  /\ append' = Idle
  /\ UNCHANGED <<segments, index, messages, counters, phase>>

-----------------------------------------------------------------------------
(***************************************************************************)
(* Opening.  Segments, when there are any, are all that is read; otherwise *)
(* messages.jsonl is numbered and appended to segments row by row.         *)
(***************************************************************************)

Stopped == phase \in {"down", "refused"}

\* Mutant of OpenSegments: the turn counter starts again.
OpenWithoutTurns ==
  /\ Stopped
  /\ segments # <<>> /\ Readable
  /\ segments' = Quarantined
  /\ messages' = Journal
  /\ messageSeq' = ReadSeq /\ turnSeq' = 0 /\ lastID' = ReadID
  /\ phase' = "indexing"
  /\ UNCHANGED <<file, index, append, told>>

OpenSegments ==
  /\ Stopped
  /\ segments # <<>> /\ Readable
  /\ segments' = Quarantined
  /\ messages' = Journal
  /\ messageSeq' = ReadSeq /\ turnSeq' = ReadTurn /\ lastID' = ReadID
  /\ phase' = "indexing"
  /\ UNCHANGED <<file, index, append, told>>

Refuse ==
  /\ \/ Stopped /\ ~Readable
     \/ phase = "indexing" /\ ~Unique(messages)
  /\ phase' = "refused"
  /\ Emptied
  /\ UNCHANGED <<segments, file, index, append, told>>

\* loadMessages: the rows that have no number yet are numbered, oldest first.
Numbered(i) ==
  LET users == {j \in 1 .. i : Legacy[j].message.user}
  IN  [id |-> Legacy[i].id, message |-> Legacy[i].message, seq |-> i,
       turn |-> Cardinality(users), prev |-> NoID]

OpenLegacy ==
  /\ Stopped
  /\ segments = <<>>
  /\ LET kept == {i \in DOMAIN Legacy : Legacy[i].id \in IDs(file)}
     IN  IF kept = {}
         THEN /\ phase' = "indexing"
              /\ UNCHANGED <<messages, counters>>
         ELSE /\ phase' = "migrating"
              /\ messages' = {Numbered(i) : i \in kept}
              /\ messageSeq' = Len(Legacy)
              /\ turnSeq' = Numbered(Len(Legacy)).turn
              /\ lastID' = NoID
  /\ UNCHANGED <<segments, file, index, append, told>>

Unmigrated == {r \in messages : r.id \notin IDs(Journal)}

Migrate ==
  /\ phase = "migrating" /\ append = Idle
  /\ \E r \in Unmigrated :
       /\ \A q \in Unmigrated : r.seq <= q.seq
       /\ append' = Doing("ensured", [r EXCEPT !.prev = lastID])
  /\ segments' = WithRoom
  /\ UNCHANGED <<file, index, messages, counters, phase, told>>

Migrated ==
  /\ phase = "migrating" /\ append = Idle
  /\ Unmigrated = {}
  /\ \/ /\ file' = messages
        /\ phase' = "indexing"
        /\ UNCHANGED <<index, messages, counters, append, told>>
     \/ /\ "flush" \in Faults
        /\ file' \in {file, messages}
        /\ Ended
  /\ UNCHANGED segments

\* openIndex: ReplaceReadSupport; then low-RAM mode releases the map.
Serve ==
  /\ phase = "indexing"
  /\ Unique(messages)
  /\ index' = messages
  /\ messages' = IF LowRAM THEN {} ELSE messages
  /\ phase' = "up"
  /\ UNCHANGED <<segments, file, counters, append, told>>

-----------------------------------------------------------------------------

\* An orderly shutdown writes messages.jsonl, in low-RAM mode from the table.
Close ==
  /\ Serving
  /\ \/ file' = IF LowRAM THEN index ELSE messages
     \/ "flush" \in Faults /\ file' = file
  /\ Ended
  /\ UNCHANGED segments

\* A write that was under way may have left a part of the record.
Kill ==
  /\ "kill" \in Faults
  /\ phase \in {"up", "migrating", "indexing"}
  /\ \/ segments' = segments
     \/ append.step = "ensured" /\ segments' = UpdateLast([LastSegment EXCEPT !.torn = TRUE])
  /\ Ended
  /\ UNCHANGED file

\* What was not fsynced survives up to some record and a part of the next.
Cut(s, n, torn) == [s EXCEPT !.entries = SubSeq(@, 1, n), !.torn = torn, !.synced = n]

Survivors(s, writing) ==
  {Cut(s, n, torn) :
     n \in s.synced .. Len(s.entries),
     torn \in {t \in BOOLEAN : t => s.torn \/ writing \/ s.synced < Len(s.entries)}}

PowerLoss ==
  /\ "power" \in Faults
  /\ phase \in {"up", "migrating", "indexing"}
  /\ LET writing(i) == append.step = "ensured" /\ i = Len(segments)
         left(i) == Survivors(segments[i], writing(i))
     IN  segments' \in {t \in [DOMAIN segments -> UNION {left(i) : i \in DOMAIN segments}] :
                          \A i \in DOMAIN segments : t[i] \in left(i)}
  /\ Ended
  /\ UNCHANGED file

-----------------------------------------------------------------------------

Next ==
  \/ \E m \in Messages : Replayed(m) \/ Insert(m)
  \/ WriteRecord \/ WriteFails \/ SyncRecord \/ SyncFails
  \/ UpsertMessage \/ UpsertFails \/ Answer
  \/ OpenSegments \/ OpenLegacy \/ Migrate \/ Migrated \/ Serve \/ Refuse
  \/ Close \/ Kill \/ PowerLoss

Spec == Init /\ [][Next]_vars

-----------------------------------------------------------------------------
(***************************************************************************)
(* Properties.                                                             *)
(***************************************************************************)

TypeOK ==
  /\ segments \in Seq(Segments)
  /\ \A i \in DOMAIN segments : segments[i].synced <= Len(segments[i].entries)
  /\ file \subseteq Rows /\ index \subseteq Rows /\ messages \subseteq Rows
  /\ messageSeq \in Nat /\ turnSeq \in Nat /\ lastID \in RowIDs \cup {NoID}
  /\ phase \in {"down", "migrating", "indexing", "up", "refused"}
  /\ append.step \in {"idle", "ensured", "written", "archived", "indexed"}
  /\ append.step # "idle" => append.row \in Rows
  /\ told \subseteq [id : RowIDs, message : Messages]

\* What a running store answers from is what it would read back from the
\* segments if it were opened now: loadMessageSegments accepts them, finds the
\* rows of the map and of messages_current, and the three counters that the
\* next InsertMessage continues from.  A failed append leaves no trace in them.
ReloadsWhatItServes ==
  Serving =>
    /\ Readable
    /\ index = Journal
    /\ messages = IF LowRAM THEN {} ELSE Journal
    /\ messageSeq = ReadSeq /\ turnSeq = ReadTurn /\ lastID = ReadID

\* turn_seq, by which the index finds the latest user message, counts the user
\* messages up to a row, across failed appends and restarts.
TurnsCountUsers ==
  \A p \in Positions :
    At(p).turn =
      Cardinality({q \in Positions : (q = p \/ Before(q, p)) /\ At(q).message.user})

\* InsertMessage is idempotent by external id (queries.go): no key has two rows.
OncePerKey ==
  \A p, q \in Positions :
    At(p) # Glued /\ At(q) # Glued /\ At(p).message.key = At(q).message.key => p = q

\* How many entries of a segment no fault of the run can take back: what was
\* written outlives the process, and what was fsynced outlives the machine.
Standing(s) == IF "power" \in Faults THEN s.synced ELSE Len(s.entries)

StandingPositions == {p \in Positions : p[2] <= Standing(segments[p[1]])}

\* A host that was given the id of a message finds the message under this id
\* in the archive, whatever failed since: the fsync of appendMessageRecordLocked
\* precedes every answer.
AcknowledgedArchived ==
  \A t \in told : \E p \in StandingPositions :
    At(p).id = t.id /\ At(p).message = t.message

\* While the daemon serves, a host that repeats a message is given the id it
\* was given before, also across restarts and whatever failed before that:
\* MessageByExternal finds the row, and only that row.
AnsweredAgain ==
  phase = "up" =>
    /\ Unique(index)
    /\ \A t \in told : \E r \in index : r.id = t.id /\ r.message = t.message

\* The daemon opens what the daemon left behind.
NeverRefuses == phase # "refused"

\* A store that is up serves every message it was given as messages.jsonl or
\* by the importer, whatever was archived since.
LegacyKept ==
  phase = "up" =>
    \A i \in DOMAIN Legacy : Legacy[i].id \in IDs(IF LowRAM THEN index ELSE messages)

\* The archive implements the append-only log of MessageLog: a message enters
\* it at the fsync of its record, or at the write if the machine stays up.
Nth(n) ==
  CHOOSE p \in StandingPositions :
    Cardinality({q \in StandingPositions : Before(q, p)}) = n - 1

Log == INSTANCE MessageLog
         WITH log <- [n \in 1 .. Cardinality(StandingPositions) |-> At(Nth(n)).message]

ImplementsMessageLog == Log!Spec
=============================================================================
