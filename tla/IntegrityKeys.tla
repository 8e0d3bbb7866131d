--------------------------- MODULE IntegrityKeys ---------------------------
(***************************************************************************)
(* The key that signs memory_events.jsonl, its rotation, and the two files *)
(* a store needs to be opened with a key: the event journal and            *)
(* key_rotations.jsonl, whose last record names the new key and the event  *)
(* up to which the hash chain alone is trusted (the anchor).               *)
(*                                                                         *)
(* One process at a time holds the directory: the daemon, which appends    *)
(* events and takes snapshots, or the command that rotates the key and     *)
(* exits.  A hash is the identity of the record it covers, a signature the *)
(* key that made it.  What an event says is left out.                      *)
(***************************************************************************)
EXTENDS Naturals, Sequences, FiniteSets

CONSTANTS
  Keys,
  Faults,     \* what may go wrong
  MaxRecords  \* bound on the records ever written

ASSUME KeysAssumption ==
  /\ Keys # {}
  /\ Faults \subseteq {"kill", "power", "short", "sync"}
  /\ MaxRecords \in Nat

VARIABLES
  disk,      \* both files: their records, and how many of them are fsynced
  process,   \* the process that holds the directory and what it has in memory
  made,      \* how many records were ever written
  snapshot,  \* the last snapshot, or NoSnapshot
  offered,   \* history: the keys one of which the operator was led to use
  retired,   \* history: keys an acknowledged rotation replaced
  read,      \* history: how many records of each file some process has read
  damaged    \* history: a failed write or a lost one has harmed a file

vars == <<disk, process, made, snapshot, offered, retired, read, damaged>>

-----------------------------------------------------------------------------
Files == {"events", "rotations"}

\* Part of a record, which no reader can decode.
Partial == [id |-> 0]
NoFile == [records |-> <<>>, durable |-> 0]
NoSnapshot == [key |-> "none"]

Latest(s) == s[Len(s)]
HeadOf(s) == IF s = <<>> THEN 0 ELSE Latest(s).id

\* The numbers and the hash chain are right, counting from a number already held.
Chained(s, from) ==
  \A i \in DOMAIN s :
    s[i].id # 0 /\ s[i].seq = from + i /\ s[i].prev = HeadOf(SubSeq(s, 1, i - 1))

\* loadKeyRotations: the last record was signed with this key.
RotationsOpen(k, rotations, from) ==
  /\ Chained(rotations, from)
  /\ rotations # <<>> => Latest(rotations).new = k

Anchor(rotations) == IF rotations = <<>> THEN 0 ELSE Latest(rotations).head

\* The events behind the anchor, which must be there, carry this key's HMAC.
Signed(k, events, anchor) ==
  LET reached == {i \in DOMAIN events : events[i].id = anchor}
  IN  /\ anchor # 0 => reached # {}
      /\ \A i \in DOMAIN events : (\A j \in reached : j < i) => events[i].key = k

EventsOpen(k, events, anchor) == Chained(events, 0) /\ Signed(k, events, anchor)

\* A directory that openStore accepts with key k.
Opens(k, events, rotations) ==
  RotationsOpen(k, rotations, 0) /\ EventsOpen(k, events, Anchor(rotations))

Readable(k) == Opens(k, disk["events"].records, disk["rotations"].records)

\* What a process has in memory once it has read the directory.
Loaded(k, phase) ==
  LET events == disk["events"].records
      rotations == disk["rotations"].records
  IN  [phase |-> phase, step |-> "idle", key |-> k,
       seq |-> Len(events), head |-> HeadOf(events), anchor |-> Anchor(rotations),
       rotationSeq |-> Len(rotations), lastRotation |-> HeadOf(rotations)]

Down == [phase |-> "down"]

\* Mutant of Reset: SetIntegrityKey keeps counting rotations where the load stopped.
ResetNothing(p) == p
Reset(p) == [p EXCEPT !.rotationSeq = 0, !.lastRotation = 0, !.anchor = 0]

\* SetIntegrityKey: everything is read again over what is in memory.
SecondReading(p, k) ==
  LET rotations == disk["rotations"].records
      anchor == IF rotations = <<>> THEN Reset(p).anchor ELSE Anchor(rotations)
  IN  /\ RotationsOpen(k, rotations, Reset(p).rotationSeq)
      /\ EventsOpen(k, disk["events"].records, anchor)

-----------------------------------------------------------------------------
Init ==
  /\ disk = [f \in Files |-> NoFile]
  /\ process = Down
  /\ made = 0
  /\ snapshot = NoSnapshot
  /\ offered = Keys
  /\ retired = {}
  /\ read = [f \in Files |-> 0]
  /\ damaged = FALSE

\* OpenConfigured with the key of the configuration; the daemon's NewServer then
\* verifies the journal a second time.
Open(k, phase) ==
  /\ process.phase = "down"
  /\ Readable(k)
  /\ process' = IF phase = "serving" /\ ~SecondReading(Loaded(k, phase), k)
                  THEN Down ELSE Loaded(k, phase)
  /\ read' = [f \in Files |-> Len(disk[f].records)]
  /\ offered' = {k}
  /\ UNCHANGED <<disk, made, snapshot, retired, damaged>>

Exit ==
  /\ process.phase # "down" /\ process.step = "idle"
  /\ process' = Down
  /\ UNCHANGED <<disk, made, snapshot, offered, retired, read, damaged>>

-----------------------------------------------------------------------------
At(phase, step) == process.phase = phase /\ process.step = step

Appended(f, record) == [disk EXCEPT ![f].records = Append(@, record)]
Synced(f) == [disk EXCEPT ![f].durable = Len(disk[f].records)]

\* Of a record that follows one its writer does not know of, or part of one.
Collides(f, known) == Len(disk[f].records) > known

NewEvent ==
  [id |-> made + 1, seq |-> process.seq + 1, prev |-> process.head, key |-> process.key]

\* CommitMutation under Store.mu: the bytes, the fsync, the answer.
WriteEvent ==
  /\ At("serving", "idle") /\ made < MaxRecords
  /\ disk' = Appended("events", NewEvent)
  /\ process' = [process EXCEPT !.step = "event"]
  /\ made' = made + 1
  /\ damaged' = (damaged \/ Collides("events", process.seq))
  /\ UNCHANGED <<snapshot, offered, retired, read>>

SyncEvent ==
  /\ At("serving", "event")
  /\ disk' = Synced("events")
  /\ process' = [process EXCEPT !.step = "idle", !.seq = @ + 1,
                                !.head = HeadOf(disk["events"].records)]
  /\ UNCHANGED <<made, snapshot, offered, retired, read, damaged>>

\* The commit fails; the record stays in the file and memory as it was.
SyncEventFails ==
  /\ "sync" \in Faults /\ At("serving", "event")
  /\ process' = [process EXCEPT !.step = "idle"]
  /\ UNCHANGED <<disk, made, snapshot, offered, retired, read, damaged>>

EventShort ==
  /\ "short" \in Faults /\ At("serving", "idle") /\ made < MaxRecords
  /\ disk' = Appended("events", Partial)
  /\ made' = made + 1
  /\ damaged' = TRUE
  /\ UNCHANGED <<process, snapshot, offered, retired, read>>

-----------------------------------------------------------------------------
\* Mutant of NewRotation: the anchor of the rotation before it.
NewRotationStale(n) ==
  [id |-> made + 1, seq |-> process.rotationSeq + 1, prev |-> process.lastRotation,
   head |-> process.anchor, old |-> process.key, new |-> n]

NewRotation(n) ==
  [id |-> made + 1, seq |-> process.rotationSeq + 1, prev |-> process.lastRotation,
   head |-> process.head, old |-> process.key, new |-> n]

\* RotateIntegrityKey, run by a command that ends with it.
WriteRotation(n) ==
  /\ At("rotating", "idle") /\ made < MaxRecords
  /\ n # process.key
  /\ disk' = Appended("rotations", NewRotation(n))
  /\ process' = [process EXCEPT !.step = "rotation"]
  /\ made' = made + 1
  /\ offered' = offered \cup {n}
  /\ retired' = retired \ {n}
  /\ UNCHANGED <<snapshot, read, damaged>>

\* Mutant of SyncRotation: the answer does not wait for the fsync.
SyncRotationLater ==
  /\ At("rotating", "rotation")
  /\ process' = Down
  /\ offered' = {Latest(disk["rotations"].records).new}
  /\ retired' = retired \cup {process.key}
  /\ UNCHANGED <<disk, made, snapshot, read, damaged>>

\* The operator is told, and configures the new key.
SyncRotation ==
  /\ At("rotating", "rotation")
  /\ disk' = Synced("rotations")
  /\ process' = Down
  /\ offered' = {Latest(disk["rotations"].records).new}
  /\ retired' = retired \cup {process.key}
  /\ UNCHANGED <<made, snapshot, read, damaged>>

\* The command reports an error; the record stays.
SyncRotationFails ==
  /\ "sync" \in Faults /\ At("rotating", "rotation")
  /\ process' = Down
  /\ UNCHANGED <<disk, made, snapshot, offered, retired, read, damaged>>

RotationShort ==
  /\ "short" \in Faults /\ At("rotating", "idle") /\ made < MaxRecords
  /\ disk' = Appended("rotations", Partial)
  /\ process' = Down
  /\ made' = made + 1
  /\ damaged' = TRUE
  /\ UNCHANGED <<snapshot, offered, retired, read>>

-----------------------------------------------------------------------------
\* Mutant of SnapshotFiles: key_rotations.jsonl is not on the list.
SnapshotFilesWithout == {"events"}
SnapshotFiles == Files

\* CreateSnapshot copies the files under Store.mu.
CreateSnapshot ==
  /\ At("serving", "idle")
  /\ snapshot' = [key |-> process.key, retired |-> retired, damaged |-> damaged,
                  files |-> [f \in Files |->
                               IF f \in SnapshotFiles THEN disk[f].records ELSE <<>>]]
  /\ UNCHANGED <<disk, process, made, offered, retired, read, damaged>>

\* The operator starts over from a copy of the snapshot, with the key kept with it.
Restore ==
  /\ process.phase = "down" /\ snapshot # NoSnapshot
  /\ disk' = [f \in Files |-> [records |-> snapshot.files[f],
                               durable |-> Len(snapshot.files[f])]]
  /\ offered' = {snapshot.key}
  /\ retired' = snapshot.retired
  /\ damaged' = snapshot.damaged
  /\ read' = [f \in Files |-> Len(snapshot.files[f])]
  /\ UNCHANGED <<process, made, snapshot>>

-----------------------------------------------------------------------------
Kill ==
  /\ "kill" \in Faults /\ process.phase # "down"
  /\ process' = Down
  /\ UNCHANGED <<disk, made, snapshot, offered, retired, read, damaged>>

\* Of what was not fsynced a prefix survives, cut between records or inside one.
Survivals(f) ==
  LET s == disk[f].records
      Kept(n) == [records |-> SubSeq(s, 1, n), durable |-> n]
      Torn(n) == [records |-> Append(SubSeq(s, 1, n), Partial), durable |-> n + 1]
  IN  {Kept(n) : n \in disk[f].durable .. Len(s)}
        \cup {Torn(n) : n \in disk[f].durable .. (Len(s) - 1)}

\* A record that a process had read is gone, or part of one is left.
Harmed(f, left) ==
  \/ Len(left.records) < read[f]
  \/ left.records # SubSeq(disk[f].records, 1, Len(left.records))

PowerLoss ==
  /\ "power" \in Faults
  /\ \E events \in Survivals("events"), rotations \in Survivals("rotations") :
       /\ disk' = [f \in Files |-> IF f = "events" THEN events ELSE rotations]
       /\ damaged' = (damaged \/ Harmed("events", events) \/ Harmed("rotations", rotations))
  /\ process' = Down
  /\ read' = [f \in Files |-> Len(disk'[f].records)]
  /\ UNCHANGED <<made, snapshot, offered, retired>>

-----------------------------------------------------------------------------
Next ==
  \/ \E k \in Keys, phase \in {"serving", "rotating"} : Open(k, phase)
  \/ Exit
  \/ WriteEvent \/ SyncEvent \/ SyncEventFails \/ EventShort
  \/ \E n \in Keys : WriteRotation(n)
  \/ SyncRotation \/ SyncRotationFails \/ RotationShort
  \/ CreateSnapshot \/ Restore
  \/ Kill \/ PowerLoss

Spec == Init /\ [][Next]_vars

-----------------------------------------------------------------------------
\* The variables have their types; a rotation replaces a key by another one.
TypeOK ==
  /\ made \in 0 .. MaxRecords
  /\ process.phase \in {"down", "serving", "rotating"}
  /\ process.phase # "down" => process.key \in Keys /\ process.seq \in 0 .. made
  /\ \A f \in Files : disk[f].durable \in 0 .. Len(disk[f].records)
  /\ \A i \in DOMAIN disk["rotations"].records :
       LET r == disk["rotations"].records[i] IN r.id # 0 => r.old # r.new
  /\ offered \subseteq Keys /\ retired \subseteq Keys /\ damaged \in BOOLEAN

\* Unless a file was harmed, one of the keys the operator was led to use opens the
\* store: the one a rotation announced, or, when the command that writes the
\* record of a rotation was cut short or failed, the old one or the new one.
ToldKeyOpens == damaged \/ \E k \in offered : Readable(k)

\* A key that an acknowledged rotation replaced opens the store never again, after
\* whatever crash, unless a later rotation or the restoring of an older snapshot
\* brings it back.
RetiredStaysOut == \A k \in retired : ~Readable(k)

\* A store that opens with a key passes the second verification by NewServer: what
\* SetIntegrityKey leaves of the first reading does not get in its way.
SecondReadingAgrees == \A k \in Keys : Readable(k) => SecondReading(Loaded(k, "serving"), k)

\* A snapshot opens with the key in force when it was taken, whatever was rotated,
\* before or since.
SnapshotOpens ==
  \/ snapshot = NoSnapshot
  \/ snapshot.damaged
  \/ Opens(snapshot.key, snapshot.files["events"], snapshot.files["rotations"])

\* Without the excuse: what may be harmed by a failed write or a power loss
\* can leave a store that no key opens.
SomeKeyOpens == \E k \in Keys : Readable(k)
=============================================================================
