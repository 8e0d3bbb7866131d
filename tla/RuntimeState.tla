---------------------------- MODULE RuntimeState ----------------------------
(***************************************************************************)
(* The fields of a memory that no mutation event governs: its confidence   *)
(* and dispute mark (feedback), its access count (batched bumps) and the   *)
(* session ordinal of its last use.  They live in four copies that are     *)
(* written at different times: Store.memories, memories.jsonl, the SQLite  *)
(* row every reader is served from, and, for a promoted duplicate, the     *)
(* whole row inside a mutation event.  The decay clock they are read       *)
(* against is the session ordinal, kept in sessions.jsonl and meta.jsonl.  *)
(*                                                                         *)
(* Every operation below runs under Store.mu, except the promotion of a    *)
(* duplicate: the handler copies the row first and commits it later.       *)
(***************************************************************************)
EXTENDS Naturals, Sequences, FiniteSets

CONSTANTS
  Memories,
  Sessions,   \* external session ids
  Modes,      \* whether the daemon may run with EnableLowRAMExperiment
  Faults,     \* which writes may fail
  Top,        \* full confidence; feedback "helped" adds one
  Harm,       \* what feedback "misled" takes away
  MaxCalls    \* bound on the calls, crashes and failures of a behaviour

ASSUME RuntimeAssumption ==
  /\ Modes \subseteq BOOLEAN
  /\ Faults \subseteq {"index", "file", "sessions", "meta"}
  /\ Top \in Nat /\ Harm \in Nat /\ MaxCalls \in Nat

VARIABLES
  lowRAM,        \* the mode of the running process
  phase,         \* down or up
  maps,          \* Store.memories; nil in the low-RAM mode
  file,          \* memories.jsonl
  index,         \* memories_current
  fingerprint,   \* what the index was last rebuilt from
  journal,       \* the promotions in memory_events.jsonl
  bumps,         \* Store.accessBumps
  promotion,     \* the row copy of the promotion in progress
  sessions,      \* ordinal of each session in memory, 0 before it exists
  sessionsFile,  \* and in sessions.jsonl
  sessionSeq,    \* Store.sessionSeq
  meta,          \* meta.jsonl; 0 when there is none
  calls,         \* history: how much of MaxCalls is used
  owed,          \* history: what feedback and accesses add up to
  excused,       \* history: why a memory may differ from it
  forgotten,     \* history: the clock was started without its meta
  lost           \* history: ordinals of sessions that died unwritten

rowVars == <<maps, file, index, fingerprint, journal, bumps, promotion>>
clock == <<sessions, sessionsFile, sessionSeq, meta>>
histories == <<forgotten, lost>>
vars == <<lowRAM, phase, rowVars, clock, calls, owed, excused, histories>>

-----------------------------------------------------------------------------
NewRow == [version |-> 1, confidence |-> Top, disputed |-> FALSE, count |-> 0, used |-> 0]
NoPromotion == [memory |-> "none"]
NoBumps == [m \in Memories |-> 0]

Held(m) == IF lowRAM THEN index[m] ELSE maps[m]
AllHeld == IF lowRAM THEN index ELSE maps
Kept(m, row) == IF lowRAM THEN maps ELSE [maps EXCEPT ![m] = row]

Versions(rows) == [m \in Memories |-> rows[m].version]

LargestOf(S) == CHOOSE n \in S : \A k \in S : k <= n

Call == calls < MaxCalls /\ calls' = calls + 1

\* A memory is excused from now on.
Excuse(m, why) == excused' = [excused EXCEPT ![m] = @ \cup {why}]

\* What feedback leaves of a confidence and a dispute mark.
Judged(row, outcome) ==
  IF outcome = "helped"
    THEN [row EXCEPT !.confidence = IF @ < Top THEN @ + 1 ELSE Top, !.disputed = FALSE]
    ELSE [row EXCEPT !.confidence = IF @ < Harm THEN 0 ELSE @ - Harm, !.disputed = TRUE]

-----------------------------------------------------------------------------
(***************************************************************************)
(* Starting.  The journal is authoritative for what it governs; the fields *)
(* here are taken from memories.jsonl when its row is of the version the   *)
(* replay arrives at, and from the event's copy otherwise.                 *)
(***************************************************************************)
LastOf(m) ==
  LET of == {i \in DOMAIN journal : journal[i].memory = m}
  IN  IF of = {} THEN file[m] ELSE journal[LargestOf(of)].row

\* Mutant of Replayed: the copy in the event wins over memories.jsonl.
ReplayedOver(m) == LastOf(m)

Replayed(m) == IF file[m].version = LastOf(m).version THEN file[m] ELSE LastOf(m)

\* Mutant of LoadedSeq: the ordinals of the rows are not looked at.
LoadedSeqOfMeta == meta

\* loadMeta: without a line in meta.jsonl the ordinals of the rows are not
\* looked at either.
LoadedSeq ==
  IF meta = 0 THEN 0 ELSE LargestOf({meta} \cup {sessionsFile[c] : c \in Sessions})

Init ==
  /\ lowRAM \in Modes /\ phase = "down"
  /\ maps = [m \in Memories |-> NewRow] /\ file = maps /\ index = maps
  /\ fingerprint = Versions(maps) /\ journal = <<>>
  /\ bumps = NoBumps /\ promotion = NoPromotion
  /\ sessions = [c \in Sessions |-> 0] /\ sessionsFile = sessions
  /\ sessionSeq = 0 /\ meta = 0
  /\ calls = 0
  /\ owed = maps /\ excused = [m \in Memories |-> {}] /\ forgotten = FALSE /\ lost = {}

Open ==
  /\ phase = "down"
  /\ phase' = "up"
  /\ LET loaded == [m \in Memories |-> Replayed(m)] IN
     /\ maps' = loaded /\ file' = loaded
     \* The fingerprint covers no field of this module but the version.
     /\ fingerprint' = Versions(loaded)
     /\ index' = IF fingerprint = Versions(loaded) THEN index ELSE loaded
  /\ bumps' = NoBumps /\ promotion' = NoPromotion
  /\ sessions' = sessionsFile /\ sessionSeq' = LoadedSeq
  /\ forgotten' = (forgotten \/ (meta = 0 /\ \E c \in Sessions : sessionsFile[c] > 0))
  /\ UNCHANGED <<lowRAM, journal, sessionsFile, meta, calls, owed, excused, lost>>

\* What a memory is owed and neither memories.jsonl nor the counts on their
\* way to it hold is lost with the process.
Die ==
  /\ phase' = "down"
  /\ excused' = [m \in Memories |->
       IF file'[m] = owed'[m] THEN excused[m] ELSE excused[m] \cup {"crash"}]
  /\ Call
  /\ UNCHANGED <<lowRAM, maps, fingerprint, bumps, promotion, sessions, sessionSeq>>

\* A session whose row never came to sessions.jsonl dies too.  Memories may
\* carry its ordinal.
LoseUnwritten ==
  lost' = lost \cup {sessions[c] : c \in {c \in Sessions : sessions[c] # sessionsFile[c]}}

Crash ==
  /\ phase = "up"
  /\ LoseUnwritten
  /\ UNCHANGED <<file, index, journal, sessionsFile, meta, owed, forgotten>>
  /\ Die

-----------------------------------------------------------------------------
(***************************************************************************)
(* UpsertSession: the row of a new session, then the ordinal that was      *)
(* given to it; of an old one the rows again, if this activity is later.   *)
(***************************************************************************)
NextSession(c) == [sessions EXCEPT ![c] = sessionSeq + 1]

NewSession(c) ==
  /\ sessions[c] = 0
  /\ sessions' = NextSession(c) /\ sessionSeq' = sessionSeq + 1
  /\ \/ sessionsFile' = sessions' /\ meta' = sessionSeq'
     \/ "meta" \in Faults /\ sessionsFile' = sessions' /\ UNCHANGED meta
     \/ "sessions" \in Faults /\ UNCHANGED <<sessionsFile, meta>>

LaterActivity(c) ==
  /\ sessions[c] > 0
  /\ sessionsFile' \in {sessions} \cup IF "sessions" \in Faults THEN {sessionsFile} ELSE {}
  /\ UNCHANGED <<sessions, sessionSeq, meta>>

UpsertSession(c) ==
  /\ phase = "up"
  /\ NewSession(c) \/ LaterActivity(c)
  /\ Call
  /\ UNCHANGED <<lowRAM, phase, rowVars, owed, excused, histories>>

\* The process dies between the two files.
CrashInUpsert(c) ==
  /\ phase = "up" /\ sessions[c] = 0
  /\ sessionsFile' = NextSession(c)
  /\ UNCHANGED <<file, index, journal, meta, owed, histories>>
  /\ Die

-----------------------------------------------------------------------------
(***************************************************************************)
(* RecordAccess and ApplyFeedback.  Both change the row in memory before   *)
(* they write it to the index, and their callers drop the error.           *)
(***************************************************************************)
Indexed(m, row) ==
  \/ index' = [index EXCEPT ![m] = row] /\ UNCHANGED excused
  \/ "index" \in Faults /\ Excuse(m, "index") /\ UNCHANGED index

\* A promotion that is under way will write the row it copied before.
Overlaps(m) == promotion.memory = m

Recall(m, c) ==
  /\ phase = "up" /\ sessions[c] > 0
  /\ LET row == [Held(m) EXCEPT !.used = sessions[c]]
     IN  Indexed(m, row) /\ maps' = Kept(m, row)
  /\ bumps' = IF excused' = excused THEN [bumps EXCEPT ![m] = @ + 1] ELSE bumps
  /\ owed' = [owed EXCEPT ![m].count = @ + 1, ![m].used = sessions[c]]
  /\ Call
  /\ UNCHANGED <<lowRAM, phase, file, fingerprint, journal, promotion, clock, histories>>

\* A search hit counts; it changes nothing else a reader could see.
SearchHit(m) ==
  /\ phase = "up"
  /\ bumps' = [bumps EXCEPT ![m] = @ + 1]
  /\ owed' = [owed EXCEPT ![m].count = @ + 1]
  /\ Call
  /\ UNCHANGED <<lowRAM, phase, maps, file, index, fingerprint, journal, promotion,
                 clock, excused, histories>>

ApplyFeedback(m, c, outcome) ==
  /\ phase = "up" /\ sessions[c] > 0
  /\ LET marked(row) == [Judged(row, outcome) EXCEPT
                           !.count = @ + 1,
                           !.used = IF outcome = "helped" THEN sessions[c] ELSE @]
     IN  /\ Indexed(m, marked(Held(m)))
         /\ maps' = Kept(m, marked(Held(m)))
         /\ owed' = [owed EXCEPT ![m] = marked(@)]
  /\ Call
  /\ UNCHANGED <<lowRAM, phase, file, fingerprint, journal, bumps, promotion, clock, histories>>

-----------------------------------------------------------------------------
(***************************************************************************)
(* FlushAccessBumps: every bumped row, in the order of a Go map, then the  *)
(* bumps are cleared and the file is written.  At the first row the index  *)
(* refuses it returns with all the bumps still pending.                    *)
(***************************************************************************)
Bumped == {m \in Memories : bumps[m] > 0}

WithBumps(rows, S) ==
  [m \in Memories |-> IF m \in S THEN [rows[m] EXCEPT !.count = @ + bumps[m]] ELSE rows[m]]

\* Mutant of Flushed: the bumps are not cleared.
FlushedAgain ==
  /\ UNCHANGED lowRAM
  /\ index' = [m \in Memories |-> IF m \in Bumped THEN WithBumps(AllHeld, Bumped)[m] ELSE index[m]]
  /\ maps' = IF lowRAM THEN maps ELSE WithBumps(maps, Bumped)
  /\ file' = AllHeld'
  /\ UNCHANGED <<bumps, excused>>

Flushed ==
  /\ UNCHANGED lowRAM
  /\ index' = [m \in Memories |-> IF m \in Bumped THEN WithBumps(AllHeld, Bumped)[m] ELSE index[m]]
  /\ maps' = IF lowRAM THEN maps ELSE WithBumps(maps, Bumped)
  /\ bumps' = NoBumps
  /\ file' \in {AllHeld'} \cup IF "file" \in Faults THEN {file} ELSE {}
  /\ UNCHANGED excused

FlushedInPart(done, refused) ==
  /\ UNCHANGED lowRAM
  /\ index' = [m \in Memories |-> IF m \in done THEN WithBumps(AllHeld, Bumped)[m] ELSE index[m]]
  /\ maps' = IF lowRAM THEN maps ELSE WithBumps(maps, done \cup {refused})
  /\ excused' = [m \in Memories |->
       IF m \in done \cup {refused} THEN excused[m] \cup {"index"} ELSE excused[m]]
  /\ UNCHANGED <<bumps, file>>

FlushAccessBumps ==
  /\ phase = "up" /\ Bumped # {}
  /\ \/ Flushed
     \/ /\ "index" \in Faults
        /\ \E refused \in Bumped : \E done \in SUBSET (Bumped \ {refused}) :
             FlushedInPart(done, refused)
  /\ Call
  /\ UNCHANGED <<phase, fingerprint, journal, promotion, clock, owed, histories>>

\* Close, or the flush of a snapshot when the process goes on.
FlushAll(last) ==
  /\ phase = "up"
  /\ Flushed /\ file' = AllHeld'
  /\ sessionsFile' = sessions
  /\ last => promotion = NoPromotion
  /\ phase' = IF last THEN "down" ELSE "up"
  /\ Call
  /\ UNCHANGED <<fingerprint, journal, promotion, sessions, sessionSeq, meta, owed, histories>>

-----------------------------------------------------------------------------
(***************************************************************************)
(* The promotion of a duplicate: LoadMemoryRow, then CommitMutation of the *)
(* whole row with its version raised.  mutationMu admits one at a time.    *)
(***************************************************************************)
LoadDuplicate(m) ==
  /\ phase = "up" /\ promotion = NoPromotion
  /\ promotion' = [memory |-> m, row |-> [index[m] EXCEPT !.version = @ + 1]]
  /\ Call
  /\ UNCHANGED <<lowRAM, phase, maps, file, index, fingerprint, journal, bumps, clock,
                 owed, excused, histories>>

Admitted == promotion # NoPromotion /\ Held(promotion.memory).version + 1 = promotion.row.version

\* The copy and the row it replaces differ in what this module is about.
Stale == Held(promotion.memory) # [promotion.row EXCEPT !.version = @ - 1]

\* The version belongs to the event; the rest of a row is owed as before.
Governed == [owed EXCEPT ![promotion.memory].version = promotion.row.version]

Event == [memory |-> promotion.memory, row |-> promotion.row]

\* Mutant of CommitMutation: the event is applied to the maps and not to the index.
CommitUnindexed ==
  /\ phase = "up" /\ Admitted
  /\ LET m == promotion.memory IN
     /\ journal' = Append(journal, Event)
     /\ maps' = Kept(m, promotion.row)
     /\ file' = IF lowRAM THEN file ELSE maps'
     /\ excused' = [excused EXCEPT ![m] = IF Stale THEN @ \cup {"overlap"} ELSE @]
  /\ promotion' = NoPromotion /\ owed' = Governed
  /\ UNCHANGED <<lowRAM, phase, index, fingerprint, bumps, clock, calls, histories>>

\* The projections are written one after the other; the first failure is
\* reported and the rest left to the next start.
CommitMutation ==
  /\ phase = "up" /\ Admitted
  /\ LET m == promotion.memory
         late == IF Stale THEN {"overlap"} ELSE {}
     IN
     /\ journal' = Append(journal, Event)
     /\ maps' = Kept(m, promotion.row)
     /\ \/ /\ file' = IF lowRAM THEN file ELSE maps'
           /\ \/ /\ index' = [index EXCEPT ![m] = promotion.row]
                 /\ excused' = [excused EXCEPT ![m] = @ \cup late]
              \/ /\ "index" \in Faults
                 /\ excused' = [excused EXCEPT ![m] = @ \cup {"index"}]
                 /\ UNCHANGED index
        \/ /\ "file" \in Faults /\ ~lowRAM
           /\ excused' = [excused EXCEPT ![m] = @ \cup {"index"}]
           /\ UNCHANGED <<file, index>>
  /\ promotion' = NoPromotion /\ owed' = Governed
  /\ UNCHANGED <<lowRAM, phase, fingerprint, bumps, clock, calls, histories>>

\* It fails before the event: another mutation has come first, or the event
\* cannot be appended.  Nothing is applied.
RefuseMutation ==
  /\ phase = "up" /\ promotion # NoPromotion
  /\ promotion' = NoPromotion
  /\ UNCHANGED <<lowRAM, phase, maps, file, index, fingerprint, journal, bumps, clock, calls,
                 owed, excused, histories>>

\* The process dies after the event and before or after memories.jsonl.
CrashInCommit ==
  /\ phase = "up" /\ Admitted
  /\ journal' = Append(journal, Event)
  /\ file' \in {file, IF lowRAM THEN file ELSE [maps EXCEPT ![promotion.memory] = promotion.row]}
  /\ owed' = Governed
  /\ LoseUnwritten
  /\ UNCHANGED <<index, sessionsFile, meta, forgotten>>
  /\ Die

-----------------------------------------------------------------------------
Next ==
  \/ Open \/ Crash
  \/ \E c \in Sessions : UpsertSession(c) \/ CrashInUpsert(c)
  \/ \E m \in Memories :
       \/ SearchHit(m) \/ LoadDuplicate(m)
       \/ \E c \in Sessions :
            \/ Recall(m, c)
            \/ \E outcome \in {"helped", "misled"} : ApplyFeedback(m, c, outcome)
  \/ FlushAccessBumps
  \/ \E last \in BOOLEAN : FlushAll(last)
  \/ CommitMutation \/ RefuseMutation \/ CrashInCommit

Spec == Init /\ [][Next]_vars

-----------------------------------------------------------------------------
Rows == [version : Nat \ {0}, confidence : 0 .. Top, disputed : BOOLEAN, count : Nat, used : Nat]

TypeOK ==
  /\ lowRAM \in BOOLEAN /\ phase \in {"down", "up"}
  /\ maps \in [Memories -> Rows] /\ file \in [Memories -> Rows] /\ index \in [Memories -> Rows]
  /\ bumps \in [Memories -> Nat]
  /\ Len(journal) <= MaxCalls
  /\ sessionSeq \in Nat /\ meta \in 0 .. Cardinality(Sessions)

(***************************************************************************)
(* What readers are served is what the feedback and the uses of a memory   *)
(* add up to, through flushes, restarts, replays and rebuilds of the       *)
(* index.  There are three ways to lose some of it and no other: a crash   *)
(* before memories.jsonl has it (queries.go:614), a promotion committing a *)
(* copy it read earlier (server.go:637), and a failed write whose error is *)
(* dropped (server.go:1191).                                               *)
(***************************************************************************)
FeedbackKept ==
  phase = "up" => \A m \in Memories : excused[m] = {} =>
    /\ index[m].confidence = owed[m].confidence
    /\ index[m].disputed = owed[m].disputed
    /\ index[m].used = owed[m].used

(***************************************************************************)
(* Every access is counted once, either in the row or in a pending bump;   *)
(* the same three exceptions.                                              *)
(***************************************************************************)
CountedOnce ==
  phase = "up" => \A m \in Memories : excused[m] = {} =>
    Held(m).count + bumps[m] = owed[m].count

(***************************************************************************)
(* The session clock runs forward: the ordinals of sessions are given out, *)
(* no two of them alike, and no memory carries one that is still to come.  *)
(* A start that finds sessions and no meta.jsonl (store.go:617: it is      *)
(* written after the first session, or its write failed) breaks all of     *)
(* this.  A session whose sessions.jsonl write failed and which dies with  *)
(* the process (queries.go:62) breaks the last part, and only for the      *)
(* memories that carry its ordinal: the clock gives it out again.          *)
(***************************************************************************)
ClockRunsForward ==
  phase = "up" /\ ~forgotten =>
    /\ \A c \in Sessions : sessions[c] <= sessionSeq
    /\ \A c, d \in Sessions : sessions[c] = sessions[d] /\ sessions[c] > 0 => c = d
    /\ \A m \in Memories : index[m].used <= sessionSeq \/ index[m].used \in lost

(***************************************************************************)
(* In the default mode the maps and the index hold the same row, so it     *)
(* does not matter which of the two an operation starts from; the          *)
(* exceptions are a crash and a failed write.                              *)
(***************************************************************************)
CopiesAgree ==
  phase = "up" /\ ~lowRAM =>
    \A m \in Memories : excused[m] \cap {"crash", "index"} = {} => index[m] = maps[m]

(***************************************************************************)
(* store.go:624 "tolerate corrupt meta; seq restarts at max(rows)": a      *)
(* start never takes the clock back behind the sessions it has read.       *)
(***************************************************************************)
RestartsAtMax == phase = "up" => \A c \in Sessions : sessionsFile[c] <= sessionSeq
=============================================================================
