------------------------- MODULE RuntimeStateProofs -------------------------
(***************************************************************************)
(* Proofs about the ungoverned fields of a memory and the session clock,   *)
(* for every set of memories, sessions and faults, in both modes and with  *)
(* any number of calls, crashes and failures.                              *)
(*                                                                         *)
(* The argument.  A copy of a row says less than its value: which copy is  *)
(* served after the next start depends on how memories.jsonl, the row      *)
(* held, the pending bumps and the fingerprint compare.  RowInv relates    *)
(* the copies of one memory; ClockInv relates the ordinals in the rows     *)
(* to those the clock can still give out.                                  *)
(***************************************************************************)
EXTENDS RuntimeState, TLAPS

Whys == {"crash", "index", "overlap"}
Promotions == [memory : Memories, row : Rows]

HasLargest(S) == \E n \in S : \A k \in S : k <= n
Ordinals(s) == {0} \cup {s[c] : c \in Sessions}

Typed ==
  /\ lowRAM \in BOOLEAN /\ phase \in {"down", "up"}
  /\ maps \in [Memories -> Rows] /\ file \in [Memories -> Rows]
  /\ index \in [Memories -> Rows] /\ owed \in [Memories -> Rows]
  /\ fingerprint \in [Memories -> Nat] /\ bumps \in [Memories -> Nat]
  /\ journal \in Seq(Promotions) /\ promotion \in {NoPromotion} \cup Promotions
  /\ sessions \in [Sessions -> Nat] /\ sessionsFile \in [Sessions -> Nat]
  /\ HasLargest(Ordinals(sessions)) /\ HasLargest(Ordinals(sessionsFile))
  /\ sessionSeq \in Nat /\ meta \in Nat
  /\ excused \in [Memories -> SUBSET Whys]

-----------------------------------------------------------------------------
\* The last event of a memory has the version the memory is owed.
JournalInv ==
  \A m \in Memories :
    \/ \A i \in DOMAIN journal : journal[i].memory # m
    \/ \E i \in DOMAIN journal :
         /\ journal[i].memory = m
         /\ \A j \in DOMAIN journal : journal[j].memory = m => j <= i
         /\ journal[i].row.version = owed[m].version

\* No crash and no failed write has come between the copies of a memory; in
\* the low-RAM mode no overlapping promotion either, since the file is not
\* written with its event.
Intact(m) ==
  /\ excused[m] \cap {"crash", "index"} = {}
  /\ lowRAM => excused[m] = {}

Same(r, s) == r.confidence = s.confidence /\ r.disputed = s.disputed /\ r.used = s.used

\* While the store serves.  memories.jsonl is behind the row that is held, and
\* as long as it is not behind it is equal to it.
UpRow(m) ==
  /\ index[m] = Held(m)
  /\ file[m].count <= Held(m).count /\ file[m].version <= Held(m).version
  /\ file[m].count = Held(m).count + bumps[m] /\ file[m].version = Held(m).version
       => Held(m) = file[m]
  /\ Held(m).count + bumps[m] <= owed[m].count
  /\ Held(m).version = owed[m].version
  /\ fingerprint[m] <= Held(m).version
  /\ promotion # NoPromotion /\ promotion.memory = m => promotion.row.count <= Held(m).count
  /\ excused[m] = {} => Same(Held(m), owed[m]) /\ Held(m).count + bumps[m] = owed[m].count

\* While it is down.  An index that differs from memories.jsonl is rebuilt.
DownRow(m) ==
  /\ file[m].version = owed[m].version /\ file[m].count <= owed[m].count
  /\ index[m] = file[m] \/ fingerprint[m] # file[m].version
  /\ excused[m] = {} => file[m] = owed[m]

RowAt(m) == Intact(m) => (phase = "up" => UpRow(m)) /\ (phase = "down" => DownRow(m))

RowInv == \A m \in Memories : RowAt(m)

-----------------------------------------------------------------------------
\* No row, wherever it is kept, carries an ordinal other than these.
UsedAre(S) ==
  /\ \A m \in Memories : maps[m].used \in S /\ file[m].used \in S /\ index[m].used \in S
  /\ \A i \in DOMAIN journal : journal[i].row.used \in S
  /\ promotion # NoPromotion => promotion.row.used \in S

\* No two sessions of a table have an ordinal in common.
Distinct(s) == \A c, d \in Sessions : s[c] = s[d] /\ s[c] > 0 => c = d

\* The sessions that are there, and will be after a restart.
Table == IF phase = "up" THEN sessions ELSE sessionsFile

\* A row carries the ordinal of a session of the table or of one that died
\* unwritten; sessions.jsonl has what memory has, or nothing; and while the
\* store serves no session is ahead of the clock.
ClockInv ==
  /\ UsedAre(Ordinals(Table) \cup lost)
  /\ phase = "up" => \A c \in Sessions : sessionsFile[c] \in {0, sessions[c]}
  /\ ~forgotten =>
       /\ Distinct(Table)
       /\ phase = "up" => \A c \in Sessions : sessions[c] <= sessionSeq

RuntimeInv == Typed /\ JournalInv /\ RowInv /\ ClockInv

-----------------------------------------------------------------------------
(***************************************************************************)
(* Rows, and the row a start arrives at.                                   *)
(***************************************************************************)
\* The rows the operations write.
LEMMA RowTypes ==
  /\ NewRow \in Rows
  /\ \A r \in Rows :
       /\ \A n \in Nat : [r EXCEPT !.used = n] \in Rows
       /\ \A n \in Nat : [r EXCEPT !.count = @ + n] \in Rows
       /\ \A n \in Nat : [r EXCEPT !.count = @ + 1, !.used = n] \in Rows
       /\ [r EXCEPT !.version = @ + 1] \in Rows
       /\ \A outcome \in {"helped", "misled"} : Judged(r, outcome) \in Rows
<1>1. Top \in Nat /\ Harm \in Nat
  BY RuntimeAssumption
<1>2. NewRow \in Rows
  BY <1>1 DEF NewRow, Rows
<1> SUFFICES ASSUME NEW r \in Rows
             PROVE  /\ \A n \in Nat : [r EXCEPT !.used = n] \in Rows
                    /\ \A n \in Nat : [r EXCEPT !.count = @ + n] \in Rows
                    /\ \A n \in Nat : [r EXCEPT !.count = @ + 1, !.used = n] \in Rows
                    /\ [r EXCEPT !.version = @ + 1] \in Rows
                    /\ \A outcome \in {"helped", "misled"} : Judged(r, outcome) \in Rows
  BY <1>2
<1>3. /\ \A n \in Nat : [r EXCEPT !.used = n] \in Rows
      /\ \A n \in Nat : [r EXCEPT !.count = @ + n] \in Rows
      /\ [r EXCEPT !.version = @ + 1] \in Rows
  BY DEF Rows
<1>4. /\ (IF r.confidence < Top THEN r.confidence + 1 ELSE Top) \in 0 .. Top
      /\ (IF r.confidence < Harm THEN 0 ELSE r.confidence - Harm) \in 0 .. Top
  BY <1>1 DEF Rows
<1>5. \A outcome \in {"helped", "misled"} : Judged(r, outcome) \in Rows
  BY <1>4 DEF Rows, Judged
<1>6. \A n \in Nat : [r EXCEPT !.count = @ + 1, !.used = n] \in Rows
  <2> SUFFICES ASSUME NEW n \in Nat PROVE [r EXCEPT !.count = @ + 1, !.used = n] \in Rows
    OBVIOUS
  <2>1. [r EXCEPT !.count = @ + 1, !.used = n] = [[r EXCEPT !.count = @ + 1] EXCEPT !.used = n]
    OBVIOUS
  <2>2. [r EXCEPT !.count = @ + 1] \in Rows
    BY <1>3
  <2>3. \A t \in Rows : [t EXCEPT !.used = n] \in Rows
    BY DEF Rows
  <2> QED BY <2>1, <2>2, <2>3
<1> QED BY <1>3, <1>5, <1>6

\* A row is what its five fields say.
LEMMA RowEqual ==
  ASSUME NEW r \in Rows, NEW s \in Rows,
         Same(r, s), r.version = s.version, r.count = s.count
  PROVE  r = s
BY DEF Rows, Same

LEMMA HeldType ==
  ASSUME Typed, NEW m \in Memories
  PROVE  Held(m) \in Rows
BY DEF Typed, Held

\* The row the journal gives a memory.
LEMMA LastOfIs ==
  ASSUME Typed, JournalInv, NEW m \in Memories
  PROVE  /\ LastOf(m) \in Rows
         /\ \/ LastOf(m) = file[m]
            \/ /\ LastOf(m).version = owed[m].version
               /\ \E i \in DOMAIN journal : LastOf(m) = journal[i].row
<1> DEFINE of == {i \in DOMAIN journal : journal[i].memory = m}
<1>1. CASE of = {}
  <2>1. LastOf(m) = file[m]
    BY <1>1 DEF LastOf
  <2> QED BY <2>1 DEF Typed
<1>2. CASE of # {}
  <2>1. PICK i \in DOMAIN journal : /\ journal[i].memory = m
                                    /\ \A j \in DOMAIN journal : journal[j].memory = m => j <= i
                                    /\ journal[i].row.version = owed[m].version
    BY <1>2 DEF JournalInv
  <2>2. i \in of /\ \A k \in of : k <= i
    BY <2>1
  <2>3. \A k \in of : k \in Nat
    BY DEF Typed
  <2>4. LargestOf(of) = i
    BY <2>2, <2>3 DEF LargestOf
  <2>5. LastOf(m) = journal[i].row
    BY <1>2, <2>4 DEF LastOf
  <2>6. journal[i] \in Promotions
    BY DEF Typed
  <2> QED BY <2>1, <2>5, <2>6 DEF Promotions
<1> QED BY <1>1, <1>2

\* A start keeps the row of memories.jsonl when its version is the one owed.
LEMMA ReplayedIs ==
  ASSUME Typed, JournalInv, NEW m \in Memories
  PROVE  /\ Replayed(m) \in Rows
         /\ file[m].version = owed[m].version => Replayed(m) = file[m]
BY LastOfIs DEF Replayed, Typed

LEMMA OrdinalsExtend ==
  ASSUME NEW s \in [Sessions -> Nat], NEW c \in Sessions, NEW n \in Nat, HasLargest(Ordinals(s)),
         s[c] = 0
  PROVE  HasLargest(Ordinals([s EXCEPT ![c] = n]))
<1> DEFINE t == [s EXCEPT ![c] = n]
<1>1. PICK l \in Ordinals(s) : \A k \in Ordinals(s) : k <= l
  BY DEF HasLargest
<1>2. l \in Nat /\ Ordinals(t) \subseteq Ordinals(s) \cup {n}
  BY DEF Ordinals
<1>3. n \in Ordinals(t)
  BY DEF Ordinals
<1>4. l \in Ordinals(t)
  BY DEF Ordinals
<1>5. CASE l <= n
  BY <1>1, <1>2, <1>3, <1>5 DEF HasLargest, Ordinals
<1>6. CASE n <= l
  BY <1>1, <1>2, <1>4, <1>6 DEF HasLargest, Ordinals
<1> QED BY <1>2, <1>5, <1>6

\* The clock a start arrives at is a number.
LEMMA LoadedSeqType ==
  ASSUME Typed
  PROVE  LoadedSeq \in Nat
<1> DEFINE S == {meta} \cup {sessionsFile[c] : c \in Sessions}
<1>1. PICK l \in Ordinals(sessionsFile) : \A k \in Ordinals(sessionsFile) : k <= l
  BY DEF Typed, HasLargest
<1>2. S \subseteq Nat /\ l \in Nat
  BY DEF Typed, Ordinals
<1>3. \E n \in S : \A k \in S : k <= n
  <2>1. \A k \in S : k = meta \/ k <= l
    BY <1>1 DEF Ordinals
  <2>2. CASE l <= meta
    BY <1>2, <2>1, <2>2
  <2>3. CASE ~(l <= meta)
    <3>1. l # 0 /\ meta <= l
      BY <1>2, <2>3 DEF Typed
    <3>2. l \in S
      BY <3>1 DEF Ordinals
    <3> QED BY <1>2, <2>1, <3>1, <3>2
  <2> QED BY <2>2, <2>3
<1>4. LargestOf(S) \in S
  BY <1>3 DEF LargestOf
<1> QED BY <1>2, <1>4 DEF LoadedSeq

-----------------------------------------------------------------------------
(***************************************************************************)
(* The types.                                                              *)
(***************************************************************************)
LEMMA InitTyped == Init => Typed
<1> SUFFICES ASSUME Init PROVE Typed
  OBVIOUS
<1>1. Ordinals(sessions) = {0} /\ Ordinals(sessionsFile) = {0}
  BY DEF Init, Ordinals
<1>2. HasLargest({0})
  BY DEF HasLargest
<1>3. lowRAM \in BOOLEAN
  BY RuntimeAssumption DEF Init
<1>4. Versions(maps) \in [Memories -> Nat]
  BY RowTypes DEF Init, Versions, Rows, NewRow
<1>5. /\ maps \in [Memories -> Rows] /\ file \in [Memories -> Rows]
      /\ index \in [Memories -> Rows] /\ owed \in [Memories -> Rows]
  BY RowTypes DEF Init
<1>6. fingerprint \in [Memories -> Nat] /\ bumps \in [Memories -> Nat]
  BY <1>4 DEF Init, NoBumps
<1>7. journal \in Seq(Promotions) /\ promotion = NoPromotion
  BY DEF Init
<1>8. sessions \in [Sessions -> Nat] /\ sessionsFile \in [Sessions -> Nat] /\ sessionSeq = 0 /\ meta = 0
  BY DEF Init
<1>9. excused \in [Memories -> SUBSET Whys] /\ phase = "down"
  BY DEF Init
<1> QED BY <1>1, <1>2, <1>3, <1>5, <1>6, <1>7, <1>8, <1>9 DEF Typed

\* The row of a promotion in progress.
LEMMA PromotionType ==
  ASSUME Typed, promotion # NoPromotion
  PROVE  promotion.memory \in Memories /\ promotion.row \in Rows /\ Event = promotion /\ Event \in Promotions
BY DEF Typed, Promotions, Event

LEMMA WithBumpsType ==
  ASSUME Typed, NEW rows \in [Memories -> Rows], NEW S
  PROVE  WithBumps(rows, S) \in [Memories -> Rows]
<1>1. \A m \in Memories : rows[m] \in Rows /\ bumps[m] \in Nat
  BY DEF Typed
<1>2. \A m \in Memories : [rows[m] EXCEPT !.count = @ + bumps[m]] \in Rows
  BY <1>1, RowTypes
<1> QED BY <1>1, <1>2 DEF WithBumps

\* What a flush does, whatever becomes of memories.jsonl.
LEMMA FlushTypes ==
  ASSUME Typed
  PROVE  /\ AllHeld \in [Memories -> Rows]
         /\ WithBumps(AllHeld, Bumped) \in [Memories -> Rows]
         /\ Flushed => /\ maps' \in [Memories -> Rows] /\ index' \in [Memories -> Rows]
                       /\ bumps' \in [Memories -> Nat] /\ AllHeld' \in [Memories -> Rows]
                       /\ file' \in {AllHeld', file}
<1>1. AllHeld \in [Memories -> Rows]
  BY DEF AllHeld, Typed
<1>2. WithBumps(AllHeld, Bumped) \in [Memories -> Rows] /\ WithBumps(maps, Bumped) \in [Memories -> Rows]
  BY <1>1, WithBumpsType DEF Typed
<1>3. ASSUME Flushed
      PROVE  /\ maps' \in [Memories -> Rows] /\ index' \in [Memories -> Rows]
             /\ bumps' \in [Memories -> Nat]
             /\ file' \in {AllHeld', file}
  BY <1>2, <1>3 DEF Flushed, Typed, NoBumps
<1>4. Flushed => AllHeld' \in [Memories -> Rows]
  BY <1>3 DEF AllHeld
<1> QED BY <1>1, <1>2, <1>3, <1>4

LEMMA ExcuseTypes ==
  ASSUME Typed, NEW m \in Memories, NEW why \in SUBSET Whys
  PROVE  [excused EXCEPT ![m] = @ \cup why] \in [Memories -> SUBSET Whys]
BY DEF Typed

LEMMA DieTypes ==
  ASSUME Typed, Die
  PROVE  /\ lowRAM' \in BOOLEAN /\ phase' \in {"down", "up"} /\ maps' \in [Memories -> Rows]
         /\ fingerprint' \in [Memories -> Nat] /\ bumps' \in [Memories -> Nat]
         /\ promotion' \in {NoPromotion} \cup Promotions
         /\ sessions' \in [Sessions -> Nat] /\ HasLargest(Ordinals(sessions)') /\ sessionSeq' \in Nat
         /\ excused' \in [Memories -> SUBSET Whys]
BY DEF Die, Typed, Whys, Ordinals, HasLargest

LEMMA OrdinalsSame ==
  /\ sessions' = sessions => Ordinals(sessions)' = Ordinals(sessions)
  /\ sessionsFile' = sessionsFile => Ordinals(sessionsFile)' = Ordinals(sessionsFile)
BY DEF Ordinals

\* The tables of sessions are left alone by most operations.
LEMMA ClockTypes ==
  ASSUME Typed, UNCHANGED clock
  PROVE  /\ sessions' \in [Sessions -> Nat] /\ sessionsFile' \in [Sessions -> Nat]
         /\ HasLargest(Ordinals(sessions)') /\ HasLargest(Ordinals(sessionsFile)')
         /\ sessionSeq' \in Nat /\ meta' \in Nat
BY OrdinalsSame DEF Typed, clock, HasLargest

LEMMA OpenTyped ==
  ASSUME Typed, JournalInv, Open
  PROVE  Typed'
<1> DEFINE loaded == [m \in Memories |-> Replayed(m)]
<1>1. loaded \in [Memories -> Rows]
  BY ReplayedIs
<1>2. Versions(loaded) \in [Memories -> Nat]
  BY <1>1 DEF Versions, Rows
<1>3. index' \in [Memories -> Rows] /\ maps' = loaded /\ file' = loaded /\ fingerprint' = Versions(loaded)
  BY <1>1 DEF Open, Typed
<1>4. sessions' = sessionsFile /\ sessionsFile' = sessionsFile
      /\ Ordinals(sessions)' = Ordinals(sessionsFile) /\ Ordinals(sessionsFile)' = Ordinals(sessionsFile)
  BY DEF Open, Ordinals
<1>5. sessionSeq' \in Nat
  BY LoadedSeqType DEF Open
<1>6. bumps' \in [Memories -> Nat] /\ promotion' = NoPromotion
  BY DEF Open, NoBumps
<1> QED BY <1>1, <1>2, <1>3, <1>4, <1>5, <1>6 DEF Open, Typed, HasLargest

LEMMA SessionTypes ==
  ASSUME Typed, NEW c \in Sessions, sessions[c] = 0
  PROVE  /\ NextSession(c) \in [Sessions -> Nat]
         /\ HasLargest(Ordinals(NextSession(c)))
<1>1. sessionSeq + 1 \in Nat
  BY DEF Typed
<1> QED BY <1>1, OrdinalsExtend DEF NextSession, Typed

LEMMA UpsertTyped ==
  ASSUME Typed, NEW c \in Sessions, UpsertSession(c)
  PROVE  Typed'
<1>1. CASE NewSession(c)
  <2>1. NextSession(c) \in [Sessions -> Nat] /\ HasLargest(Ordinals(NextSession(c)))
    BY <1>1, SessionTypes DEF NewSession
  <2>2. sessions' = NextSession(c) /\ Ordinals(sessions)' = Ordinals(NextSession(c))
    BY <1>1 DEF NewSession, Ordinals
  <2>3. sessionSeq' = sessionSeq + 1 /\ sessionSeq' \in Nat
    BY <1>1 DEF NewSession, Typed
  <2>4. /\ sessionsFile' \in [Sessions -> Nat] /\ HasLargest(Ordinals(sessionsFile)')
        /\ meta' \in Nat
    <3>1. CASE sessionsFile' = sessions' /\ (meta' = sessionSeq' \/ UNCHANGED meta)
      <4>1. Ordinals(sessionsFile)' = Ordinals(NextSession(c))
        BY <2>2, <3>1 DEF Ordinals
      <4> QED BY <2>1, <2>2, <2>3, <3>1, <4>1 DEF Typed
    <3>2. CASE UNCHANGED <<sessionsFile, meta>>
      BY <3>2, OrdinalsSame DEF Typed
    <3> QED BY <1>1, <3>1, <3>2 DEF NewSession
  <2> QED BY <2>1, <2>2, <2>3, <2>4 DEF UpsertSession, Typed, rowVars
<1>2. CASE LaterActivity(c)
  <2>1. UNCHANGED <<sessions, sessionSeq, meta>> /\ sessionsFile' \in {sessions, sessionsFile}
    BY <1>2 DEF LaterActivity
  <2>2. Ordinals(sessionsFile)' \in {Ordinals(sessions), Ordinals(sessionsFile)}
        /\ Ordinals(sessions)' = Ordinals(sessions)
    BY <2>1 DEF Ordinals
  <2> QED BY <2>1, <2>2 DEF UpsertSession, Typed, rowVars
<1> QED BY <1>1, <1>2 DEF UpsertSession

LEMMA CrashTyped ==
  ASSUME Typed, Crash \/ CrashInCommit \/ \E c \in Sessions : CrashInUpsert(c)
  PROVE  Typed'
<1>1. CASE Crash
  BY <1>1, DieTypes, OrdinalsSame DEF Crash, Typed, HasLargest
<1>2. ASSUME NEW c \in Sessions, CrashInUpsert(c)
      PROVE  Typed'
  <2>1. NextSession(c) \in [Sessions -> Nat] /\ HasLargest(Ordinals(NextSession(c)))
    BY <1>2, SessionTypes DEF CrashInUpsert
  <2>2. sessionsFile' = NextSession(c) /\ Ordinals(sessionsFile)' = Ordinals(NextSession(c)) /\ Die
    BY <1>2 DEF CrashInUpsert, Ordinals
  <2> QED BY <1>2, <2>1, <2>2, DieTypes DEF CrashInUpsert, Typed, HasLargest
<1>3. CASE CrashInCommit
  <2>1. promotion.memory \in Memories /\ promotion.row \in Rows /\ Event \in Promotions
    BY <1>3, PromotionType DEF CrashInCommit, Admitted
  <2>2. journal' \in Seq(Promotions)
    BY <1>3, <2>1 DEF CrashInCommit, Typed
  <2>3. file' \in [Memories -> Rows]
    BY <1>3, <2>1 DEF CrashInCommit, Typed
  <2>4. owed' \in [Memories -> Rows]
    <3>1. [owed[promotion.memory] EXCEPT !.version = promotion.row.version] \in Rows
      BY <2>1 DEF Rows, Typed
    <3> QED BY <1>3, <2>1, <3>1 DEF CrashInCommit, Governed, Typed
  <2> QED BY <1>3, <2>2, <2>3, <2>4, DieTypes, OrdinalsSame DEF CrashInCommit, Typed, HasLargest
<1> QED BY <1>1, <1>2, <1>3

\* The fields a step on rows may change.
LEMMA RowStepTyped ==
  ASSUME Typed, UNCHANGED <<lowRAM, clock>>,
         phase' \in {"down", "up"}, maps' \in [Memories -> Rows], file' \in [Memories -> Rows],
         index' \in [Memories -> Rows], owed' \in [Memories -> Rows], fingerprint' = fingerprint,
         bumps' \in [Memories -> Nat], journal' \in Seq(Promotions),
         promotion' \in {NoPromotion} \cup Promotions, excused' \in [Memories -> SUBSET Whys]
  PROVE  Typed'
<1>1. UNCHANGED clock
  OBVIOUS
<1>2. /\ sessions' \in [Sessions -> Nat] /\ sessionsFile' \in [Sessions -> Nat]
      /\ HasLargest(Ordinals(sessions)') /\ HasLargest(Ordinals(sessionsFile)')
      /\ sessionSeq' \in Nat /\ meta' \in Nat
  BY <1>1, ClockTypes
<1>3. lowRAM' \in BOOLEAN /\ fingerprint' \in [Memories -> Nat]
  BY DEF Typed
<1>4. HasLargest(Ordinals(sessions))' /\ HasLargest(Ordinals(sessionsFile))'
  BY <1>2 DEF HasLargest
<1> QED BY <1>2, <1>3, <1>4 DEF Typed

LEMMA KeptType ==
  ASSUME Typed, NEW m \in Memories, NEW row \in Rows
  PROVE  Kept(m, row) \in [Memories -> Rows] /\ [index EXCEPT ![m] = row] \in [Memories -> Rows]
BY DEF Kept, Typed

LEMMA IndexedTypes ==
  ASSUME Typed, NEW m \in Memories, NEW row \in Rows, Indexed(m, row)
  PROVE  index' \in [Memories -> Rows] /\ excused' \in [Memories -> SUBSET Whys]
<1>1. [excused EXCEPT ![m] = @ \cup {"index"}] \in [Memories -> SUBSET Whys]
  BY ExcuseTypes DEF Whys
<1>2. [index EXCEPT ![m] = row] \in [Memories -> Rows]
  BY KeptType
<1>3. index \in [Memories -> Rows] /\ excused \in [Memories -> SUBSET Whys]
  BY DEF Typed
<1> QED BY <1>1, <1>2, <1>3 DEF Indexed, Excuse

LEMMA AccessTyped ==
  ASSUME Typed, NEW m \in Memories, NEW c \in Sessions
  PROVE  /\ Recall(m, c) => Typed'
         /\ \A outcome \in {"helped", "misled"} : ApplyFeedback(m, c, outcome) => Typed'
<1>1. sessions[c] \in Nat /\ bumps[m] \in Nat /\ owed[m] \in Rows /\ index[m] \in Rows /\ Held(m) \in Rows
  BY HeldType DEF Typed
<1>2. ASSUME Recall(m, c) PROVE Typed'
  <2>1. [Held(m) EXCEPT !.used = sessions[c]] \in Rows
    BY <1>1, RowTypes
  <2>2. index' \in [Memories -> Rows] /\ excused' \in [Memories -> SUBSET Whys] /\ maps' \in [Memories -> Rows]
    BY <1>2, <2>1, IndexedTypes, KeptType DEF Recall
  <2>3. owed' \in [Memories -> Rows]
    <3>1. [owed[m] EXCEPT !.count = @ + 1, !.used = sessions[c]] \in Rows
      BY <1>1, RowTypes
    <3> QED BY <1>2, <3>1 DEF Recall, Typed
  <2>4. bumps' \in [Memories -> Nat]
    BY <1>2, <1>1 DEF Recall, Typed
  <2> QED BY <1>2, <2>2, <2>3, <2>4, RowStepTyped DEF Recall, Typed
<1>3. ASSUME NEW outcome \in {"helped", "misled"}, ApplyFeedback(m, c, outcome) PROVE Typed'
  <2> DEFINE marked(row) == [Judged(row, outcome) EXCEPT
                               !.count = @ + 1,
                               !.used = IF outcome = "helped" THEN sessions[c] ELSE @]
  <2>1. \A row \in Rows : marked(row) \in Rows
    <3> SUFFICES ASSUME NEW row \in Rows PROVE marked(row) \in Rows
      OBVIOUS
    <3>1. Judged(row, outcome) \in Rows
      BY RowTypes
    <3>2. \A r \in Rows : r.used \in Nat /\ \A n \in Nat : [r EXCEPT !.count = @ + 1, !.used = n] \in Rows
      BY RowTypes DEF Rows
    <3>3. (IF outcome = "helped" THEN sessions[c] ELSE Judged(row, outcome).used) \in Nat
      BY <1>1, <3>1, <3>2
    <3> QED BY <3>1, <3>2, <3>3
  <2>2. marked(Held(m)) \in Rows /\ marked(owed[m]) \in Rows
    BY <1>1, <2>1
  <2>3. Indexed(m, marked(Held(m))) /\ maps' = Kept(m, marked(Held(m))) /\ owed' = [owed EXCEPT ![m] = marked(@)]
    BY <1>3 DEF ApplyFeedback
  <2> HIDE DEF marked
  <2>4. index' \in [Memories -> Rows] /\ excused' \in [Memories -> SUBSET Whys] /\ maps' \in [Memories -> Rows]
    BY <2>2, <2>3, IndexedTypes, KeptType
  <2>5. owed' \in [Memories -> Rows]
    BY <2>2, <2>3 DEF Typed
  <2> QED BY <1>3, <2>4, <2>5, RowStepTyped DEF ApplyFeedback, Typed
<1> QED BY <1>2, <1>3

LEMMA CopyTyped ==
  ASSUME Typed, NEW m \in Memories
  PROVE  /\ SearchHit(m) => Typed'
         /\ LoadDuplicate(m) => Typed'
<1>1. bumps[m] \in Nat /\ owed[m] \in Rows /\ index[m] \in Rows
  BY DEF Typed
<1>2. ASSUME SearchHit(m) PROVE Typed'
  <2>1. [owed[m] EXCEPT !.count = @ + 1] \in Rows
    BY <1>1, RowTypes
  <2>2. owed' \in [Memories -> Rows] /\ bumps' \in [Memories -> Nat]
    BY <1>1, <1>2, <2>1 DEF SearchHit, Typed
  <2> QED BY <1>2, <2>2, RowStepTyped DEF SearchHit, Typed
<1>3. ASSUME LoadDuplicate(m) PROVE Typed'
  <2>1. [index[m] EXCEPT !.version = @ + 1] \in Rows
    BY <1>1, RowTypes
  <2>2. promotion' \in Promotions
    BY <1>3, <2>1 DEF LoadDuplicate, Promotions
  <2> QED BY <1>3, <2>2, RowStepTyped DEF LoadDuplicate, Typed
<1> QED BY <1>2, <1>3

LEMMA FlushTyped ==
  ASSUME Typed
  PROVE  /\ FlushAccessBumps => Typed'
         /\ \A last \in BOOLEAN : FlushAll(last) => Typed'
<1>1. ASSUME FlushAccessBumps PROVE Typed'
  <2>1. CASE Flushed
    BY <1>1, <2>1, FlushTypes, RowStepTyped DEF FlushAccessBumps, Flushed, Typed
  <2>2. ASSUME NEW refused \in Bumped, NEW done \in SUBSET (Bumped \ {refused}),
               "index" \in Faults, FlushedInPart(done, refused)
        PROVE  Typed'
    <3>1. WithBumps(AllHeld, Bumped) \in [Memories -> Rows]
      BY FlushTypes
    <3>2. WithBumps(maps, done \cup {refused}) \in [Memories -> Rows]
      BY WithBumpsType DEF Typed
    <3>3. index' \in [Memories -> Rows] /\ maps' \in [Memories -> Rows]
      BY <2>2, <3>1, <3>2 DEF FlushedInPart, Typed
    <3>4. excused' \in [Memories -> SUBSET Whys]
      BY <2>2 DEF FlushedInPart, Typed, Whys
    <3> QED BY <1>1, <2>2, <3>3, <3>4, RowStepTyped DEF FlushAccessBumps, FlushedInPart, Typed
  <2> QED BY <1>1, <2>1, <2>2 DEF FlushAccessBumps
<1>2. ASSUME NEW last \in BOOLEAN, FlushAll(last) PROVE Typed'
  <2>1. Flushed /\ file' \in [Memories -> Rows]
    BY <1>2, FlushTypes DEF FlushAll
  <2>2. phase' \in {"down", "up"} /\ sessions' = sessions /\ sessionsFile' = sessions
    BY <1>2 DEF FlushAll
  <2>3. Ordinals(sessions)' = Ordinals(sessions) /\ Ordinals(sessionsFile)' = Ordinals(sessions)
    BY <2>2 DEF Ordinals
  <2>4. maps' \in [Memories -> Rows] /\ index' \in [Memories -> Rows] /\ bumps' \in [Memories -> Nat]
    BY <2>1, FlushTypes
  <2>5. UNCHANGED <<lowRAM, fingerprint, journal, promotion, sessionSeq, meta, owed, excused>>
    BY <1>2 DEF FlushAll, Flushed
  <2> QED BY <2>1, <2>2, <2>3, <2>4, <2>5 DEF Typed, HasLargest
<1> QED BY <1>1, <1>2

LEMMA CommitTyped ==
  ASSUME Typed, CommitMutation
  PROVE  Typed'
<1>1. promotion # NoPromotion /\ promotion.memory \in Memories /\ promotion.row \in Rows /\ Event \in Promotions
  BY PromotionType DEF CommitMutation, Admitted
<1>2. journal' \in Seq(Promotions)
  BY <1>1 DEF CommitMutation, Typed
<1>3. maps' \in [Memories -> Rows]
  BY <1>1, KeptType DEF CommitMutation
<1>4. file' \in [Memories -> Rows] /\ index' \in [Memories -> Rows]
  BY <1>1, <1>3, KeptType DEF CommitMutation, Typed
<1>5. owed' \in [Memories -> Rows]
  <2>1. [owed[promotion.memory] EXCEPT !.version = promotion.row.version] \in Rows
    BY <1>1 DEF Rows, Typed
  <2> QED BY <1>1, <2>1 DEF CommitMutation, Governed, Typed
<1>6. excused' \in [Memories -> SUBSET Whys]
  <2>1. \E why \in SUBSET Whys : excused' = [excused EXCEPT ![promotion.memory] = @ \cup why]
    BY DEF CommitMutation, Whys
  <2> QED BY <1>1, <2>1, ExcuseTypes
<1> QED BY <1>2, <1>3, <1>4, <1>5, <1>6, RowStepTyped DEF CommitMutation, Typed

LEMMA RefuseTyped ==
  ASSUME Typed, RefuseMutation
  PROVE  Typed'
BY RowStepTyped DEF RefuseMutation, Typed

LEMMA TypedNext == Typed /\ JournalInv /\ [Next]_vars => Typed'
<1> SUFFICES ASSUME Typed, JournalInv, [Next]_vars PROVE Typed'
  OBVIOUS
<1>1. CASE Open
  BY <1>1, OpenTyped
<1>2. CASE Crash \/ CrashInCommit \/ \E c \in Sessions : CrashInUpsert(c)
  BY <1>2, CrashTyped
<1>3. CASE \E c \in Sessions : UpsertSession(c)
  BY <1>3, UpsertTyped
<1>4. CASE \E m \in Memories : SearchHit(m) \/ LoadDuplicate(m)
  BY <1>4, CopyTyped
<1>5. CASE \E m \in Memories, c \in Sessions :
             Recall(m, c) \/ \E outcome \in {"helped", "misled"} : ApplyFeedback(m, c, outcome)
  BY <1>5, AccessTyped
<1>6. CASE FlushAccessBumps \/ \E last \in BOOLEAN : FlushAll(last)
  BY <1>6, FlushTyped
<1>7. CASE CommitMutation \/ RefuseMutation
  BY <1>7, CommitTyped, RefuseTyped
<1>8. CASE UNCHANGED vars
  BY <1>8, RowStepTyped DEF vars, rowVars, clock, Typed
<1> QED BY <1>1, <1>2, <1>3, <1>4, <1>5, <1>6, <1>7, <1>8 DEF Next

-----------------------------------------------------------------------------
(***************************************************************************)
(* The journal: an event brings the version it is owed with it, and no     *)
(* other operation changes a version.                                      *)
(***************************************************************************)
LEMMA JournalKept ==
  ASSUME JournalInv, UNCHANGED journal, \A m \in Memories : owed'[m].version = owed[m].version
  PROVE  JournalInv'
BY DEF JournalInv

LEMMA JournalGrows ==
  ASSUME Typed, JournalInv, promotion # NoPromotion,
         journal' = Append(journal, Event), owed' = Governed
  PROVE  JournalInv'
<1>1. promotion.memory \in Memories /\ promotion.row \in Rows /\ Event = promotion
  BY PromotionType
<1>2. /\ journal \in Seq(Promotions) /\ DOMAIN journal' = 1 .. Len(journal) + 1
      /\ DOMAIN journal = 1 .. Len(journal) /\ Len(journal) \in Nat
      /\ journal'[Len(journal) + 1] = promotion
      /\ \A i \in DOMAIN journal : journal'[i] = journal[i]
  BY <1>1 DEF Typed
<1> SUFFICES ASSUME NEW m \in Memories
             PROVE  \/ \A i \in DOMAIN journal' : journal'[i].memory # m
                    \/ \E i \in DOMAIN journal' :
                         /\ journal'[i].memory = m
                         /\ \A j \in DOMAIN journal' : journal'[j].memory = m => j <= i
                         /\ journal'[i].row.version = owed'[m].version
  BY DEF JournalInv
<1>3. CASE m = promotion.memory
  <2>1. owed'[m].version = promotion.row.version
    BY <1>1, <1>3 DEF Governed, Typed, Rows
  <2> QED BY <1>2, <1>3, <2>1
<1>4. CASE m # promotion.memory
  <2>1. owed'[m] = owed[m]
    BY <1>1, <1>4 DEF Governed, Typed
  <2>2. CASE \A i \in DOMAIN journal : journal[i].memory # m
    BY <1>2, <1>4, <2>2
  <2>3. CASE \E i \in DOMAIN journal :
               /\ journal[i].memory = m
               /\ \A j \in DOMAIN journal : journal[j].memory = m => j <= i
               /\ journal[i].row.version = owed[m].version
    BY <1>2, <1>4, <2>1, <2>3
  <2> QED BY <2>2, <2>3 DEF JournalInv
<1> QED BY <1>3, <1>4

LEMMA JournalNext == Typed /\ JournalInv /\ [Next]_vars => JournalInv'
<1> SUFFICES ASSUME Typed, JournalInv, [Next]_vars PROVE JournalInv'
  OBVIOUS
<1>1. CASE UNCHANGED <<journal, owed>>
  BY <1>1, JournalKept
<1>2. CASE CommitMutation \/ CrashInCommit
  BY <1>2, JournalGrows DEF CommitMutation, CrashInCommit, Admitted
<1>3. ASSUME NEW m \in Memories, NEW c \in Sessions,
             Recall(m, c) \/ \E outcome \in {"helped", "misled"} : ApplyFeedback(m, c, outcome)
      PROVE  JournalInv'
  <2>1. owed[m] \in Rows
    BY DEF Typed
  <2>2. UNCHANGED journal
    BY <1>3 DEF Recall, ApplyFeedback
  <2>3. CASE Recall(m, c)
    BY <2>1, <2>2, <2>3, JournalKept DEF Recall, Typed, Rows
  <2>4. ASSUME NEW outcome \in {"helped", "misled"}, ApplyFeedback(m, c, outcome)
        PROVE  JournalInv'
    <3>1. Judged(owed[m], outcome).version = owed[m].version
      BY <2>1 DEF Judged, Rows
    <3>2. Judged(owed[m], outcome) \in Rows
      BY <2>1, RowTypes
    <3>3. \A n \in Nat : [Judged(owed[m], outcome) EXCEPT !.count = @ + 1, !.used = n].version = owed[m].version
      BY <3>1, <3>2 DEF Rows
    <3>4. \E n \in Nat : owed' = [owed EXCEPT ![m] = [Judged(owed[m], outcome) EXCEPT !.count = @ + 1, !.used = n]]
      <4>1. (IF outcome = "helped" THEN sessions[c] ELSE Judged(owed[m], outcome).used) \in Nat
        BY <3>2 DEF Typed, Rows
      <4> QED BY <2>4, <4>1 DEF ApplyFeedback
    <3>5. \A n \in Memories : owed'[n].version = owed[n].version
      BY <3>3, <3>4 DEF Typed
    <3> QED BY <2>2, <3>5, JournalKept
  <2> QED BY <1>3, <2>3, <2>4
<1>4. ASSUME NEW m \in Memories, SearchHit(m) PROVE JournalInv'
  BY <1>4, JournalKept DEF SearchHit, Typed, Rows
<1>5. CASE \/ Open \/ Crash \/ FlushAccessBumps \/ UNCHANGED vars
           \/ \E c \in Sessions : UpsertSession(c) \/ CrashInUpsert(c)
           \/ \E m \in Memories : LoadDuplicate(m)
           \/ \E last \in BOOLEAN : FlushAll(last)
           \/ RefuseMutation
  BY <1>1, <1>5 DEF RefuseMutation, Open, Crash, Die, FlushAccessBumps, vars, rowVars, UpsertSession, CrashInUpsert,
                    LoadDuplicate, FlushAll
<1> QED BY <1>2, <1>3, <1>4, <1>5 DEF Next

-----------------------------------------------------------------------------
(***************************************************************************)
(* The copies of one memory.                                               *)
(***************************************************************************)
LEMMA Numbers ==
  ASSUME Typed, NEW m \in Memories
  PROVE  /\ maps[m] \in Rows /\ file[m] \in Rows /\ index[m] \in Rows /\ owed[m] \in Rows
         /\ Held(m) \in Rows
         /\ bumps[m] \in Nat /\ fingerprint[m] \in Nat
         /\ \A r \in Rows : r.version \in Nat \ {0} /\ r.count \in Nat /\ r.used \in Nat
BY DEF Typed, Held, Rows

\* A step that leaves everything about a memory alone.
LEMMA RowKept ==
  ASSUME NEW m \in Memories, RowAt(m), UNCHANGED <<lowRAM, phase, fingerprint>>,
         maps'[m] = maps[m], file'[m] = file[m], index'[m] = index[m], bumps'[m] = bumps[m],
         owed'[m] = owed[m], excused'[m] = excused[m], promotion' \in {promotion, NoPromotion}
  PROVE  RowAt(m)'
BY DEF RowAt, Intact, UpRow, DownRow, Held

\* A row that was used in the session of an ordinal.
Used(r, n) == [r EXCEPT !.count = @ + 1, !.used = n]

LEMMA UsedIs ==
  ASSUME NEW r \in Rows, NEW n \in Nat
  PROVE  /\ Used(r, n) \in Rows
         /\ Used(r, n).count = r.count + 1 /\ Used(r, n).version = r.version /\ Used(r, n).used = n
         /\ Used(r, n).confidence = r.confidence /\ Used(r, n).disputed = r.disputed
BY RowTypes DEF Rows, Used

\* What feedback makes of a row.
Marked(r, outcome, n) ==
  [Judged(r, outcome) EXCEPT !.count = @ + 1, !.used = IF outcome = "helped" THEN n ELSE @]

LEMMA MarkedIs ==
  ASSUME NEW r \in Rows, NEW outcome \in {"helped", "misled"}, NEW n \in Nat
  PROVE  /\ Marked(r, outcome, n) \in Rows
         /\ Marked(r, outcome, n).count = r.count + 1
         /\ Marked(r, outcome, n).version = r.version
         /\ Marked(r, outcome, n).used = IF outcome = "helped" THEN n ELSE r.used
         /\ Marked(r, outcome, n).confidence = Judged(r, outcome).confidence
         /\ Marked(r, outcome, n).disputed = Judged(r, outcome).disputed
<1>1. Judged(r, outcome) \in Rows
  BY RowTypes
<1>2. /\ Judged(r, outcome).count = r.count /\ Judged(r, outcome).version = r.version
      /\ Judged(r, outcome).used = r.used
  BY DEF Judged, Rows
<1>3. PICK k \in Nat : k = IF outcome = "helped" THEN n ELSE r.used
  BY DEF Rows
<1>4. Marked(r, outcome, n) = Used(Judged(r, outcome), k)
  BY <1>2, <1>3 DEF Marked, Used
<1>5. /\ Used(Judged(r, outcome), k) \in Rows
      /\ Used(Judged(r, outcome), k).count = r.count + 1
      /\ Used(Judged(r, outcome), k).version = r.version
      /\ Used(Judged(r, outcome), k).used = k
      /\ Used(Judged(r, outcome), k).confidence = Judged(r, outcome).confidence
      /\ Used(Judged(r, outcome), k).disputed = Judged(r, outcome).disputed
  BY <1>1, <1>2, UsedIs
<1> QED BY <1>3, <1>4, <1>5

\* Feedback does not tell apart rows that agree.
LEMMA MarkedSame ==
  ASSUME NEW r \in Rows, NEW s \in Rows, NEW outcome \in {"helped", "misled"}, NEW n \in Nat, Same(r, s)
  PROVE  Same(Marked(r, outcome, n), Marked(s, outcome, n))
<1>1. /\ Judged(r, outcome).confidence = Judged(s, outcome).confidence
      /\ Judged(r, outcome).disputed = Judged(s, outcome).disputed
  BY DEF Judged, Rows, Same
<1> DEFINE a == Marked(r, outcome, n)
           b == Marked(s, outcome, n)
<1>2. /\ a.used = IF outcome = "helped" THEN n ELSE r.used
      /\ a.confidence = Judged(r, outcome).confidence
      /\ a.disputed = Judged(r, outcome).disputed
  BY MarkedIs
<1>3. /\ b.used = IF outcome = "helped" THEN n ELSE s.used
      /\ b.confidence = Judged(s, outcome).confidence
      /\ b.disputed = Judged(s, outcome).disputed
  BY MarkedIs
<1>4. r.used = s.used
  BY DEF Same
<1> HIDE DEF a, b
<1>5. a.confidence = b.confidence /\ a.disputed = b.disputed /\ a.used = b.used
  BY <1>1, <1>2, <1>3, <1>4
<1> QED BY <1>5 DEF Same, a, b

\* An access: the count goes up by one, in the row or in a bump, and what the
\* row says otherwise is what it is owed.
LEMMA RowAccessed ==
  ASSUME Typed, Typed', NEW m \in Memories, RowAt(m), phase = "up", UNCHANGED <<lowRAM, phase, fingerprint, promotion>>,
         file'[m] = file[m], excused'[m] = excused[m],
         index[m] = Held(m) => index'[m] = Held(m)',
         Held(m)'.version = Held(m).version, Held(m)'.count >= Held(m).count,
         Held(m)'.count + bumps'[m] = Held(m).count + bumps[m] + 1,
         owed'[m].version = owed[m].version, owed'[m].count = owed[m].count + 1,
         Same(Held(m), owed[m]) => Same(Held(m), owed[m])'
  PROVE  RowAt(m)'
<1> SUFFICES ASSUME Intact(m)' PROVE UpRow(m)'
  BY DEF RowAt
<1>1. UpRow(m)
  BY DEF RowAt, Intact
<1>2. /\ file[m].count \in Nat /\ Held(m).count \in Nat /\ bumps[m] \in Nat /\ owed[m].count \in Nat
      /\ Held(m)'.count \in Nat /\ bumps'[m] \in Nat
  BY Numbers, HeldType DEF Typed, Held, Rows
<1>3. ~(file[m].count = Held(m)'.count + bumps'[m])
  BY <1>1, <1>2 DEF UpRow
<1>4. promotion # NoPromotion => promotion.row.count \in Nat
  BY PromotionType DEF Rows
<1>5. /\ file'[m].version = file[m].version /\ file'[m].count = file[m].count
      /\ fingerprint'[m] = fingerprint[m]
  OBVIOUS
<1>6. index'[m] = Held(m)'
  BY <1>1 DEF UpRow
<1>7. /\ file'[m].count <= Held(m)'.count /\ file'[m].version <= Held(m)'.version
      /\ Held(m)'.count + bumps'[m] <= owed'[m].count
      /\ Held(m)'.version = owed'[m].version
      /\ fingerprint'[m] <= Held(m)'.version
  BY <1>1, <1>2 DEF UpRow
<1>8. promotion' # NoPromotion /\ promotion'.memory = m => promotion'.row.count <= Held(m)'.count
  BY <1>1, <1>2, <1>4 DEF UpRow
<1>9. excused'[m] = {} => Same(Held(m), owed[m])' /\ Held(m)'.count + bumps'[m] = owed'[m].count
  BY <1>1, <1>2 DEF UpRow
<1> QED BY <1>3, <1>6, <1>7, <1>8, <1>9 DEF UpRow

LEMMA RecallRow ==
  ASSUME Typed, Typed', NEW n \in Memories, NEW c \in Sessions, Recall(n, c), NEW m \in Memories, RowAt(m)
  PROVE  RowAt(m)'
<1> DEFINE row == [Held(n) EXCEPT !.used = sessions[c]]
<1>1. Held(n) \in Rows /\ owed[n] \in Rows /\ sessions[c] \in Nat /\ owed[n].count \in Nat /\ bumps[n] \in Nat
  BY Numbers DEF Typed
<1>2. row \in Rows /\ row.version = Held(n).version /\ row.count = Held(n).count
      /\ row.confidence = Held(n).confidence /\ row.disputed = Held(n).disputed /\ row.used = sessions[c]
  BY <1>1, RowTypes DEF Rows
<1>3. owed' = [owed EXCEPT ![n] = Used(owed[n], sessions[c])]
  BY DEF Recall, Used
<1>4. /\ UNCHANGED <<lowRAM, phase, file, fingerprint, promotion>> /\ phase = "up"
      /\ Indexed(n, row) /\ maps' = Kept(n, row)
      /\ bumps' = IF excused' = excused THEN [bumps EXCEPT ![n] = @ + 1] ELSE bumps
  BY DEF Recall
<1> HIDE DEF row
<1>5. CASE m # n
  BY <1>3, <1>4, <1>5, RowKept DEF Indexed, Excuse, Kept, Typed
<1>6. CASE m = n /\ index' = [index EXCEPT ![n] = row] /\ UNCHANGED excused
  <2>1. index'[m] = row /\ Held(m)' = row
    BY <1>4, <1>6 DEF Held, Kept, Typed
  <2>2. bumps'[m] = bumps[m] + 1
    BY <1>4, <1>6 DEF Typed
  <2>3. owed'[m] = Used(owed[m], sessions[c])
    BY <1>3, <1>6 DEF Typed
  <2>4. owed'[m].version = owed[m].version /\ owed'[m].count = owed[m].count + 1
        /\ (Same(Held(m), owed[m]) => Same(row, owed'[m]))
    <3>1. owed[m] \in Rows /\ sessions[c] \in Nat
      BY <1>1, <1>6
    <3>2. /\ Used(owed[m], sessions[c]).version = owed[m].version
          /\ Used(owed[m], sessions[c]).count = owed[m].count + 1
          /\ Used(owed[m], sessions[c]).used = sessions[c]
          /\ Used(owed[m], sessions[c]).confidence = owed[m].confidence
          /\ Used(owed[m], sessions[c]).disputed = owed[m].disputed
      BY <3>1, UsedIs
    <3> QED BY <1>2, <1>6, <2>3, <3>2 DEF Same
  <2>5. Held(m)'.count + bumps'[m] = Held(m).count + bumps[m] + 1 /\ Held(m)'.count >= Held(m).count
    BY <1>1, <1>2, <1>6, <2>1, <2>2 DEF Rows
  <2>6. Same(Held(m), owed[m]) => Same(Held(m), owed[m])'
    BY <2>1, <2>4
  <2> QED BY <1>2, <1>4, <1>6, <2>1, <2>4, <2>5, <2>6, RowAccessed
<1>7. CASE m = n /\ excused' = [excused EXCEPT ![n] = @ \cup {"index"}]
  BY <1>7 DEF RowAt, Intact, Typed
<1> QED BY <1>4, <1>5, <1>6, <1>7 DEF Indexed, Excuse

LEMMA FeedbackRow ==
  ASSUME Typed, Typed', NEW n \in Memories, NEW c \in Sessions, NEW outcome \in {"helped", "misled"},
         ApplyFeedback(n, c, outcome), NEW m \in Memories, RowAt(m)
  PROVE  RowAt(m)'
<1>1. Held(n) \in Rows /\ owed[n] \in Rows /\ sessions[c] \in Nat /\ owed[n].count \in Nat
      /\ bumps[n] \in Nat /\ Held(n).count \in Nat
  BY Numbers DEF Typed
<1> DEFINE marked == Marked(Held(n), outcome, sessions[c])
<1>0. marked \in Rows /\ marked.count = Held(n).count + 1 /\ marked.version = Held(n).version
  BY <1>1, MarkedIs
<1>2. PICK row \in Rows : row = marked
  BY <1>0
<1>3. row.count = Held(n).count + 1 /\ row.version = Held(n).version
  BY <1>0, <1>2
<1>4. /\ UNCHANGED <<lowRAM, phase, file, fingerprint, bumps, promotion>> /\ phase = "up"
      /\ Indexed(n, row) /\ maps' = Kept(n, row)
      /\ owed' = [owed EXCEPT ![n] = Marked(owed[n], outcome, sessions[c])]
  BY <1>2 DEF ApplyFeedback, Marked
<1>5. CASE m # n
  BY <1>4, <1>5, RowKept DEF Indexed, Excuse, Kept, Typed
<1>6. CASE m = n /\ index' = [index EXCEPT ![n] = row] /\ UNCHANGED excused
  <2>1. index'[m] = row /\ Held(m)' = row
    BY <1>4, <1>6 DEF Held, Kept, Typed
  <2>2. owed'[m] = Marked(owed[m], outcome, sessions[c])
    BY <1>4, <1>6 DEF Typed
  <2>3. owed'[m].version = owed[m].version /\ owed'[m].count = owed[m].count + 1
    <3>1. owed[m] \in Rows /\ sessions[c] \in Nat
      BY <1>1, <1>6
    <3>2. /\ Marked(owed[m], outcome, sessions[c]).version = owed[m].version
          /\ Marked(owed[m], outcome, sessions[c]).count = owed[m].count + 1
      BY <3>1, MarkedIs
    <3> QED BY <2>2, <3>2
  <2>4. Same(Held(m), owed[m]) => Same(Held(m), owed[m])'
    BY <1>1, <1>2, <1>6, <2>1, <2>2, MarkedSame
  <2>5. Held(m)'.count + bumps'[m] = Held(m).count + bumps[m] + 1 /\ Held(m)'.count >= Held(m).count
    BY <1>1, <1>3, <1>4, <1>6, <2>1
  <2> QED BY <1>3, <1>4, <1>6, <2>1, <2>3, <2>4, <2>5, RowAccessed
<1>7. CASE m = n /\ excused' = [excused EXCEPT ![n] = @ \cup {"index"}]
  BY <1>7 DEF RowAt, Intact, Typed
<1> QED BY <1>4, <1>5, <1>6, <1>7 DEF Indexed, Excuse

LEMMA HitRow ==
  ASSUME Typed, Typed', NEW n \in Memories, SearchHit(n), NEW m \in Memories, RowAt(m)
  PROVE  RowAt(m)'
<1>1. /\ UNCHANGED <<lowRAM, phase, maps, file, index, fingerprint, promotion, excused>> /\ phase = "up"
      /\ bumps' = [bumps EXCEPT ![n] = @ + 1] /\ owed' = [owed EXCEPT ![n].count = @ + 1]
  BY DEF SearchHit
<1>2. Held(m)' = Held(m)
  BY <1>1 DEF Held
<1>3. CASE m # n
  BY <1>1, <1>3, RowKept DEF Typed
<1>4. CASE m = n
  <2>1. bumps'[m] = bumps[m] + 1 /\ owed'[m] = [owed[m] EXCEPT !.count = @ + 1]
    BY <1>1, <1>4 DEF Typed
  <2>2. owed[m] \in Rows /\ Held(m).count \in Nat /\ bumps[m] \in Nat
    BY Numbers
  <2>3. owed'[m].version = owed[m].version /\ owed'[m].count = owed[m].count + 1
        /\ owed'[m].used = owed[m].used
        /\ owed'[m].confidence = owed[m].confidence /\ owed'[m].disputed = owed[m].disputed
    BY <2>1, <2>2 DEF Rows
  <2>4. Same(Held(m), owed[m]) => Same(Held(m), owed[m])'
    BY <1>2, <2>3 DEF Same
  <2>5. Held(m)'.count + bumps'[m] = Held(m).count + bumps[m] + 1 /\ Held(m)'.count >= Held(m).count
    BY <1>2, <2>1, <2>2
  <2>6. index[m] = Held(m) => index'[m] = Held(m)'
    BY <1>1, <1>2
  <2> QED BY <1>1, <1>2, <2>3, <2>4, <2>5, <2>6, RowAccessed
<1> QED BY <1>3, <1>4

LEMMA LoadRow ==
  ASSUME Typed, NEW n \in Memories, LoadDuplicate(n), NEW m \in Memories, RowAt(m)
  PROVE  RowAt(m)'
<1>1. /\ UNCHANGED <<lowRAM, phase, maps, file, index, fingerprint, bumps, owed, excused>> /\ phase = "up"
      /\ promotion' = [memory |-> n, row |-> [index[n] EXCEPT !.version = @ + 1]]
  BY DEF LoadDuplicate
<1>2. SUFFICES ASSUME Intact(m)' PROVE UpRow(m)'
  BY <1>1 DEF RowAt
<1>3. UpRow(m) /\ Held(m)' = Held(m)
  BY <1>1, <1>2 DEF RowAt, Intact, Held
<1>4. promotion'.memory = m => promotion'.row.count <= Held(m)'.count
  <2>1. promotion'.memory = n /\ promotion'.row.count = index[n].count
    BY <1>1, Numbers DEF Rows
  <2> QED BY <1>3, <2>1, Numbers DEF UpRow
<1> QED BY <1>1, <1>3, <1>4 DEF UpRow

\* What a flush makes of the row that is held.
LEMMA FlushedIs ==
  ASSUME Typed, Flushed, NEW m \in Memories, UpRow(m)
  PROVE  /\ index'[m] = Held(m)' /\ bumps'[m] = 0 /\ file'[m] \in {Held(m)', file[m]}
         /\ file' = AllHeld' => file'[m] = Held(m)'
         /\ Held(m)'.version = Held(m).version /\ Held(m)'.count = Held(m).count + bumps[m]
         /\ Same(Held(m)', Held(m))
         /\ bumps[m] = 0 => Held(m)' = Held(m)
<1> DEFINE row == [Held(m) EXCEPT !.count = @ + bumps[m]]
<1>1. Held(m) \in Rows /\ bumps[m] \in Nat /\ Held(m) = AllHeld[m] /\ index[m] = Held(m)
  BY Numbers DEF Held, AllHeld, UpRow
<1>2. WithBumps(AllHeld, Bumped)[m] = IF bumps[m] > 0 THEN row ELSE Held(m)
  BY <1>1 DEF WithBumps, Bumped
<1>3. index'[m] = IF bumps[m] > 0 THEN row ELSE Held(m)
  BY <1>1, <1>2 DEF Flushed, Bumped
<1>4. lowRAM' = lowRAM /\ (~lowRAM => maps'[m] = IF bumps[m] > 0 THEN row ELSE Held(m))
  <2>1. lowRAM' = lowRAM /\ (~lowRAM => maps' = WithBumps(AllHeld, Bumped))
    BY DEF Flushed, AllHeld
  <2> QED BY <1>2, <2>1
<1>5. Held(m)' = index'[m] /\ AllHeld'[m] = Held(m)'
  BY <1>3, <1>4 DEF Held, AllHeld
<1>6. row.version = Held(m).version /\ row.count = Held(m).count + bumps[m] /\ Same(row, Held(m))
  BY <1>1 DEF Rows, Same
<1>7. bumps[m] = 0 \/ bumps[m] > 0
  BY <1>1
<1>8. bumps'[m] = 0 /\ (file'[m] = AllHeld'[m] \/ file'[m] = file[m])
  BY DEF Flushed, NoBumps
<1> HIDE DEF row
<1>9. CASE bumps[m] > 0
  BY <1>1, <1>3, <1>5, <1>6, <1>8, <1>9
<1>10. CASE bumps[m] = 0
  <2>1. Held(m)' = Held(m) /\ Held(m).count + bumps[m] = Held(m).count
    BY <1>1, <1>3, <1>5, <1>10 DEF Rows
  <2> QED BY <1>5, <1>8, <2>1 DEF Same
<1> QED BY <1>7, <1>9, <1>10

LEMMA FlushedRow ==
  ASSUME Typed, Flushed, UNCHANGED <<phase, fingerprint, promotion, owed>>, phase = "up",
         NEW m \in Memories, RowAt(m)
  PROVE  RowAt(m)'
<1> SUFFICES ASSUME Intact(m)' PROVE UpRow(m)'
  BY DEF RowAt
<1>1. UpRow(m)
  BY DEF RowAt, Intact, Flushed
<1>2. /\ file[m].count \in Nat /\ Held(m).count \in Nat /\ bumps[m] \in Nat /\ owed[m].count \in Nat
      /\ file[m].version \in Nat /\ Held(m).version \in Nat
  BY Numbers
<1>3. promotion # NoPromotion => promotion.row.count \in Nat
  BY PromotionType DEF Rows
<1>4. /\ index'[m] = Held(m)' /\ bumps'[m] = 0 /\ file'[m] \in {Held(m)', file[m]}
      /\ Held(m)'.version = Held(m).version /\ Held(m)'.count = Held(m).count + bumps[m]
      /\ Same(Held(m)', Held(m))
      /\ bumps[m] = 0 => Held(m)' = Held(m)
  BY <1>1, FlushedIs
<1>5. file'[m].count <= Held(m)'.count /\ file'[m].version <= Held(m)'.version
  BY <1>1, <1>2, <1>4 DEF UpRow
<1>6. file'[m].count = Held(m)'.count + bumps'[m] /\ file'[m].version = Held(m)'.version => Held(m)' = file'[m]
  BY <1>1, <1>2, <1>4 DEF UpRow
<1>7. /\ Held(m)'.count + bumps'[m] <= owed'[m].count /\ Held(m)'.version = owed'[m].version
      /\ fingerprint'[m] <= Held(m)'.version
  BY <1>1, <1>2, <1>4 DEF UpRow
<1>8. promotion' # NoPromotion /\ promotion'.memory = m => promotion'.row.count <= Held(m)'.count
  BY <1>1, <1>2, <1>3, <1>4 DEF UpRow
<1>9. excused'[m] = {} => Same(Held(m), owed[m])' /\ Held(m)'.count + bumps'[m] = owed'[m].count
  BY <1>1, <1>2, <1>4 DEF UpRow, Same, Flushed
<1> QED BY <1>4, <1>5, <1>6, <1>7, <1>8, <1>9 DEF UpRow

LEMMA AccessFlushRow ==
  ASSUME Typed, FlushAccessBumps, NEW m \in Memories, RowAt(m)
  PROVE  RowAt(m)'
<1>1. UNCHANGED <<phase, fingerprint, promotion, owed>> /\ phase = "up"
  BY DEF FlushAccessBumps, clock
<1>2. CASE Flushed
  BY <1>1, <1>2, FlushedRow
<1>3. ASSUME NEW refused \in Bumped, NEW done \in SUBSET (Bumped \ {refused}), FlushedInPart(done, refused)
      PROVE  RowAt(m)'
  <2>1. UNCHANGED <<lowRAM, bumps, file>>
    BY <1>3 DEF FlushedInPart
  <2>2. CASE m \in done \cup {refused}
    BY <1>3, <2>2 DEF FlushedInPart, RowAt, Intact
  <2>3. CASE m \notin done \cup {refused}
    BY <1>1, <1>3, <2>1, <2>3, RowKept DEF FlushedInPart, WithBumps
  <2> QED BY <2>2, <2>3
<1> QED BY <1>2, <1>3 DEF FlushAccessBumps

\* The last flush leaves memories.jsonl and the index as they are owed.
LEMMA FlushAllRow ==
  ASSUME Typed, Typed', NEW last \in BOOLEAN, FlushAll(last), NEW m \in Memories, RowAt(m)
  PROVE  RowAt(m)'
<1>1. UNCHANGED <<fingerprint, promotion, owed>> /\ phase = "up" /\ Flushed /\ file' = AllHeld'
      /\ phase' = IF last THEN "down" ELSE "up"
  BY DEF FlushAll
<1>2. CASE ~last
  BY <1>1, <1>2, FlushedRow
<1>3. CASE last
  <2> SUFFICES ASSUME Intact(m)' PROVE DownRow(m)'
    BY <1>1, <1>3 DEF RowAt
  <2>1. UpRow(m)
    BY <1>1 DEF RowAt, Intact, Flushed
  <2>2. /\ index'[m] = Held(m)' /\ file'[m] = Held(m)'
        /\ Held(m)'.version = Held(m).version /\ Held(m)'.count = Held(m).count + bumps[m]
        /\ Same(Held(m)', Held(m))
    BY <1>1, <2>1, FlushedIs
  <2>3. file'[m].version = owed'[m].version /\ file'[m].count <= owed'[m].count
    BY <1>1, <2>1, <2>2 DEF UpRow
  <2>4. ASSUME excused'[m] = {} PROVE file'[m] = owed'[m]
    <3>1. excused[m] = {}
      BY <1>1, <2>4 DEF Flushed
    <3>2. Same(file'[m], owed'[m]) /\ file'[m].count = owed'[m].count
      BY <1>1, <2>1, <2>2, <3>1 DEF UpRow, Same
    <3>3. file'[m] \in Rows /\ owed'[m] \in Rows
      BY DEF Typed
    <3> QED BY <2>3, <3>2, <3>3, RowEqual
  <2> QED BY <2>2, <2>3, <2>4 DEF DownRow
<1> QED BY <1>2, <1>3

\* What is admitted raises the version of the row by one; a copy that is not
\* stale changes nothing else.
LEMMA AdmittedIs ==
  ASSUME Typed, Admitted
  PROVE  /\ promotion.memory \in Memories /\ promotion.row \in Rows
         /\ promotion.row.version = Held(promotion.memory).version + 1
         /\ ~Stale => /\ Same(promotion.row, Held(promotion.memory))
                      /\ promotion.row.count = Held(promotion.memory).count
         /\ owed' = Governed =>
              /\ owed'[promotion.memory].version = promotion.row.version
              /\ owed'[promotion.memory].count = owed[promotion.memory].count
              /\ Same(owed'[promotion.memory], owed[promotion.memory])
              /\ \A m \in Memories \ {promotion.memory} : owed'[m] = owed[m]
<1>1. promotion.memory \in Memories /\ promotion.row \in Rows
  BY PromotionType DEF Admitted
<1>2. promotion.row.version = Held(promotion.memory).version + 1
  BY DEF Admitted
<1>3. ~Stale => /\ Same(promotion.row, Held(promotion.memory))
                /\ promotion.row.count = Held(promotion.memory).count
  BY <1>1 DEF Stale, Rows, Same
<1>4. owed[promotion.memory] \in Rows
  BY <1>1, Numbers
<1>5. ASSUME owed' = Governed
      PROVE  /\ owed'[promotion.memory] = [owed[promotion.memory] EXCEPT !.version = promotion.row.version]
             /\ \A m \in Memories \ {promotion.memory} : owed'[m] = owed[m]
  BY <1>1, <1>5 DEF Governed, Typed
<1> QED BY <1>1, <1>2, <1>3, <1>4, <1>5 DEF Rows, Same

LEMMA CommitRow ==
  ASSUME Typed, CommitMutation, NEW m \in Memories, RowAt(m)
  PROVE  RowAt(m)'
<1> DEFINE p == promotion.memory
           row == promotion.row
<1>1. /\ p \in Memories /\ row \in Rows /\ row.version = Held(p).version + 1
      /\ ~Stale => Same(row, Held(p)) /\ row.count = Held(p).count
      /\ owed'[p].version = row.version /\ owed'[p].count = owed[p].count /\ Same(owed'[p], owed[p])
      /\ m # p => owed'[m] = owed[m]
  BY AdmittedIs DEF CommitMutation
<1>2. /\ UNCHANGED <<lowRAM, phase, fingerprint, bumps>> /\ phase = "up" /\ promotion # NoPromotion
      /\ promotion' = NoPromotion /\ maps' = Kept(p, row)
  BY DEF CommitMutation, Admitted
<1>3. /\ file[m].count \in Nat /\ Held(m).count \in Nat /\ bumps[m] \in Nat /\ owed[m].count \in Nat
      /\ file[m].version \in Nat /\ Held(m).version \in Nat /\ fingerprint[m] \in Nat
      /\ row.count \in Nat /\ row.version \in Nat
  BY <1>1, Numbers
<1> SUFFICES ASSUME Intact(m)' PROVE UpRow(m)'
  BY <1>2 DEF RowAt
<1>4. CASE m = p
  <2>1. PICK missed \in {{}, {"overlap"}} :
          /\ missed = {} => ~Stale
          /\ excused'[m] = excused[m] \cup missed
          /\ file' = IF lowRAM THEN file ELSE maps'
          /\ index' = [index EXCEPT ![m] = row]
    <3>1. \/ /\ excused' = [excused EXCEPT ![m] = @ \cup IF Stale THEN {"overlap"} ELSE {}]
             /\ file' = IF lowRAM THEN file ELSE maps'
             /\ index' = [index EXCEPT ![m] = row]
          \/ excused' = [excused EXCEPT ![m] = @ \cup {"index"}]
      BY <1>4 DEF CommitMutation
    <3>2. CASE excused' = [excused EXCEPT ![m] = @ \cup {"index"}]
      BY <3>2 DEF Intact, Typed
    <3> QED BY <3>1, <3>2 DEF Typed
  <2>2. Intact(m) /\ (lowRAM => missed = {})
    BY <1>2, <2>1 DEF Intact
  <2>3. UpRow(m)
    BY <1>2, <2>2 DEF RowAt
  <2>4. index'[m] = row /\ Held(m)' = row /\ (~lowRAM => file'[m] = row) /\ (lowRAM => file'[m] = file[m])
    BY <1>2, <1>4, <2>1 DEF Held, Kept, Typed
  <2>5. row.count <= Held(m).count
    BY <1>2, <1>4, <2>3 DEF UpRow
  <2>6. file'[m].count <= row.count /\ file'[m].version <= row.version
    BY <1>1, <1>3, <1>4, <2>1, <2>2, <2>3, <2>4 DEF UpRow
  <2>7. file'[m].count = row.count + bumps'[m] /\ file'[m].version = row.version => row = file'[m]
    BY <1>1, <1>3, <1>4, <2>3, <2>4 DEF UpRow
  <2>8. /\ row.count + bumps'[m] <= owed'[m].count /\ row.version = owed'[m].version
        /\ fingerprint'[m] <= row.version
    BY <1>1, <1>2, <1>3, <1>4, <2>3, <2>5 DEF UpRow
  <2>9. excused'[m] = {} => Same(row, owed'[m]) /\ row.count + bumps'[m] = owed'[m].count
    BY <1>1, <1>2, <1>3, <1>4, <2>1, <2>3 DEF UpRow, Same
  <2> QED BY <1>2, <2>4, <2>6, <2>7, <2>8, <2>9 DEF UpRow
<1>5. CASE m # p
  <2>1. index'[m] = index[m] /\ maps'[m] = maps[m] /\ excused'[m] = excused[m] /\ owed'[m] = owed[m]
        /\ file' \in {file, maps'} /\ (lowRAM => file' = file)
    BY <1>1, <1>2, <1>5 DEF CommitMutation, Kept, Typed
  <2>2. Intact(m)
    BY <1>2, <2>1 DEF Intact
  <2>3. UpRow(m) /\ Held(m)' = Held(m) /\ file'[m] \in {file[m], Held(m)}
    BY <1>2, <2>1, <2>2 DEF RowAt, Held
  <2>4. file'[m].count <= Held(m).count /\ file'[m].version <= Held(m).version
    BY <1>3, <2>3 DEF UpRow
  <2> QED BY <1>2, <1>3, <2>1, <2>3, <2>4 DEF UpRow
<1> QED BY <1>4, <1>5

\* What dies with a process: a memory stays intact only when memories.jsonl
\* has all of it.
LEMMA DeadRow ==
  ASSUME Typed, Typed', Die, phase = "up", NEW m \in Memories, RowAt(m), UNCHANGED index,
         owed'[m] = owed[m], file'[m] \in {file[m]} \cup IF lowRAM THEN {} ELSE {maps[m]}
  PROVE  RowAt(m)'
<1>1. /\ phase' = "down" /\ UNCHANGED <<lowRAM, fingerprint>>
      /\ excused'[m] = IF file'[m] = owed'[m] THEN excused[m] ELSE excused[m] \cup {"crash"}
  BY DEF Die
<1> SUFFICES ASSUME Intact(m)' PROVE DownRow(m)'
  BY <1>1 DEF RowAt
<1>2. file'[m] = owed[m] /\ excused'[m] = excused[m]
  BY <1>1 DEF Intact
<1>3. UpRow(m)
  BY <1>1, <1>2 DEF RowAt, Intact
<1>4. /\ file[m].count \in Nat /\ Held(m).count \in Nat /\ bumps[m] \in Nat /\ owed[m].count \in Nat
  BY Numbers
<1>5. file'[m] = Held(m)
  <2>1. CASE file'[m] = file[m]
    BY <1>2, <1>3, <1>4, <2>1 DEF UpRow
  <2>2. CASE file'[m] = maps[m] /\ ~lowRAM
    BY <2>2 DEF Held
  <2> QED BY <2>1, <2>2
<1> QED BY <1>2, <1>3, <1>4, <1>5 DEF DownRow, UpRow

LEMMA CrashRow ==
  ASSUME Typed, Typed', Crash \/ \E c \in Sessions : CrashInUpsert(c), NEW m \in Memories, RowAt(m)
  PROVE  RowAt(m)'
BY DeadRow DEF Crash, CrashInUpsert

LEMMA CrashInCommitRow ==
  ASSUME Typed, Typed', CrashInCommit, NEW m \in Memories, RowAt(m)
  PROVE  RowAt(m)'
<1> DEFINE p == promotion.memory
           row == promotion.row
<1>1. /\ p \in Memories /\ row \in Rows /\ row.version = Held(p).version + 1
      /\ owed'[p].version = row.version
      /\ m # p => owed'[m] = owed[m]
  BY AdmittedIs DEF CrashInCommit
<1>2. /\ phase = "up" /\ Die /\ UNCHANGED index
      /\ file' \in {file, IF lowRAM THEN file ELSE [maps EXCEPT ![p] = row]}
  BY DEF CrashInCommit
<1>3. CASE m # p
  <2>1. file'[m] \in {file[m]} \cup IF lowRAM THEN {} ELSE {maps[m]}
    BY <1>1, <1>2, <1>3 DEF Typed
  <2> QED BY <1>1, <1>2, <1>3, <2>1, DeadRow
<1>4. CASE m = p
  <2>1. /\ phase' = "down" /\ UNCHANGED <<lowRAM, fingerprint>>
        /\ excused'[m] = IF file'[m] = owed'[m] THEN excused[m] ELSE excused[m] \cup {"crash"}
    BY <1>2 DEF Die
  <2> SUFFICES ASSUME Intact(m)' PROVE DownRow(m)'
    BY <2>1 DEF RowAt
  <2>2. file'[m] = owed'[m] /\ UpRow(m)
    BY <1>2, <2>1 DEF RowAt, Intact
  <2>3. /\ file[m].version \in Nat /\ Held(m).version \in Nat /\ fingerprint[m] \in Nat
        /\ \A r \in Rows : r.count \in Nat
    BY Numbers
  <2>4. fingerprint'[m] # file'[m].version
    BY <1>1, <1>4, <2>1, <2>2, <2>3 DEF UpRow
  <2>5. owed'[m] \in Rows
    BY DEF Typed
  <2> QED BY <2>2, <2>3, <2>4, <2>5 DEF DownRow
<1> QED BY <1>3, <1>4

LEMMA OpenRow ==
  ASSUME Typed, JournalInv, Open, NEW m \in Memories, RowAt(m)
  PROVE  RowAt(m)'
<1> DEFINE loaded == [k \in Memories |-> Replayed(k)]
<1>1. /\ phase = "down" /\ phase' = "up" /\ UNCHANGED <<lowRAM, owed, excused>>
      /\ maps' = loaded /\ file' = loaded /\ fingerprint' = Versions(loaded)
      /\ index' = IF fingerprint = Versions(loaded) THEN index ELSE loaded
      /\ bumps' = NoBumps /\ promotion' = NoPromotion
  BY DEF Open
<1> SUFFICES ASSUME Intact(m)' PROVE UpRow(m)'
  BY <1>1 DEF RowAt
<1>2. DownRow(m)
  BY <1>1 DEF RowAt, Intact
<1>3. loaded[m] = file[m]
  BY <1>2, ReplayedIs DEF DownRow
<1>4. Versions(loaded)[m] = file[m].version
  BY <1>3 DEF Versions
<1> HIDE DEF loaded
<1>5. maps'[m] = file[m] /\ file'[m] = file[m] /\ fingerprint'[m] = file[m].version /\ bumps'[m] = 0
  BY <1>1, <1>3, <1>4 DEF NoBumps
<1>6. index'[m] = file[m] /\ Held(m)' = file[m]
  <2>1. CASE fingerprint = Versions(loaded)
    BY <1>1, <1>2, <1>4, <1>5, <2>1 DEF DownRow, Held
  <2>2. CASE fingerprint # Versions(loaded)
    BY <1>1, <1>3, <1>5, <2>2 DEF Held
  <2> QED BY <2>1, <2>2
<1>7. /\ file[m].count \in Nat /\ file[m].version \in Nat /\ owed[m].count \in Nat
  BY Numbers
<1>8. file[m].count + 0 = file[m].count
  BY <1>7
<1>9. excused'[m] = {} => file[m] = owed'[m]
  BY <1>1, <1>2 DEF DownRow
<1> QED BY <1>1, <1>2, <1>5, <1>6, <1>7, <1>8, <1>9 DEF UpRow, DownRow, Same

LEMMA RowNext == Typed /\ Typed' /\ JournalInv /\ RowInv /\ [Next]_vars => RowInv'
<1> SUFFICES ASSUME Typed, Typed', JournalInv, RowInv, [Next]_vars, NEW m \in Memories PROVE RowAt(m)'
  BY DEF RowInv
<1>1. RowAt(m)
  BY DEF RowInv
<1>2. CASE Open
  BY <1>1, <1>2, OpenRow
<1>3. CASE Crash \/ \E c \in Sessions : CrashInUpsert(c)
  BY <1>1, <1>3, CrashRow
<1>4. CASE (\E c \in Sessions : UpsertSession(c)) \/ RefuseMutation \/ UNCHANGED vars
  BY <1>1, <1>4, RowKept DEF UpsertSession, RefuseMutation, vars, rowVars
<1>5. ASSUME NEW n \in Memories, SearchHit(n) \/ LoadDuplicate(n) PROVE RowAt(m)'
  BY <1>1, <1>5, HitRow, LoadRow
<1>6. ASSUME NEW n \in Memories, NEW c \in Sessions,
             Recall(n, c) \/ \E outcome \in {"helped", "misled"} : ApplyFeedback(n, c, outcome)
      PROVE  RowAt(m)'
  BY <1>1, <1>6, RecallRow, FeedbackRow
<1>7. CASE FlushAccessBumps \/ \E last \in BOOLEAN : FlushAll(last)
  BY <1>1, <1>7, AccessFlushRow, FlushAllRow
<1>8. CASE CommitMutation
  BY <1>1, <1>8, CommitRow
<1>9. CASE CrashInCommit
  BY <1>1, <1>9, CrashInCommitRow
<1> QED BY <1>2, <1>3, <1>4, <1>5, <1>6, <1>7, <1>8, <1>9 DEF Next

-----------------------------------------------------------------------------
(***************************************************************************)
(* The ordinals in the rows.                                               *)
(***************************************************************************)
LEMMA UsedRecall ==
  ASSUME Typed, NEW Q, UsedAre(Q), NEW m \in Memories, NEW c \in Sessions, sessions[c] \in Q,
         Recall(m, c) \/ \E outcome \in {"helped", "misled"} : ApplyFeedback(m, c, outcome)
  PROVE  UsedAre(Q)'
<1>1. Held(m) \in Rows /\ sessions[c] \in Nat /\ Held(m).used \in Q
  BY Numbers DEF Typed, Held, UsedAre
<1>2. PICK row : Indexed(m, row) /\ maps' = Kept(m, row) /\ row.used \in Q
  <2>1. CASE Recall(m, c)
    <3>1. [Held(m) EXCEPT !.used = sessions[c]].used \in Q
      BY <1>1 DEF Rows
    <3> QED BY <2>1, <3>1 DEF Recall
  <2>2. ASSUME NEW outcome \in {"helped", "misled"}, ApplyFeedback(m, c, outcome)
        PROVE  \E row : Indexed(m, row) /\ maps' = Kept(m, row) /\ row.used \in Q
    <3>0. Marked(Held(m), outcome, sessions[c]).used =
            IF outcome = "helped" THEN sessions[c] ELSE Held(m).used
      BY <1>1, MarkedIs
    <3>1. Marked(Held(m), outcome, sessions[c]).used \in Q
      BY <1>1, <3>0
    <3> QED BY <2>2, <3>1 DEF ApplyFeedback, Marked
  <2> QED BY <2>1, <2>2
<1>3. UNCHANGED <<file, journal, promotion>>
  BY DEF Recall, ApplyFeedback
<1>4. \A k \in Memories : maps'[k].used \in Q /\ index'[k].used \in Q
  BY <1>2 DEF Indexed, Kept, Typed, UsedAre
<1> QED BY <1>3, <1>4 DEF UsedAre

LEMMA UsedLoad ==
  ASSUME Typed, NEW Q, UsedAre(Q), NEW m \in Memories, LoadDuplicate(m)
  PROVE  UsedAre(Q)'
<1>1. promotion'.row.used = index[m].used
  BY Numbers DEF LoadDuplicate, Rows
<1> QED BY <1>1 DEF LoadDuplicate, UsedAre

\* A flush changes counts only.
LEMMA UsedFlush ==
  ASSUME Typed, NEW Q, UsedAre(Q), UNCHANGED <<journal, promotion>>,
         Flushed \/ \E refused \in Bumped, done \in SUBSET Bumped : FlushedInPart(done, refused)
  PROVE  UsedAre(Q)'
<1>1. ASSUME NEW rows \in [Memories -> Rows], NEW S, \A m \in Memories : rows[m].used \in Q
      PROVE  \A m \in Memories : WithBumps(rows, S)[m].used \in Q
  <2>1. \A m \in Memories : rows[m] \in Rows /\ bumps[m] \in Nat
    BY DEF Typed
  <2>2. \A m \in Memories : [rows[m] EXCEPT !.count = @ + bumps[m]].used = rows[m].used
    BY <2>1 DEF Rows
  <2> QED BY <1>1, <2>2 DEF WithBumps
<1>2. AllHeld \in [Memories -> Rows] /\ maps \in [Memories -> Rows]
      /\ \A m \in Memories : AllHeld[m].used \in Q /\ maps[m].used \in Q
  BY DEF AllHeld, Typed, UsedAre
<1>3. \A S : \A m \in Memories : WithBumps(AllHeld, S)[m].used \in Q /\ WithBumps(maps, S)[m].used \in Q
  BY <1>1, <1>2
<1>4. \A m \in Memories : maps'[m].used \in Q /\ index'[m].used \in Q
  <2>1. ASSUME NEW m \in Memories, NEW S,
               index' = [k \in Memories |-> IF k \in S THEN WithBumps(AllHeld, Bumped)[k] ELSE index[k]]
        PROVE  index'[m].used \in Q
    BY <1>3, <2>1 DEF UsedAre
  <2>2. ASSUME NEW m \in Memories, NEW S, maps' = IF lowRAM THEN maps ELSE WithBumps(maps, S)
        PROVE  maps'[m].used \in Q
    BY <1>2, <1>3, <2>2
  <2>3. CASE Flushed
    BY <2>1, <2>2, <2>3 DEF Flushed
  <2>4. ASSUME NEW refused \in Bumped, NEW done \in SUBSET Bumped, FlushedInPart(done, refused)
        PROVE  \A m \in Memories : maps'[m].used \in Q /\ index'[m].used \in Q
    BY <2>1, <2>2, <2>4 DEF FlushedInPart
  <2> QED BY <2>3, <2>4
<1>5. \A m \in Memories : file'[m].used \in Q
  BY <1>4 DEF Flushed, FlushedInPart, AllHeld, UsedAre
<1> QED BY <1>4, <1>5 DEF UsedAre

LEMMA UsedCommit ==
  ASSUME Typed, NEW Q, UsedAre(Q), CommitMutation \/ CrashInCommit
  PROVE  UsedAre(Q)'
<1>1. promotion.memory \in Memories /\ promotion.row \in Rows /\ Event = promotion
      /\ promotion # NoPromotion /\ promotion.row.used \in Q /\ promotion \in Promotions
  BY PromotionType DEF CommitMutation, CrashInCommit, Admitted, UsedAre
<1>2. \A i \in DOMAIN journal' : journal'[i].row.used \in Q
  <2>1. journal' = Append(journal, promotion)
    BY <1>1 DEF CommitMutation, CrashInCommit
  <2>2. \A i \in DOMAIN journal' : journal'[i] = promotion \/ (i \in DOMAIN journal /\ journal'[i] = journal[i])
    BY <1>1, <2>1 DEF Typed
  <2> QED BY <1>1, <2>2 DEF UsedAre
<1>3. promotion' \in {promotion, NoPromotion}
  BY DEF CommitMutation, CrashInCommit, Die
<1>4. \A m \in Memories : Kept(promotion.memory, promotion.row)[m].used \in Q
                           /\ [maps EXCEPT ![promotion.memory] = promotion.row][m].used \in Q
                           /\ [index EXCEPT ![promotion.memory] = promotion.row][m].used \in Q
  BY <1>1 DEF Kept, Typed, UsedAre
<1>5. \A m \in Memories : maps'[m].used \in Q /\ index'[m].used \in Q /\ file'[m].used \in Q
  <2>1. CASE CommitMutation
    BY <1>4, <2>1 DEF CommitMutation, UsedAre
  <2>2. CASE CrashInCommit
    BY <1>4, <2>2 DEF CrashInCommit, Die, UsedAre
  <2> QED BY <2>1, <2>2
<1> QED BY <1>1, <1>2, <1>3, <1>5 DEF UsedAre

LEMMA UsedOpen ==
  ASSUME Typed, JournalInv, NEW Q, UsedAre(Q), Open
  PROVE  UsedAre(Q)'
<1>1. \A m \in Memories : Replayed(m).used \in Q
  BY LastOfIs DEF Replayed, UsedAre
<1> QED BY <1>1 DEF Open, UsedAre

LEMMA UsedMore ==
  ASSUME NEW Q, NEW R, Q \subseteq R, UsedAre(Q)
  PROVE  UsedAre(R)
BY DEF UsedAre

\* A start arrives at an ordinal no session is ahead of.
LEMMA LoadedSeqCovers ==
  ASSUME Typed, meta # 0 \/ \A c \in Sessions : sessionsFile[c] = 0
  PROVE  \A c \in Sessions : sessionsFile[c] <= LoadedSeq
<1> DEFINE S == {meta} \cup {sessionsFile[c] : c \in Sessions}
<1>1. PICK l \in Ordinals(sessionsFile) : \A k \in Ordinals(sessionsFile) : k <= l
  BY DEF Typed, HasLargest
<1>2. S \subseteq Nat /\ l \in Nat
  BY DEF Typed, Ordinals
<1>3. \E n \in S : \A k \in S : k <= n
  <2>1. \A k \in S : k = meta \/ k <= l
    BY <1>1 DEF Ordinals
  <2>2. CASE l <= meta
    BY <1>2, <2>1, <2>2
  <2>3. CASE ~(l <= meta)
    <3>1. l # 0 /\ meta <= l
      BY <1>2, <2>3 DEF Typed
    <3>2. l \in S
      BY <3>1 DEF Ordinals
    <3> QED BY <1>2, <2>1, <3>1, <3>2
  <2> QED BY <2>2, <2>3
<1>4. \A k \in S : k <= LargestOf(S)
  BY <1>3 DEF LargestOf
<1>5. CASE meta # 0
  BY <1>4, <1>5 DEF LoadedSeq
<1>6. CASE meta = 0
  BY <1>6 DEF LoadedSeq
<1> QED BY <1>5, <1>6

\* Steps of a serving process that leave the sessions alone.
LEMMA ClockServes ==
  ASSUME Typed, ClockInv, phase = "up", phase' = "up", UNCHANGED <<sessions, sessionSeq, histories>>,
         \A c \in Sessions : sessionsFile'[c] \in {0, sessions[c]},
         UsedAre(Ordinals(sessions) \cup lost) => UsedAre(Ordinals(sessions) \cup lost)'
  PROVE  ClockInv'
BY DEF ClockInv, Table, Distinct, histories

LEMMA ClockNewSession ==
  ASSUME Typed, ClockInv, NEW c \in Sessions, UpsertSession(c), NewSession(c)
  PROVE  ClockInv'
<1>1. /\ phase = "up" /\ phase' = "up" /\ sessions[c] = 0 /\ UNCHANGED <<rowVars, forgotten, lost>>
      /\ sessions' = NextSession(c) /\ sessionSeq' = sessionSeq + 1 /\ sessionSeq \in Nat
      /\ sessionsFile' \in {sessions', sessionsFile}
  BY DEF UpsertSession, NewSession, Typed, histories
<1>2. \A d \in Sessions : /\ sessions[d] \in Nat
                          /\ sessions'[d] = IF d = c THEN sessionSeq + 1 ELSE sessions[d]
  BY <1>1 DEF NextSession, Typed
<1>3. /\ UsedAre(Ordinals(sessions) \cup lost)
      /\ \A d \in Sessions : sessionsFile[d] \in {0, sessions[d]}
      /\ ~forgotten => Distinct(sessions) /\ \A d \in Sessions : sessions[d] <= sessionSeq
  BY <1>1 DEF ClockInv, Table
<1>4. Ordinals(sessions) \subseteq Ordinals(sessions)'
  BY <1>1, <1>2 DEF Ordinals
<1>5. UsedAre(Ordinals(sessions)' \cup lost')
  BY <1>1, <1>3, <1>4, UsedMore
<1>6. UsedAre(Ordinals(sessions) \cup lost)'
  BY <1>1, <1>5 DEF UsedAre, rowVars
<1>7. \A d \in Sessions : sessionsFile'[d] \in {0, sessions'[d]}
  BY <1>1, <1>2, <1>3
<1>8. ASSUME ~forgotten
      PROVE  Distinct(sessions') /\ \A d \in Sessions : sessions'[d] <= sessionSeq'
  BY <1>1, <1>2, <1>3, <1>8 DEF Distinct
<1> QED BY <1>1, <1>6, <1>7, <1>8 DEF ClockInv, Table, Distinct

LEMMA ClockUpsert ==
  ASSUME Typed, ClockInv, NEW c \in Sessions, UpsertSession(c)
  PROVE  ClockInv'
<1>1. CASE NewSession(c)
  BY <1>1, ClockNewSession
<1>2. CASE LaterActivity(c)
  <2>1. /\ phase = "up" /\ phase' = "up" /\ UNCHANGED <<sessions, sessionSeq, rowVars, histories>>
        /\ sessionsFile' \in {sessions, sessionsFile}
    BY <1>2 DEF UpsertSession, LaterActivity
  <2>2. \A d \in Sessions : sessionsFile'[d] \in {0, sessions[d]}
    BY <2>1 DEF ClockInv
  <2>3. UsedAre(Ordinals(sessions) \cup lost) => UsedAre(Ordinals(sessions) \cup lost)'
    BY <2>1 DEF UsedAre, Ordinals, rowVars, histories
  <2> QED BY <2>1, <2>2, <2>3, ClockServes
<1> QED BY <1>1, <1>2 DEF UpsertSession

\* What a serving process leaves behind.
LEMMA ClockStops ==
  ASSUME phase' = "down", UsedAre(Ordinals(sessionsFile) \cup lost)',
         ~forgotten' => Distinct(sessionsFile)'
  PROVE  ClockInv'
BY DEF ClockInv, Table

LEMMA ClockCrash ==
  ASSUME Typed, ClockInv, Crash \/ CrashInCommit
  PROVE  ClockInv'
<1>1. /\ phase = "up" /\ phase' = "down" /\ UNCHANGED <<sessionsFile, forgotten>>
      /\ lost' = lost \cup {sessions[c] : c \in {c \in Sessions : sessions[c] # sessionsFile[c]}}
  BY DEF Crash, CrashInCommit, Die, LoseUnwritten
<1>2. /\ UsedAre(Ordinals(sessions) \cup lost)
      /\ \A d \in Sessions : sessionsFile[d] \in {0, sessions[d]}
      /\ ~forgotten => Distinct(sessions)
  BY <1>1 DEF ClockInv, Table
<1>3. Ordinals(sessions) \cup lost \subseteq Ordinals(sessionsFile)' \cup lost'
  BY <1>1 DEF Ordinals
<1>4. UsedAre(Ordinals(sessionsFile)' \cup lost')
  BY <1>2, <1>3, UsedMore
<1>5. UsedAre(Ordinals(sessionsFile) \cup lost)'
  <2>1. CASE Crash
    <3>1. UNCHANGED <<maps, file, index, journal, promotion>>
      BY <2>1 DEF Crash, Die
    <3> QED BY <1>4, <3>1 DEF UsedAre
  <2>2. CASE CrashInCommit
    BY <1>4, <2>2, UsedCommit DEF UsedAre
  <2> QED BY <2>1, <2>2
<1>6. ~forgotten' => Distinct(sessionsFile)'
  <2>1. \A d \in Sessions : sessionsFile[d] > 0 => sessionsFile[d] = sessions[d]
    BY <1>2
  <2> QED BY <1>1, <1>2, <2>1 DEF Distinct
<1> QED BY <1>1, <1>5, <1>6, ClockStops

LEMMA ClockCrashInUpsert ==
  ASSUME Typed, ClockInv, NEW c \in Sessions, CrashInUpsert(c)
  PROVE  ClockInv'
<1>1. /\ phase = "up" /\ phase' = "down" /\ UNCHANGED <<maps, file, index, journal, promotion, forgotten, lost>>
      /\ sessions[c] = 0 /\ sessionsFile' = NextSession(c) /\ sessionSeq \in Nat
  BY DEF CrashInUpsert, Die, histories, Typed
<1>2. \A d \in Sessions : /\ sessions[d] \in Nat
                          /\ sessionsFile'[d] = IF d = c THEN sessionSeq + 1 ELSE sessions[d]
  BY <1>1 DEF NextSession, Typed
<1>3. /\ UsedAre(Ordinals(sessions) \cup lost)
      /\ ~forgotten => Distinct(sessions) /\ \A d \in Sessions : sessions[d] <= sessionSeq
  BY <1>1 DEF ClockInv, Table
<1>4. Ordinals(sessions) \subseteq Ordinals(sessionsFile)'
  BY <1>1, <1>2 DEF Ordinals
<1>5. UsedAre(Ordinals(sessionsFile)' \cup lost')
  BY <1>1, <1>3, <1>4, UsedMore
<1>6. UsedAre(Ordinals(sessionsFile) \cup lost)'
  BY <1>1, <1>5 DEF UsedAre
<1>7. ~forgotten' => Distinct(sessionsFile)'
  BY <1>1, <1>2, <1>3 DEF Distinct
<1> QED BY <1>1, <1>6, <1>7, ClockStops

LEMMA ClockFlushAll ==
  ASSUME Typed, ClockInv, NEW last \in BOOLEAN, FlushAll(last)
  PROVE  ClockInv'
<1>1. /\ phase = "up" /\ phase' = IF last THEN "down" ELSE "up"
      /\ UNCHANGED <<sessions, sessionSeq, forgotten, lost, journal, promotion>>
      /\ sessionsFile' = sessions /\ Flushed
  BY DEF FlushAll, histories
<1>2. PICK q : q = Ordinals(sessions) \cup lost
  OBVIOUS
<1>3. UsedAre(q) /\ (~forgotten => Distinct(sessions))
  BY <1>1, <1>2 DEF ClockInv, Table
<1>4. UsedAre(q)'
  BY <1>1, <1>3, UsedFlush
<1>5. (Ordinals(sessions) \cup lost)' = q
  BY <1>1, <1>2 DEF Ordinals
<1>6. CASE ~last
  <2>1. UsedAre(Ordinals(sessions) \cup lost)'
    BY <1>4, <1>5 DEF UsedAre
  <2> QED BY <1>1, <1>6, <2>1, ClockServes DEF histories
<1>7. CASE last
  <2>1. (Ordinals(sessionsFile) \cup lost)' = q
    BY <1>1, <1>2 DEF Ordinals
  <2>2. UsedAre(Ordinals(sessionsFile) \cup lost)'
    BY <1>4, <2>1 DEF UsedAre
  <2>3. ~forgotten' => Distinct(sessionsFile)'
    BY <1>1, <1>3 DEF Distinct
  <2> QED BY <1>1, <1>7, <2>2, <2>3, ClockStops
<1> QED BY <1>6, <1>7

\* A start arrives at the largest ordinal there is, or has no meta to go by.
LEMMA ClockOpen ==
  ASSUME Typed, JournalInv, ClockInv, Open
  PROVE  ClockInv'
<1>1. /\ phase = "down" /\ phase' = "up" /\ UNCHANGED <<sessionsFile, lost>>
      /\ sessions' = sessionsFile /\ sessionSeq' = LoadedSeq
      /\ forgotten' = (forgotten \/ (meta = 0 /\ \E c \in Sessions : sessionsFile[c] > 0))
  BY DEF Open
<1>2. UsedAre(Ordinals(sessionsFile) \cup lost) /\ (~forgotten => Distinct(sessionsFile))
  BY <1>1 DEF ClockInv, Table
<1>3. Ordinals(sessions)' = Ordinals(sessionsFile)
  BY <1>1 DEF Ordinals
<1>4. UsedAre(Ordinals(sessions) \cup lost)'
  BY <1>1, <1>2, <1>3, UsedOpen DEF UsedAre
<1>5. \A c \in Sessions : sessionsFile'[c] \in {0, sessions'[c]}
  BY <1>1
<1>6. ASSUME ~forgotten'
      PROVE  Distinct(sessions)' /\ \A c \in Sessions : sessions'[c] <= sessionSeq'
  <2>1. ~forgotten /\ ~(meta = 0 /\ \E c \in Sessions : sessionsFile[c] > 0)
    BY <1>1, <1>6, Zenon
  <2>2. \A c \in Sessions : sessionsFile[c] \in Nat
    BY DEF Typed
  <2>3. meta # 0 \/ \A c \in Sessions : sessionsFile[c] = 0
    BY <2>1, <2>2
  <2> QED BY <1>1, <1>2, <2>1, <2>3, LoadedSeqCovers DEF Distinct
<1> QED BY <1>1, <1>4, <1>5, <1>6 DEF ClockInv, Table

LEMMA ClockNext == Typed /\ JournalInv /\ ClockInv /\ [Next]_vars => ClockInv'
<1> SUFFICES ASSUME Typed, JournalInv, ClockInv, [Next]_vars PROVE ClockInv'
  OBVIOUS
<1>1. CASE Open
  BY <1>1, ClockOpen
<1>2. CASE Crash \/ CrashInCommit
  BY <1>2, ClockCrash
<1>3. ASSUME NEW c \in Sessions, UpsertSession(c) \/ CrashInUpsert(c) PROVE ClockInv'
  BY <1>3, ClockUpsert, ClockCrashInUpsert
<1>4. CASE \E last \in BOOLEAN : FlushAll(last)
  BY <1>4, ClockFlushAll
<1>5. CASE UNCHANGED vars
  BY <1>5 DEF ClockInv, Table, Ordinals, vars, rowVars, clock, histories, UsedAre, Distinct
<1>6. CASE \/ \E m \in Memories : SearchHit(m) \/ LoadDuplicate(m)
           \/ \E m \in Memories, c \in Sessions :
                Recall(m, c) \/ \E outcome \in {"helped", "misled"} : ApplyFeedback(m, c, outcome)
           \/ FlushAccessBumps \/ CommitMutation \/ RefuseMutation
  <2>1. phase = "up" /\ phase' = "up" /\ UNCHANGED <<clock, histories>>
    <3>1. ASSUME NEW m \in Memories, SearchHit(m) \/ LoadDuplicate(m)
          PROVE  phase = "up" /\ phase' = "up" /\ UNCHANGED <<clock, histories>>
      BY <3>1 DEF SearchHit, LoadDuplicate
    <3>2. ASSUME NEW m \in Memories, NEW c \in Sessions, NEW outcome \in {"helped", "misled"},
                 Recall(m, c) \/ ApplyFeedback(m, c, outcome)
          PROVE  phase = "up" /\ phase' = "up" /\ UNCHANGED <<clock, histories>>
      BY <3>2 DEF Recall, ApplyFeedback
    <3>3. ASSUME NEW m \in Memories, NEW c \in Sessions, Recall(m, c)
          PROVE  phase = "up" /\ phase' = "up" /\ UNCHANGED <<clock, histories>>
      BY <3>3 DEF Recall
    <3>4. CASE FlushAccessBumps \/ CommitMutation \/ RefuseMutation
      BY <3>4 DEF FlushAccessBumps, CommitMutation, RefuseMutation
    <3> QED BY <1>6, <3>1, <3>2, <3>3, <3>4
  <2> DEFINE Q == Ordinals(sessions) \cup lost
  <2>2. UsedAre(Q) /\ \A c \in Sessions : sessions[c] \in Q /\ sessionsFile[c] \in {0, sessions[c]}
    BY <2>1 DEF ClockInv, Table, Ordinals
  <2>3. Q' = Q
    BY <2>1 DEF clock, histories, Ordinals
  <2> HIDE DEF Q
  <2>4. UsedAre(Q)'
    <3>1. PICK q : q = Q
      OBVIOUS
    <3>2. UsedAre(q) /\ \A c \in Sessions : sessions[c] \in q
      BY <2>2, <3>1
    <3>3. UsedAre(q)'
      <4>1. CASE \E m \in Memories : SearchHit(m)
        BY <3>2, <4>1 DEF SearchHit, UsedAre
      <4>2. CASE \E m \in Memories : LoadDuplicate(m)
        BY <3>2, <4>2, UsedLoad
      <4>3. CASE \E m \in Memories, c \in Sessions :
                   Recall(m, c) \/ \E outcome \in {"helped", "misled"} : ApplyFeedback(m, c, outcome)
        BY <3>2, <4>3, UsedRecall
      <4>4. CASE FlushAccessBumps
        BY <3>2, <4>4, UsedFlush DEF FlushAccessBumps
      <4>5. CASE CommitMutation
        BY <3>2, <4>5, UsedCommit
      <4>6. CASE RefuseMutation
        BY <3>2, <4>6 DEF RefuseMutation, UsedAre
      <4> QED BY <1>6, <4>1, <4>2, <4>3, <4>4, <4>5, <4>6
    <3> QED BY <2>3, <3>1, <3>3 DEF UsedAre
  <2>5. UNCHANGED <<sessions, sessionSeq, sessionsFile, histories>>
    BY <2>1 DEF clock
  <2>6. UsedAre(Ordinals(sessions) \cup lost)'
    BY <2>4 DEF Q
  <2>7. \A c \in Sessions : sessionsFile'[c] \in {0, sessions[c]}
    BY <2>2, <2>5
  <2> QED BY <2>1, <2>5, <2>6, <2>7, ClockServes
<1> QED BY <1>1, <1>2, <1>3, <1>4, <1>5, <1>6 DEF Next

-----------------------------------------------------------------------------
LEMMA InitInv == Init => RuntimeInv
<1> SUFFICES ASSUME Init PROVE RuntimeInv
  OBVIOUS
<1>1. Typed
  BY InitTyped
<1>2. JournalInv
  BY DEF Init, JournalInv
<1>3. RowInv
  <2>1. NewRow.version = 1 /\ NewRow.count = 0
    BY DEF NewRow
  <2> QED BY <2>1 DEF Init, RowInv, RowAt, DownRow
<1>4. ClockInv
  <2>1. 0 \in Ordinals(sessionsFile) /\ Distinct(sessionsFile)
    BY DEF Init, Ordinals, Distinct
  <2>2. NewRow.used = 0
    BY DEF NewRow
  <2>3. UsedAre(Ordinals(sessionsFile) \cup lost)
    BY <2>1, <2>2 DEF Init, UsedAre
  <2> QED BY <2>1, <2>3 DEF Init, ClockInv, Table
<1> QED BY <1>1, <1>2, <1>3, <1>4 DEF RuntimeInv

LEMMA RuntimeInvariant == Spec => []RuntimeInv
<1>1. RuntimeInv /\ [Next]_vars => RuntimeInv'
  BY TypedNext, JournalNext, RowNext, ClockNext DEF RuntimeInv
<1> QED BY InitInv, <1>1, PTL DEF Spec

-----------------------------------------------------------------------------
(***************************************************************************)
(* For every number of calls, crashes and failed writes, in both modes:    *)
(* what readers are served of a memory is what its feedback and its uses   *)
(* add up to, unless a crash, a dropped error or an overlapping promotion  *)
(* excuses it (queries.go:614, server.go:1191, server.go:637).             *)
(***************************************************************************)
THEOREM FeedbackSurvives == Spec => []FeedbackKept
<1>1. RuntimeInv => FeedbackKept
  BY DEF RuntimeInv, RowInv, RowAt, Intact, UpRow, Same, FeedbackKept
<1> QED BY RuntimeInvariant, <1>1, PTL

(***************************************************************************)
(* Every access is counted once, in the row or in a bump that is pending   *)
(* (recordBump, FlushAccessBumps), with the same three exceptions.         *)
(***************************************************************************)
THEOREM AccessCounted == Spec => []CountedOnce
<1>1. RuntimeInv => CountedOnce
  BY DEF RuntimeInv, RowInv, RowAt, Intact, UpRow, CountedOnce
<1> QED BY RuntimeInvariant, <1>1, PTL

(***************************************************************************)
(* The maps and the index hold the same row in the default mode, whichever *)
(* of the two the operation started from (GetMemory, LoadMemoryRow).       *)
(***************************************************************************)
THEOREM OneRow == Spec => []CopiesAgree
<1>1. RuntimeInv => CopiesAgree
  BY DEF RuntimeInv, RowInv, RowAt, Intact, UpRow, Held, CopiesAgree
<1> QED BY RuntimeInvariant, <1>1, PTL

(***************************************************************************)
(* Unless it was started without its meta.jsonl, the clock that decay is   *)
(* measured against is at or past every ordinal a session carries, and no  *)
(* two sessions have one in common (loadMeta, UpsertSession); it is at or  *)
(* past what a memory carries too, but for the ordinal of a session whose  *)
(* row was never written and which died with the process.                  *)
(***************************************************************************)
THEOREM ClockForward == Spec => []ClockRunsForward
<1>1. ASSUME RuntimeInv, phase = "up", ~forgotten
      PROVE  \A m \in Memories : index[m].used <= sessionSeq \/ index[m].used \in lost
  <2>1. \A m \in Memories : index[m].used \in Ordinals(sessions) \cup lost
    BY <1>1 DEF RuntimeInv, ClockInv, Table, UsedAre
  <2>2. \A n \in Ordinals(sessions) : n <= sessionSeq
    BY <1>1 DEF RuntimeInv, ClockInv, Ordinals, Typed
  <2> QED BY <2>1, <2>2
<1>2. RuntimeInv => ClockRunsForward
  BY <1>1 DEF RuntimeInv, ClockInv, Table, Distinct, ClockRunsForward
<1> QED BY RuntimeInvariant, <1>2, PTL
=============================================================================
