------------------------ MODULE MessageArchiveProofs ------------------------
(***************************************************************************)
(* Proofs about the message archive for every set of messages and ids,     *)
(* every segment size, every start and both RAM modes, in three steps.     *)
(*                                                                         *)
(* What an append, a failure, a crash and an opening do to the segments,   *)
(* and what of them no fault can take back (ArchiveInv): types under any   *)
(* faults; and, where not both the process and the machine may die, that   *)
(* an acknowledged message stays and a repeated one is answered as before. *)
(*                                                                         *)
(* What the hash chain of the segments says in every phase (ChainInv),     *)
(* when failing writes leave no record behind: the daemon always opens     *)
(* again, with the rows, counters and keys it served.                      *)
(*                                                                         *)
(* That what stands, in the order of its numbers, is the append-only log   *)
(* of MessageLog (BehindInv: an fsync makes one record stand at a time).   *)
(***************************************************************************)
EXTENDS MessageArchive, FiniteSetTheorems, SequenceTheorems, WellFoundedInduction, TLAPS

\* The entries of segments, and those of them that no fault can take back.
All(segs) ==
  UNION {{segs[i].entries[j] : j \in DOMAIN segs[i].entries} : i \in DOMAIN segs}

Lasting(segs) ==
  UNION {{segs[i].entries[j] : j \in 1 .. Standing(segs[i])} : i \in DOMAIN segs}

\* Either the process or the machine may die: after an interrupted append that
\* only the process survived, a record is read back that was never fsynced.
OneStorm == "power" \in Faults => "kill" \notin Faults /\ "sync" \notin Faults

\* TypeOK, with the append in progress as a record of one of two shapes.
Typed ==
  /\ segments \in Seq(Segments)
  /\ \A i \in DOMAIN segments : segments[i].synced <= Len(segments[i].entries)
  /\ file \subseteq Rows /\ index \subseteq Rows /\ messages \subseteq Rows
  /\ messageSeq \in Nat /\ turnSeq \in Nat /\ lastID \in RowIDs \cup {NoID}
  /\ phase \in {"down", "migrating", "indexing", "up", "refused"}
  /\ append \in {Idle} \cup [step : {"ensured", "written", "archived", "indexed"}, row : Rows]
  /\ told \subseteq [id : RowIDs, message : Messages]

\* What the process is doing, step by step of an append.
StepInv ==
  /\ append # Idle => phase \in {"up", "migrating"} /\ segments # <<>>
  /\ append.step \in {"archived", "indexed"} => phase = "up"
  /\ append # Idle /\ phase = "up" =>
       /\ messageSeq = append.row.seq /\ messageSeq > 0
       /\ turnSeq = append.row.turn /\ (append.row.message.user => turnSeq > 0)
  /\ append.step = "written" =>
       /\ LastSegment.entries # <<>>
       /\ LastSegment.entries[Len(LastSegment.entries)] \in {append.row, Glued}
  /\ Stopped => messages = {}

\* So that the turns read back have a greatest one.
TurnsBounded == \E b \in Nat : \A r \in All(segments) : r # Glued => r.turn <= b

\* Without a partial write no record runs into another, and what a crash left
\* at the end is gone once the store is open.
WholeInv ==
  "short" \notin Faults =>
    /\ Glued \notin All(segments)
    /\ ~Stopped => \A i \in DOMAIN segments : ~segments[i].torn

\* Only the record in progress may be behind the last fsync.
SyncedInv ==
  "power" \in Faults =>
    \A i \in DOMAIN segments :
      \/ segments[i].synced = Len(segments[i].entries)
      \/ append.step = "written" /\ i = Len(segments)

\* The identity of a row and its content.
Alike(e, t) == e.id = t.id /\ e.message = t.message

\* The row is in the archive for good, or the archive is unreadable for good.
Stands(t, segs) == Glued \in Lasting(segs) \/ \E e \in Lasting(segs) : Alike(e, t)

\* Whatever an answer is taken from stands: what hosts were told, the table,
\* the map the table is built from, and the row that is about to be answered.
StandInv ==
  /\ \A t \in told : Stands(t, segments)
  /\ \A r \in index : Stands(r, segments)
  /\ phase = "indexing" => \A r \in messages : Stands(r, segments)
  /\ append.step \in {"archived", "indexed"} => Stands(append.row, segments)

\* While rows of messages.jsonl are appended to the first segments, the map is
\* the only reader: every entry is one of its rows, which identities tell apart.
MigrateInv ==
  phase = "migrating" =>
    /\ told = {}
    /\ \A r, q \in messages : r.id = q.id => r = q
    /\ \A e \in All(segments) : e # Glued => \E r \in messages : Alike(e, r)
    /\ append # Idle => \E r \in messages : Alike(append.row, r)

\* The table holds every answered row once; the map it is built from, too.
AnswerInv ==
  /\ phase = "up" =>
       /\ Unique(index)
       /\ \A t \in told : \E r \in index : Alike(r, t)
       /\ append.step \in {"ensured", "written", "archived"} =>
            \A r \in index : r.message.key # append.row.message.key
  /\ append.step = "indexed" => append.row \in index
  /\ phase = "indexing" => \A t \in told : \E r \in messages : Alike(r, t)

ArchiveInv ==
  Typed /\ StepInv /\ TurnsBounded /\ WholeInv /\ SyncedInv /\ StandInv /\ MigrateInv /\ AnswerInv

-----------------------------------------------------------------------------
(***************************************************************************)
(* Numbers and segments.                                                   *)
(***************************************************************************)

\* A bounded set of numbers has a greatest one (ReadTurn picks it).
LEMMA GreatestExists ==
  ASSUME NEW S, S \subseteq Nat, S # {}, NEW b \in Nat, \A t \in S : t <= b
  PROVE  \E t \in S : \A u \in S : u <= t
<1> DEFINE R == {ss \in Nat \X Nat : ss[1] < ss[2]}
           T == {n \in Nat : b - n \in S}
<1>1. IsWellFoundedOn(R, Nat)
  BY NatLessThanWellFounded DEF OpToRel
<1>2. T \subseteq Nat /\ T # {}
  <2>1. PICK t \in S : TRUE
    OBVIOUS
  <2>2. b - t \in Nat /\ b - (b - t) = t
    OBVIOUS
  <2> QED BY <2>1, <2>2
<1>3. PICK x \in T : \A y \in T : ~(<<y, x>> \in R)
  <2> HIDE DEF R, T
  <2> QED BY <1>1, <1>2, WFMin
<1>4. \A y \in T : x <= y
  <2> TAKE y \in T
  <2>1. <<y, x>> \in Nat \X Nat
    OBVIOUS
  <2>2. ~(<<y, x>>[1] < <<y, x>>[2])
    BY <1>3, <2>1, Zenon
  <2> QED BY <2>2
<1>5. ASSUME NEW u \in S
      PROVE  u <= b - x
  <2>1. b - u \in Nat /\ b - (b - u) = u
    BY <1>5
  <2>2. b - u \in T
    BY <2>1, <1>5
  <2>3. x <= b - u /\ x \in Nat
    BY <2>2, <1>4
  <2> QED BY <2>1, <2>3
<1> QED BY <1>5

\* An entry is in the segments where it is in one of them.
LEMMA AllAre ==
  ASSUME NEW segs
  PROVE  \A e : e \in All(segs) <=>
           \E i \in DOMAIN segs : \E j \in DOMAIN segs[i].entries : e = segs[i].entries[j]
BY DEF All

LEMMA LastingAre ==
  ASSUME NEW segs
  PROVE  \A e : e \in Lasting(segs) <=>
           \E i \in DOMAIN segs : \E j \in 1 .. Standing(segs[i]) : e = segs[i].entries[j]
BY DEF Lasting

\* Segments whose fsync is not ahead of what was written.
Sane(segs) ==
  /\ segs \in Seq(Segments)
  /\ \A i \in DOMAIN segs : segs[i].synced <= Len(segs[i].entries)

\* What stands is among what can be read, and is part of every segment.
LEMMA StandingBounds ==
  ASSUME NEW s \in Segments, s.synced <= Len(s.entries)
  PROVE  /\ Standing(s) \in Nat /\ s.synced <= Standing(s)
         /\ Standing(s) <= Len(s.entries)
         /\ 1 .. Standing(s) \subseteq DOMAIN s.entries
<1>1. s.synced \in Nat /\ Len(s.entries) \in Nat /\ DOMAIN s.entries = 1 .. Len(s.entries)
  BY LenProperties DEF Segments
<1> QED BY <1>1 DEF Standing

LEMMA SegmentTypes ==
  ASSUME NEW segs, Sane(segs), NEW i \in DOMAIN segs
  PROVE  /\ segs[i] \in Segments /\ segs[i].synced <= Len(segs[i].entries)
         /\ segs[i].entries \in Seq(Rows \cup {Glued})
         /\ segs[i].torn \in BOOLEAN /\ segs[i].synced \in Nat
         /\ Len(segs[i].entries) \in Nat
         /\ DOMAIN segs[i].entries = 1 .. Len(segs[i].entries)
         /\ \A j \in DOMAIN segs[i].entries : segs[i].entries[j] \in Rows \cup {Glued}
<1>1. segs[i] \in Segments /\ segs[i].synced <= Len(segs[i].entries)
  BY ElementOfSeq, LenProperties DEF Sane
<1>2. segs[i].entries \in Seq(Rows \cup {Glued})
  BY <1>1 DEF Segments
<1> QED BY <1>1, <1>2, LenProperties, ElementOfSeq DEF Segments

LEMMA LastingInAll ==
  ASSUME NEW segs, Sane(segs)
  PROVE  Lasting(segs) \subseteq All(segs)
<1> SUFFICES ASSUME NEW e \in Lasting(segs) PROVE e \in All(segs)
  OBVIOUS
<1>1. PICK i \in DOMAIN segs : \E j \in 1 .. Standing(segs[i]) : e = segs[i].entries[j]
  BY LastingAre
<1>2. segs[i] \in Segments /\ segs[i].synced <= Len(segs[i].entries)
  BY SegmentTypes
<1>3. 1 .. Standing(segs[i]) \subseteq DOMAIN segs[i].entries
  BY <1>2, StandingBounds
<1> QED BY <1>1, <1>3, AllAre

LEMMA AllTypes ==
  ASSUME NEW segs, Sane(segs)
  PROVE  All(segs) \subseteq Rows \cup {Glued}
<1> SUFFICES ASSUME NEW e \in All(segs) PROVE e \in Rows \cup {Glued}
  OBVIOUS
<1>1. PICK i \in DOMAIN segs : \E j \in DOMAIN segs[i].entries : e = segs[i].entries[j]
  BY AllAre
<1> QED BY <1>1, SegmentTypes

\* The journal is read from every segment.
LEMMA JournalIsAll == Journal = All(segments)
<1>1. ASSUME NEW p \in Positions
      PROVE  p[1] \in DOMAIN segments /\ p[2] \in DOMAIN segments[p[1]].entries
  BY DEF Positions
<1>2. ASSUME NEW i \in DOMAIN segments, NEW j \in DOMAIN segments[i].entries
      PROVE  <<i, j>> \in Positions /\ At(<<i, j>>) = segments[i].entries[j]
  BY DEF Positions, At
<1>3. Journal \subseteq All(segments)
  BY <1>1, AllAre DEF Journal, At
<1>4. ASSUME NEW e \in All(segments)
      PROVE  e \in Journal
  <2>1. PICK i \in DOMAIN segments : \E j \in DOMAIN segments[i].entries : e = segments[i].entries[j]
    BY AllAre
  <2>2. PICK j \in DOMAIN segments[i].entries : e = segments[i].entries[j]
    BY <2>1
  <2>3. <<i, j>> \in Positions /\ At(<<i, j>>) = e
    BY <1>2, <2>2
  <2> QED BY <2>3 DEF Journal
<1> QED BY <1>3, <1>4

\* A line that is no record is no row.
LEMMA GluedIsNoRow == \A r \in Rows : r # Glued /\ r.id # Glued.id
<1>1. Glued.id = NoID
  BY DEF Glued
<1>2. \A r \in Rows : r.id \in RowIDs
  BY DEF Rows
<1> QED BY <1>1, <1>2, ArchiveAssumption

-----------------------------------------------------------------------------
(***************************************************************************)
(* What the steps do to the segments.                                      *)
(***************************************************************************)

\* Segments grow without losing what stands.
Extends(segs, old) == All(old) \subseteq All(segs) /\ Lasting(old) \subseteq Lasting(segs)

\* Segments that take over, segment by segment, every entry and what stands.
LEMMA ExtendsBySegment ==
  ASSUME NEW segs, NEW old, Sane(segs), Sane(old), DOMAIN old \subseteq DOMAIN segs,
         \A i \in DOMAIN old :
           /\ DOMAIN old[i].entries \subseteq DOMAIN segs[i].entries
           /\ \A j \in DOMAIN old[i].entries : segs[i].entries[j] = old[i].entries[j]
           /\ Standing(old[i]) <= Standing(segs[i])
  PROVE  Extends(segs, old)
<1>1. ASSUME NEW e \in All(old)
      PROVE  e \in All(segs)
  <2>1. PICK i \in DOMAIN old : \E j \in DOMAIN old[i].entries : e = old[i].entries[j]
    BY AllAre
  <2> QED BY <2>1, AllAre
<1>2. ASSUME NEW e \in Lasting(old)
      PROVE  e \in Lasting(segs)
  <2>1. PICK i \in DOMAIN old : \E j \in 1 .. Standing(old[i]) : e = old[i].entries[j]
    BY LastingAre
  <2>2. old[i] \in Segments /\ old[i].synced <= Len(old[i].entries)
    BY SegmentTypes
  <2>3. segs[i] \in Segments /\ segs[i].synced <= Len(segs[i].entries)
    BY SegmentTypes
  <2>4. Standing(old[i]) \in Nat /\ Standing(segs[i]) \in Nat
    BY <2>2, <2>3, StandingBounds
  <2>5. 1 .. Standing(old[i]) \subseteq DOMAIN old[i].entries
    BY <2>2, StandingBounds
  <2>6. PICK j \in 1 .. Standing(old[i]) : e = old[i].entries[j]
    BY <2>1
  <2>7. j \in 1 .. Standing(segs[i]) /\ e = segs[i].entries[j]
    BY <2>4, <2>5, <2>6
  <2> QED BY <2>7, LastingAre
<1> QED BY <1>1, <1>2 DEF Extends

LEMMA EmptyIsSegment ==
  /\ EmptySegment \in Segments /\ EmptySegment.synced = 0
  /\ Len(EmptySegment.entries) = 0 /\ ~EmptySegment.torn
  /\ EmptySegment.entries = <<>>
BY DEF EmptySegment, Segments

\* The segment for the next record is there, and nothing else has changed.
LEMMA RoomProperties ==
  ASSUME Sane(segments)
  PROVE  /\ Sane(WithRoom) /\ WithRoom # <<>>
         /\ Extends(WithRoom, segments)
         /\ All(WithRoom) \subseteq All(segments)
         /\ \A i \in DOMAIN WithRoom :
              \/ i \in DOMAIN segments /\ WithRoom[i] = segments[i]
              \/ WithRoom[i] = EmptySegment
         /\ WithRoom # segments => WithRoom[Len(WithRoom)] = EmptySegment
<1> DEFINE more == Append(segments, EmptySegment)
<1>0. segments \in Seq(Segments)
  BY DEF Sane
<1>1. CASE WithRoom = segments
  <2>1. segments # <<>>
    <3>1. more # segments
      BY <1>0, EmptyIsSegment, AppendProperties
    <3> QED BY <3>1, <1>1 DEF WithRoom
  <2>2. Extends(segments, segments)
    BY DEF Extends
  <2> QED BY <1>1, <2>1, <2>2
<1>2. CASE WithRoom = more
  <2>1. /\ more \in Seq(Segments) /\ more # <<>> /\ Len(more) = Len(segments) + 1
        /\ \A i \in 1 .. Len(segments) : more[i] = segments[i]
        /\ more[Len(segments) + 1] = EmptySegment
    BY <1>0, EmptyIsSegment, AppendProperties
  <2>2. DOMAIN segments = 1 .. Len(segments) /\ DOMAIN more = 1 .. (Len(segments) + 1)
        /\ Len(segments) \in Nat
    BY <2>1, <1>0, LenProperties
  <2> HIDE DEF more
  <2>3. \A i \in DOMAIN more : \/ i \in DOMAIN segments /\ more[i] = segments[i]
                               \/ more[i] = EmptySegment
    BY <2>1, <2>2
  <2>4. Sane(more)
    BY <2>1, <2>3, EmptyIsSegment DEF Sane
  <2>5. DOMAIN segments \subseteq DOMAIN more /\ \A i \in DOMAIN segments : more[i] = segments[i]
    BY <2>1, <2>2
  <2>6. \A i \in DOMAIN segments : Standing(segments[i]) \in Nat
    BY SegmentTypes, StandingBounds
  <2>7. Extends(more, segments)
    BY <2>4, <2>5, <2>6, ExtendsBySegment
  <2>8. ASSUME NEW e \in All(more)
        PROVE  e \in All(segments)
    <3>1. PICK i \in DOMAIN more : \E j \in DOMAIN more[i].entries : e = more[i].entries[j]
      BY AllAre
    <3>2. PICK j \in DOMAIN more[i].entries : e = more[i].entries[j]
      BY <3>1
    <3>3. more[i] # EmptySegment
      BY <3>2, EmptyIsSegment
    <3> QED BY <3>2, <3>3, <2>3, AllAre
  <2> QED BY <1>2, <2>1, <2>3, <2>4, <2>7, <2>8
<1> QED BY <1>1, <1>2 DEF WithRoom

\* One segment is replaced, the last.
LEMMA LastProperties ==
  ASSUME Sane(segments), segments # <<>>, NEW s \in Segments, s.synced <= Len(s.entries)
  PROVE  /\ Len(segments) \in DOMAIN segments
         /\ Sane(UpdateLast(s)) /\ UpdateLast(s) # <<>>
         /\ Len(UpdateLast(s)) = Len(segments)
         /\ DOMAIN UpdateLast(s) = DOMAIN segments
         /\ UpdateLast(s)[Len(segments)] = s
         /\ \A i \in DOMAIN segments : i # Len(segments) => UpdateLast(s)[i] = segments[i]
<1>0. segments \in Seq(Segments)
  BY DEF Sane
<1>1. DOMAIN segments = 1 .. Len(segments) /\ Len(segments) \in Nat /\ Len(segments) # 0
  BY <1>0, LenProperties, EmptySeq
<1>2. Len(segments) \in 1 .. Len(segments)
  BY <1>1
<1>3. /\ UpdateLast(s) \in Seq(Segments) /\ Len(UpdateLast(s)) = Len(segments)
      /\ \A i \in 1 .. Len(segments) :
           UpdateLast(s)[i] = IF i = Len(segments) THEN s ELSE segments[i]
  BY <1>0, <1>2, ExceptSeq DEF UpdateLast
<1>4. DOMAIN UpdateLast(s) = DOMAIN segments
  BY DEF UpdateLast
<1>5. Sane(UpdateLast(s))
  BY <1>1, <1>3, <1>4 DEF Sane
<1>6. UpdateLast(s) # <<>>
  BY <1>1, <1>3
<1> QED BY <1>1, <1>2, <1>3, <1>4, <1>5, <1>6

\* An entry of the new last segment, or one that was there.
LEMMA LastAll ==
  ASSUME Sane(segments), segments # <<>>, NEW s \in Segments, s.synced <= Len(s.entries),
         NEW e \in All(UpdateLast(s))
  PROVE  e \in All(segments) \/ \E j \in DOMAIN s.entries : e = s.entries[j]
<1>1. PICK i \in DOMAIN UpdateLast(s) : \E j \in DOMAIN UpdateLast(s)[i].entries :
        e = UpdateLast(s)[i].entries[j]
  BY AllAre
<1>2. i \in DOMAIN segments /\ UpdateLast(s)[Len(segments)] = s
      /\ (i # Len(segments) => UpdateLast(s)[i] = segments[i])
  BY <1>1, LastProperties
<1> QED BY <1>1, <1>2, AllAre

\* The last segment keeps its entries, or gets more: nothing is lost.
LEMMA LastExtends ==
  ASSUME Sane(segments), segments # <<>>, NEW s \in Segments, s.synced <= Len(s.entries),
         DOMAIN LastSegment.entries \subseteq DOMAIN s.entries,
         \A j \in DOMAIN LastSegment.entries : s.entries[j] = LastSegment.entries[j],
         LastSegment.synced <= s.synced
  PROVE  Extends(UpdateLast(s), segments)
<1> DEFINE segs == UpdateLast(s)
<1>1. Sane(segs) /\ DOMAIN segs = DOMAIN segments /\ segs[Len(segments)] = s
      /\ (\A i \in DOMAIN segments : i # Len(segments) => segs[i] = segments[i])
      /\ Len(segments) \in DOMAIN segments
  BY LastProperties
<1>2. LastSegment \in Segments /\ LastSegment.synced \in Nat
      /\ LastSegment.entries \in Seq(Rows \cup {Glued})
  BY <1>1, SegmentTypes DEF LastSegment
<1>3. s.entries \in Seq(Rows \cup {Glued}) /\ s.synced \in Nat
  BY DEF Segments
<1>4. Len(LastSegment.entries) <= Len(s.entries)
  <2>1. DOMAIN LastSegment.entries = 1 .. Len(LastSegment.entries)
        /\ DOMAIN s.entries = 1 .. Len(s.entries)
        /\ Len(s.entries) \in Nat /\ Len(LastSegment.entries) \in Nat
    BY <1>2, <1>3, LenProperties
  <2>2. CASE Len(LastSegment.entries) = 0
    BY <2>1, <2>2
  <2>3. CASE Len(LastSegment.entries) # 0
    <3>1. Len(LastSegment.entries) \in 1 .. Len(LastSegment.entries)
      BY <2>1, <2>3
    <3>2. Len(LastSegment.entries) \in 1 .. Len(s.entries)
      BY <3>1, <2>1
    <3> QED BY <3>2, <2>1
  <2> QED BY <2>2, <2>3
<1>5. Standing(LastSegment) <= Standing(s)
  BY <1>4 DEF Standing
<1>6. \A i \in DOMAIN segments : Standing(segments[i]) \in Nat
  BY SegmentTypes, StandingBounds
<1>7. ASSUME NEW i \in DOMAIN segments
      PROVE  /\ DOMAIN segments[i].entries \subseteq DOMAIN segs[i].entries
             /\ \A j \in DOMAIN segments[i].entries : segs[i].entries[j] = segments[i].entries[j]
             /\ Standing(segments[i]) <= Standing(segs[i])
  <2> HIDE DEF segs
  <2>1. CASE i = Len(segments)
    BY <2>1, <1>1, <1>5 DEF LastSegment
  <2>2. CASE i # Len(segments)
    BY <2>2, <1>1, <1>6
  <2> QED BY <2>1, <2>2
<1> HIDE DEF segs
<1>8. Extends(segs, segments)
  BY <1>1, <1>7, ExtendsBySegment
<1> QED BY <1>8 DEF segs

\* What a write appends: the record, or the mess behind a partial one.
Entry(row) == IF LastSegment.torn THEN Glued ELSE row

LEMMA WriteProperties ==
  ASSUME Sane(segments), segments # <<>>, NEW row \in Rows
  PROVE  LET segs == UpdateLast(Written(LastSegment, row))
         IN  /\ Sane(segs) /\ segs # <<>> /\ Extends(segs, segments)
             /\ Len(segs) = Len(segments) /\ DOMAIN segs = DOMAIN segments
             /\ \A e \in All(segs) : e \in All(segments) \/ e = Entry(row)
             /\ segs[Len(segs)].entries # <<>>
             /\ segs[Len(segs)].entries[Len(segs[Len(segs)].entries)] = Entry(row)
             /\ ~segs[Len(segs)].torn
             /\ \A i \in DOMAIN segments : i # Len(segments) => segs[i] = segments[i]
<1> DEFINE s == Written(LastSegment, row)
           segs == UpdateLast(s)
           old == LastSegment.entries
<1>1. LastSegment \in Segments /\ LastSegment.synced <= Len(old) /\ old \in Seq(Rows \cup {Glued})
      /\ LastSegment.synced \in Nat /\ Len(old) \in Nat /\ LastSegment.torn \in BOOLEAN
      /\ DOMAIN old = 1 .. Len(old)
  <2>1. Len(segments) \in DOMAIN segments
    BY LastProperties, EmptyIsSegment
  <2> QED BY <2>1, SegmentTypes DEF LastSegment
<1>2. Entry(row) \in Rows \cup {Glued}
  BY DEF Entry
<1>3. s = [LastSegment EXCEPT !.entries = Append(old, Entry(row)), !.torn = FALSE]
  BY DEF Written, Entry
<1>4. Append(old, Entry(row)) \in Seq(Rows \cup {Glued})
      /\ Append(old, Entry(row)) # <<>>
      /\ Len(Append(old, Entry(row))) = Len(old) + 1
      /\ (\A j \in 1 .. Len(old) : Append(old, Entry(row))[j] = old[j])
      /\ Append(old, Entry(row))[Len(old) + 1] = Entry(row)
  BY <1>1, <1>2, AppendProperties
<1>5. s \in Segments /\ s.entries = Append(old, Entry(row)) /\ s.synced = LastSegment.synced
      /\ ~s.torn
  BY <1>1, <1>3, <1>4 DEF Segments
<1>6. DOMAIN s.entries = 1 .. (Len(old) + 1) /\ s.synced <= Len(s.entries)
  BY <1>1, <1>4, <1>5, LenProperties
<1> HIDE DEF s
<1>7. DOMAIN old \subseteq DOMAIN s.entries /\ \A j \in DOMAIN old : s.entries[j] = old[j]
  BY <1>1, <1>4, <1>5, <1>6
<1>8. LastSegment.synced <= s.synced
  BY <1>1, <1>5
<1>9. Extends(segs, segments)
  BY <1>5, <1>6, <1>7, <1>8, LastExtends
<1>10. /\ Sane(segs) /\ segs # <<>> /\ segs[Len(segments)] = s
       /\ Len(segs) = Len(segments) /\ DOMAIN segs = DOMAIN segments
       /\ \A i \in DOMAIN segments : i # Len(segments) => segs[i] = segments[i]
  BY <1>5, <1>6, LastProperties
<1>11. ASSUME NEW e \in All(segs)
       PROVE  e \in All(segments) \/ e = Entry(row)
  <2>1. e \in All(segments) \/ \E j \in DOMAIN s.entries : e = s.entries[j]
    BY <1>5, <1>6, LastAll
  <2>2. ASSUME NEW j \in DOMAIN s.entries, e = s.entries[j]
        PROVE  e \in All(segments) \/ e = Entry(row)
    <3>1. CASE j \in 1 .. Len(old)
      <4>1. e = LastSegment.entries[j] /\ j \in DOMAIN LastSegment.entries
        BY <3>1, <2>2, <1>1, <1>7
      <4>2. Len(segments) \in DOMAIN segments
        BY LastProperties, <1>5, <1>6
      <4> QED BY <4>1, <4>2, AllAre DEF LastSegment
    <3>2. CASE j = Len(old) + 1
      BY <3>2, <2>2, <1>4, <1>5
    <3> QED BY <3>1, <3>2, <1>6, <1>1
  <2> QED BY <2>1, <2>2
<1>12. segs[Len(segs)].entries # <<>> /\ ~segs[Len(segs)].torn
       /\ segs[Len(segs)].entries[Len(segs[Len(segs)].entries)] = Entry(row)
  <2>1. segs[Len(segs)] = s
    BY <1>10
  <2> HIDE DEF segs
  <2>2. s.entries # <<>> /\ s.entries[Len(s.entries)] = Entry(row)
    BY <1>4, <1>5
  <2> QED BY <2>1, <2>2, <1>5
<1> HIDE DEF segs
<1>13. /\ Sane(segs) /\ segs # <<>> /\ Extends(segs, segments)
       /\ Len(segs) = Len(segments) /\ DOMAIN segs = DOMAIN segments
       /\ \A e \in All(segs) : e \in All(segments) \/ e = Entry(row)
       /\ segs[Len(segs)].entries # <<>>
       /\ segs[Len(segs)].entries[Len(segs[Len(segs)].entries)] = Entry(row)
       /\ ~segs[Len(segs)].torn
       /\ \A i \in DOMAIN segments : i # Len(segments) => segs[i] = segments[i]
  BY <1>9, <1>10, <1>11, <1>12
<1> QED BY <1>13 DEF segs, s

\* The last segment is marked, as partial or as fsynced; its entries stay.
LEMMA MarkProperties ==
  ASSUME Sane(segments), segments # <<>>, NEW s \in Segments,
         s.entries = LastSegment.entries,
         LastSegment.synced <= s.synced, s.synced <= Len(s.entries)
  PROVE  /\ Sane(UpdateLast(s)) /\ Extends(UpdateLast(s), segments)
         /\ All(UpdateLast(s)) = All(segments)
<1>1. Sane(UpdateLast(s)) /\ Len(segments) \in DOMAIN segments
  BY LastProperties
<1>2. Extends(UpdateLast(s), segments)
  BY LastExtends
<1>3. All(segments) \subseteq All(UpdateLast(s))
  BY <1>2 DEF Extends
<1>4. ASSUME NEW e \in All(UpdateLast(s))
      PROVE  e \in All(segments)
  <2>1. e \in All(segments) \/ \E j \in DOMAIN s.entries : e = s.entries[j]
    BY LastAll
  <2> QED BY <2>1, <1>1, AllAre DEF LastSegment
<1> QED BY <1>1, <1>2, <1>3, <1>4

TornLast == [LastSegment EXCEPT !.torn = TRUE]
SyncedLast == [LastSegment EXCEPT !.synced = Len(LastSegment.entries)]
MendedLast == [LastSegment EXCEPT !.torn = FALSE, !.synced = Len(LastSegment.entries)]

LEMMA Marked ==
  ASSUME Sane(segments), segments # <<>>, NEW s \in {TornLast, SyncedLast, MendedLast}
  PROVE  /\ s \in Segments /\ s.entries = LastSegment.entries
         /\ LastSegment.synced <= s.synced /\ s.synced <= Len(s.entries)
         /\ Sane(UpdateLast(s)) /\ Extends(UpdateLast(s), segments)
         /\ All(UpdateLast(s)) = All(segments)
         /\ UpdateLast(s) # <<>> /\ Len(UpdateLast(s)) = Len(segments)
         /\ DOMAIN UpdateLast(s) = DOMAIN segments
         /\ UpdateLast(s)[Len(segments)] = s
         /\ \A i \in DOMAIN segments : i # Len(segments) => UpdateLast(s)[i] = segments[i]
<1>1. Len(segments) \in DOMAIN segments
  BY LastProperties, EmptyIsSegment
<1>2. LastSegment \in Segments /\ LastSegment.synced <= Len(LastSegment.entries)
      /\ LastSegment.synced \in Nat /\ Len(LastSegment.entries) \in Nat
  BY <1>1, SegmentTypes DEF LastSegment
<1>3. s \in Segments /\ s.entries = LastSegment.entries
      /\ LastSegment.synced <= s.synced /\ s.synced <= Len(s.entries)
  <2>1. CASE s = TornLast
    <3>1. s = [LastSegment EXCEPT !.torn = TRUE]
      BY <2>1 DEF TornLast
    <3>2. s.entries = LastSegment.entries /\ s.synced = LastSegment.synced
      BY <3>1, <1>2 DEF Segments
    <3>3. s \in Segments
      BY <3>1, <1>2, TRUE \in BOOLEAN, Zenon DEF Segments
    <3> QED BY <3>2, <3>3, <1>2
  <2>2. CASE s = SyncedLast
    BY <2>2, <1>2 DEF SyncedLast, Segments
  <2>3. CASE s = MendedLast
    <3>1. s = [[LastSegment EXCEPT !.torn = FALSE] EXCEPT !.synced = Len(LastSegment.entries)]
      BY <2>3 DEF MendedLast
    <3>2. s.entries = LastSegment.entries /\ s.synced = Len(LastSegment.entries)
      BY <3>1, <1>2 DEF Segments
    <3>3. s \in Segments
      BY <3>1, <1>2 DEF Segments
    <3> QED BY <3>2, <3>3, <1>2
  <2> QED BY <2>1, <2>2, <2>3
<1> HIDE DEF TornLast, SyncedLast, MendedLast
<1> QED BY <1>3, MarkProperties, LastProperties

\* The fsync covers the whole of the last segment.
LEMMA SyncStands ==
  ASSUME Sane(segments), segments # <<>>, LastSegment.entries # <<>>
  PROVE  LastSegment.entries[Len(LastSegment.entries)] \in Lasting(UpdateLast(SyncedLast))
<1>1. /\ SyncedLast \in Segments /\ SyncedLast.entries = LastSegment.entries
      /\ UpdateLast(SyncedLast)[Len(segments)] = SyncedLast
      /\ DOMAIN UpdateLast(SyncedLast) = DOMAIN segments
  BY Marked
<1>2. Len(segments) \in DOMAIN segments
  BY LastProperties, EmptyIsSegment
<1>3. LastSegment \in Segments
  BY <1>2, SegmentTypes DEF LastSegment
<1>4. LastSegment.entries \in Seq(Rows \cup {Glued})
  BY <1>3 DEF Segments
<1>5. Len(LastSegment.entries) \in Nat /\ Len(LastSegment.entries) # 0
  BY <1>4, EmptySeq, LenProperties
<1>6. SyncedLast.synced = Len(LastSegment.entries)
  BY <1>3 DEF SyncedLast, Segments
<1>7. Standing(SyncedLast) = Len(LastSegment.entries)
  BY <1>1, <1>6 DEF Standing
<1>8. Len(LastSegment.entries) \in 1 .. Standing(SyncedLast)
  BY <1>5, <1>7
<1> DEFINE segs == UpdateLast(SyncedLast)
           i == Len(segments)
           j == Len(LastSegment.entries)
<1>9. i \in DOMAIN segs /\ j \in 1 .. Standing(segs[i])
      /\ LastSegment.entries[j] = segs[i].entries[j]
  BY <1>1, <1>2, <1>8
<1> HIDE DEF segs, i
<1>10. LastSegment.entries[j] \in Lasting(segs)
  BY <1>9, LastingAre
<1> QED BY <1>10 DEF segs

\* A segment after the machine died: a prefix, with all that was fsynced.
LEMMA CutProperties ==
  ASSUME NEW s \in Segments, s.synced <= Len(s.entries),
         NEW n \in s.synced .. Len(s.entries), NEW torn \in BOOLEAN,
         NEW cut, cut = Cut(s, n, torn)
  PROVE  /\ cut \in Segments /\ cut.synced = Len(cut.entries)
         /\ s.synced <= cut.synced /\ cut.synced <= Len(s.entries)
         /\ \A j \in DOMAIN cut.entries : cut.entries[j] = s.entries[j]
<1>2. s.entries \in Seq(Rows \cup {Glued}) /\ s.synced \in Nat /\ Len(s.entries) \in Nat
      /\ n \in Nat /\ s.synced <= n /\ n <= Len(s.entries)
  BY LenProperties DEF Segments
<1>3. 1 \in 1 .. Len(s.entries) + 1 /\ n \in 0 .. Len(s.entries)
  BY <1>2
<1>4. /\ SubSeq(s.entries, 1, n) \in Seq(Rows \cup {Glued})
      /\ Len(SubSeq(s.entries, 1, n)) = n
      /\ \A j \in 1 .. n : SubSeq(s.entries, 1, n)[j] = s.entries[j]
  BY <1>2, <1>3
<1>5. cut = [[[s EXCEPT !.entries = SubSeq(s.entries, 1, n)] EXCEPT !.torn = torn] EXCEPT !.synced = n]
  BY DEF Cut
<1>6. cut.entries = SubSeq(s.entries, 1, n) /\ cut.synced = n
  BY <1>5 DEF Segments
<1>7. cut \in Segments
  <2>1. [s EXCEPT !.entries = SubSeq(s.entries, 1, n)] \in Segments
    BY <1>4 DEF Segments
  <2>2. [[s EXCEPT !.entries = SubSeq(s.entries, 1, n)] EXCEPT !.torn = torn] \in Segments
    BY <2>1 DEF Segments
  <2> QED BY <2>2, <1>2, <1>5 DEF Segments
<1>8. DOMAIN cut.entries = 1 .. n
  BY <1>4, <1>6, LenProperties
<1> QED BY <1>2, <1>4, <1>6, <1>7, <1>8

\* The archive after the machine died.
LEMMA PowerProperties ==
  ASSUME Sane(segments), NEW S, NEW segs \in [DOMAIN segments -> S], "power" \in Faults,
         \A i \in DOMAIN segments :
           \E n \in segments[i].synced .. Len(segments[i].entries), torn \in BOOLEAN :
             segs[i] = Cut(segments[i], n, torn)
  PROVE  /\ Sane(segs) /\ DOMAIN segs = DOMAIN segments
         /\ All(segs) \subseteq All(segments)
         /\ Lasting(segments) \subseteq Lasting(segs)
         /\ \A i \in DOMAIN segs : segs[i].synced = Len(segs[i].entries)
<1>1. DOMAIN segs = DOMAIN segments
  OBVIOUS
<1>2. ASSUME NEW i \in DOMAIN segments
      PROVE  /\ segs[i] \in Segments /\ segs[i].synced = Len(segs[i].entries)
             /\ segments[i].synced <= segs[i].synced /\ segs[i].synced <= Len(segments[i].entries)
             /\ \A j \in DOMAIN segs[i].entries : segs[i].entries[j] = segments[i].entries[j]
  <2>1. segments[i] \in Segments /\ segments[i].synced <= Len(segments[i].entries)
    BY SegmentTypes
  <2>2. PICK n \in segments[i].synced .. Len(segments[i].entries), torn \in BOOLEAN :
          segs[i] = Cut(segments[i], n, torn)
    OBVIOUS
  <2> QED BY <2>1, <2>2, CutProperties
<1>3. segs \in Seq(Segments)
  <2>1. DOMAIN segments = 1 .. Len(segments) /\ Len(segments) \in Nat
    BY LenProperties DEF Sane
  <2>2. segs \in [1 .. Len(segments) -> Segments]
    BY <2>1, <1>1, <1>2
  <2> QED BY <2>1, <2>2, IsASeq
<1>4. ASSUME NEW i \in DOMAIN segments
      PROVE  segs[i].synced \in Nat /\ segments[i].synced \in Nat
             /\ Len(segments[i].entries) \in Nat
             /\ DOMAIN segs[i].entries = 1 .. segs[i].synced
             /\ DOMAIN segments[i].entries = 1 .. Len(segments[i].entries)
  <2>1. segments[i].synced \in Nat /\ Len(segments[i].entries) \in Nat
        /\ DOMAIN segments[i].entries = 1 .. Len(segments[i].entries)
    BY SegmentTypes
  <2>2. segs[i].entries \in Seq(Rows \cup {Glued}) /\ segs[i].synced \in Nat
    BY <1>2 DEF Segments
  <2>3. DOMAIN segs[i].entries = 1 .. Len(segs[i].entries)
    BY <2>2, LenProperties
  <2>4. segs[i].synced = Len(segs[i].entries)
    BY <1>2
  <2> QED BY <2>1, <2>2, <2>3, <2>4
<1>5. Sane(segs)
  <2>1. \A i \in DOMAIN segs : segs[i].synced <= Len(segs[i].entries)
    BY <1>1, <1>2, <1>4
  <2> QED BY <2>1, <1>3 DEF Sane
<1>6. ASSUME NEW e \in All(segs)
      PROVE  e \in All(segments)
  <2>1. PICK i \in DOMAIN segs : \E j \in DOMAIN segs[i].entries : e = segs[i].entries[j]
    BY AllAre
  <2>2. PICK j \in DOMAIN segs[i].entries : e = segs[i].entries[j]
    BY <2>1
  <2>3. j \in DOMAIN segments[i].entries /\ e = segments[i].entries[j]
    BY <2>2, <1>1, <1>2, <1>4
  <2> QED BY <2>3, <1>1, AllAre
<1>7. ASSUME NEW e \in Lasting(segments)
      PROVE  e \in Lasting(segs)
  <2>1. PICK i \in DOMAIN segments : \E j \in 1 .. Standing(segments[i]) : e = segments[i].entries[j]
    BY LastingAre
  <2>2. PICK j \in 1 .. segments[i].synced : e = segments[i].entries[j]
    BY <2>1 DEF Standing
  <2>3. j \in 1 .. segs[i].synced /\ e = segs[i].entries[j]
    BY <2>2, <1>2, <1>4
  <2>4. j \in 1 .. Standing(segs[i]) /\ i \in DOMAIN segs
    BY <2>3, <1>1 DEF Standing
  <2> QED BY <2>3, <2>4, LastingAre
<1> QED BY <1>1, <1>2, <1>5, <1>6, <1>7

\* What a restart removes is no entry.
LEMMA QuarantinedProperties ==
  ASSUME Sane(segments), segments # <<>>
  PROVE  /\ Sane(Quarantined) /\ Extends(Quarantined, segments)
         /\ All(Quarantined) = All(segments) /\ Quarantined # <<>>
         /\ DOMAIN Quarantined = DOMAIN segments /\ Len(Quarantined) = Len(segments)
         /\ \A i \in DOMAIN segments : i # Len(segments) => Quarantined[i] = segments[i]
         /\ ~Quarantined[Len(segments)].torn
         /\ Quarantined[Len(segments)].synced = segments[Len(segments)].synced
            \/ Quarantined[Len(segments)].synced = Len(Quarantined[Len(segments)].entries)
<1>1. CASE LastSegment.torn
  <2>1. Quarantined = UpdateLast(MendedLast)
    BY <1>1 DEF Quarantined, MendedLast
  <2>2. MendedLast \in {TornLast, SyncedLast, MendedLast}
    OBVIOUS
  <2>3. Len(segments) \in DOMAIN segments
    BY LastProperties, EmptyIsSegment
  <2>4. LastSegment \in Segments
    BY <2>3, SegmentTypes DEF LastSegment
  <2>5. MendedLast = [[LastSegment EXCEPT !.torn = FALSE] EXCEPT !.synced = Len(LastSegment.entries)]
    BY DEF MendedLast
  <2>6. MendedLast.synced = Len(LastSegment.entries) /\ MendedLast.entries = LastSegment.entries
    BY <2>4, <2>5 DEF Segments
  <2>7. ~MendedLast.torn
    BY <2>4, <2>5, Zenon DEF Segments
  <2>8. UpdateLast(MendedLast)[Len(segments)] = MendedLast
    BY <2>2, Marked
  <2> QED BY <2>1, <2>2, <2>6, <2>7, <2>8, Marked
<1>2. CASE ~LastSegment.torn
  <2>1. Quarantined = segments
    BY <1>2 DEF Quarantined
  <2>2. Extends(segments, segments)
    BY DEF Extends
  <2> QED BY <2>1, <2>2, <1>2 DEF LastSegment
<1> QED BY <1>1, <1>2

-----------------------------------------------------------------------------
(***************************************************************************)
(* Types, and the process step by step.                                    *)
(***************************************************************************)

BaseInv == Typed /\ StepInv /\ TurnsBounded

LEMMA TypedIsSane == ASSUME Typed PROVE Sane(segments)
BY DEF Typed, Sane

Steps == {"ensured", "written", "archived", "indexed"}

\* The append in progress is one of two records.
LEMMA AppendShape ==
  ASSUME append \in {Idle} \cup [step : Steps, row : Rows]
  PROVE  /\ append = Idle <=> append.step = "idle"
         /\ append.step \in Steps \cup {"idle"}
         /\ append # Idle => append.step \in Steps /\ append.row \in Rows
         /\ \A s \in Steps : append # Idle => [append EXCEPT !.step = s] = Doing(s, append.row)
<1>1. Idle.step = "idle"
  BY DEF Idle
<1>2. CASE append = Idle
  BY <1>1, <1>2 DEF Steps
<1>3. CASE append \in [step : Steps, row : Rows]
  <2>1. append.step \in Steps /\ append.row \in Rows /\ append.step # "idle"
    BY <1>3 DEF Steps
  <2>2. \A s \in Steps : [append EXCEPT !.step = s] = [step |-> s, row |-> append.row]
    BY <1>3
  <2> QED BY <2>1, <2>2, <1>1 DEF Doing
<1> QED BY <1>2, <1>3

LEMMA DoingShape ==
  ASSUME NEW s \in Steps, NEW row \in Rows
  PROVE  /\ Doing(s, row) \in [step : Steps, row : Rows]
         /\ Doing(s, row).step = s /\ Doing(s, row).row = row
         /\ Doing(s, row) # Idle
<1>1. Doing(s, row).step = s /\ Idle.step = "idle" /\ s # "idle"
  BY DEF Doing, Idle, Steps
<1>2. Doing(s, row).row = row /\ Doing(s, row) \in [step : Steps, row : Rows]
  BY DEF Doing
<1> QED BY <1>1, <1>2

\* What every step does to the segments: what stands still stands, and only a
\* write adds an entry.
LEMMA SegmentsStep ==
  ASSUME BaseInv, [Next]_vars
  PROVE  /\ Sane(segments')
         /\ Lasting(segments) \subseteq Lasting(segments')
         /\ \A e \in All(segments') : e \in All(segments) \/ (WriteRecord /\ e = Entry(append.row))
<1>1. Sane(segments)
  BY TypedIsSane DEF BaseInv
<1>2. append \in {Idle} \cup [step : Steps, row : Rows]
  BY DEF BaseInv, Typed, Steps
<1>3. append # Idle => segments # <<>> /\ append.row \in Rows
  BY <1>2, AppendShape DEF BaseInv, StepInv
<1>4. append.step \in Steps => append # Idle
  BY <1>2, AppendShape DEF Steps
<1>5. CASE segments' = segments
  BY <1>1, <1>5
<1>6. CASE segments' = WithRoom
  BY <1>1, <1>6, RoomProperties DEF Extends
<1>7. CASE WriteRecord
  <2>1. append # Idle /\ segments' = UpdateLast(Written(LastSegment, append.row))
    BY <1>7, <1>4 DEF WriteRecord, Steps
  <2> QED BY <2>1, <1>1, <1>3, <1>7, WriteProperties DEF Extends
<1>8. CASE append # Idle /\ \E s \in {TornLast, SyncedLast} : segments' = UpdateLast(s)
  <2>1. PICK s \in {TornLast, SyncedLast} : segments' = UpdateLast(s)
    BY <1>8
  <2>2. /\ Sane(UpdateLast(s)) /\ Extends(UpdateLast(s), segments)
        /\ All(UpdateLast(s)) = All(segments)
    BY <1>8, <1>1, <1>3, Marked
  <2> QED BY <2>1, <2>2 DEF Extends
<1>9. CASE OpenSegments
  <2>1. segments # <<>> /\ segments' = Quarantined
    BY <1>9 DEF OpenSegments
  <2> QED BY <2>1, <1>1, QuarantinedProperties DEF Extends
<1>10. CASE PowerLoss
  <2> DEFINE writing(i) == append.step = "ensured" /\ i = Len(segments)
  <2>1. /\ "power" \in Faults
        /\ segments' \in [DOMAIN segments ->
                            UNION {Survivors(segments[i], writing(i)) : i \in DOMAIN segments}]
        /\ \A i \in DOMAIN segments : segments'[i] \in Survivors(segments[i], writing(i))
    BY <1>10 DEF PowerLoss
  <2>3. ASSUME NEW i \in DOMAIN segments
        PROVE  \E n \in segments[i].synced .. Len(segments[i].entries), torn \in BOOLEAN :
                 segments'[i] = Cut(segments[i], n, torn)
    <3> HIDE DEF writing
    <3>1. segments'[i] \in Survivors(segments[i], writing(i))
      BY <2>1
    <3> QED BY <3>1 DEF Survivors
  <2> HIDE DEF writing
  <2>2. /\ Sane(segments') /\ All(segments') \subseteq All(segments)
        /\ Lasting(segments) \subseteq Lasting(segments')
    BY <2>1, <2>3, <1>1, PowerProperties
  <2> QED BY <2>2
<1>11. CASE WriteFails \/ Kill \/ SyncRecord
  <2>1. append.step \in {"ensured", "written"} \/ segments' = segments
    BY <1>11 DEF WriteFails, Kill, SyncRecord
  <2>2. segments' \in {segments, UpdateLast(TornLast), UpdateLast(SyncedLast)}
    BY <1>11 DEF WriteFails, Kill, SyncRecord, TornLast, SyncedLast
  <2>3. append.step \in {"ensured", "written"} => append # Idle
    BY <1>4 DEF Steps
  <2> QED BY <2>1, <2>2, <2>3, <1>5, <1>8
<1>12. CASE Next
  BY <1>12, <1>5, <1>6, <1>7, <1>9, <1>10, <1>11
     DEF Next, Replayed, Insert, SyncFails, UpsertMessage, UpsertFails, Answer, OpenLegacy,
         Migrate, Migrated, Serve, Refuse, Close
<1>13. CASE UNCHANGED vars
  BY <1>13, <1>5 DEF vars
<1> QED BY <1>12, <1>13

-----------------------------------------------------------------------------
(***************************************************************************)
(* What opening the segments reads.                                        *)
(***************************************************************************)

LEMMA PositionsAre ==
  \A p : p \in Positions <=>
    p = <<p[1], p[2]>> /\ p[1] \in DOMAIN segments /\ p[2] \in DOMAIN segments[p[1]].entries
BY DEF Positions

LEMMA PositionsFinite ==
  ASSUME Sane(segments)
  PROVE  IsFiniteSet(Positions)
<1> DEFINE S == DOMAIN segments
           part == [i \in S |-> {i} \X DOMAIN segments[i].entries]
           T == {part[i] : i \in S}
<1>1. S = 1 .. Len(segments) /\ Len(segments) \in Nat
  BY LenProperties DEF Sane
<1>2. IsFiniteSet(S)
  BY <1>1, FS_Interval
<1>3. part \in Surjection(S, T)
  BY DEF Surjection
<1>4. IsFiniteSet(T)
  <2> HIDE DEF part, T, S
  <2> QED BY <1>2, <1>3, FS_Surjection
<1>5. ASSUME NEW i \in S
      PROVE  IsFiniteSet(part[i])
  <2>1. DOMAIN segments[i].entries = 1 .. Len(segments[i].entries)
        /\ Len(segments[i].entries) \in Nat
    BY <1>5, SegmentTypes
  <2>2. IsFiniteSet(DOMAIN segments[i].entries)
    BY <2>1, FS_Interval
  <2>3. IsFiniteSet({i})
    BY FS_Singleton
  <2>4. IsFiniteSet({i} \X DOMAIN segments[i].entries)
    BY <2>2, <2>3, FS_Product
  <2> QED BY <2>4, <1>5
<1>6. \A U \in T : IsFiniteSet(U)
  <2> HIDE DEF part, S
  <2> QED BY <1>5
<1>7. Positions = UNION T
  BY DEF Positions
<1> HIDE DEF T
<1> QED BY <1>4, <1>6, <1>7, FS_UNION

\* There is a last entry: of the last segment that has any.
LEMMA LastExists ==
  ASSUME Sane(segments), Positions # {}
  PROVE  \E p \in Positions : IsLast(p)
<1> DEFINE S == {i \in DOMAIN segments : segments[i].entries # <<>>}
<1>1. DOMAIN segments = 1 .. Len(segments) /\ Len(segments) \in Nat
  BY LenProperties DEF Sane
<1>2. S \subseteq Nat /\ \A i \in S : i <= Len(segments)
  BY <1>1
<1>3. ASSUME NEW q \in Positions
      PROVE  q[1] \in S /\ q[2] \in DOMAIN segments[q[1]].entries
  BY PositionsAre
<1>4. S # {}
  BY <1>3
<1>5. PICK k \in S : \A i \in S : i <= k
  <2> HIDE DEF S
  <2> QED BY <1>1, <1>2, <1>4, GreatestExists
<1> DEFINE n == Len(segments[k].entries)
<1>6. n \in Nat /\ DOMAIN segments[k].entries = 1 .. n /\ n # 0
  <2>1. segments[k].entries \in Seq(Rows \cup {Glued})
    BY SegmentTypes
  <2> QED BY <2>1, LenProperties, EmptySeq
<1>7. n \in 1 .. n
  BY <1>6
<1>8. <<k, n>> \in Positions
  BY <1>6, <1>7, PositionsAre
<1>9. ASSUME NEW q \in Positions
      PROVE  ~Before(<<k, n>>, q)
  <2>1. q[1] <= k /\ q[1] \in Nat /\ k \in Nat
    BY <1>2, <1>3, <1>5
  <2>2. q[1] = k => q[2] <= n /\ q[2] \in Nat
    BY <1>3, <1>6
  <2> QED BY <2>1, <2>2, <1>6 DEF Before
<1> QED BY <1>8, <1>9 DEF IsLast

\* The three counters that are read back are counters.
LEMMA ReadTypes ==
  ASSUME BaseInv, Glued \notin Journal
  PROVE  /\ Journal \subseteq Rows
         /\ ReadSeq \in Nat /\ ReadTurn \in Nat /\ ReadID \in RowIDs \cup {NoID}
<1>1. Sane(segments)
  BY TypedIsSane DEF BaseInv
<1>2. Journal \subseteq Rows
  BY <1>1, AllTypes, JournalIsAll
<1>3. ReadSeq \in Nat
  BY <1>1, PositionsFinite, FS_CardinalityType DEF ReadSeq
<1>4. ASSUME NEW p \in Positions
      PROVE  At(p) \in Rows /\ At(p) \in Journal /\ At(p).id \in RowIDs
  <2>1. At(p) \in Rows /\ At(p) \in Journal
    BY <1>2 DEF Journal
  <2> QED BY <2>1 DEF Rows
<1>5. ReadID \in RowIDs \cup {NoID}
  <2>1. CASE Positions = {}
    BY <2>1 DEF ReadID
  <2>2. CASE Positions # {}
    <3>1. \E p \in Positions : IsLast(p)
      BY <1>1, <2>2, LastExists
    <3>2. (CHOOSE p \in Positions : IsLast(p)) \in Positions
      BY <3>1
    <3> QED BY <2>2, <3>2, <1>4 DEF ReadID
  <2> QED BY <2>1, <2>2
<1>6. ReadTurn \in Nat
  <2>1. CASE Positions = {}
    BY <2>1 DEF ReadTurn
  <2>2. CASE Positions # {}
    <3> DEFINE S == {r.turn : r \in Journal}
    <3>1. S \subseteq Nat
      <4>1. \A r \in Journal : r.turn \in Nat
        BY <1>2 DEF Rows
      <4> QED BY <4>1
    <3>2. S # {}
      BY <2>2 DEF Journal
    <3>3. PICK b \in Nat : \A r \in All(segments) : r # Glued => r.turn <= b
      BY DEF BaseInv, TurnsBounded
    <3>4. \A t \in S : t <= b
      BY <3>3, JournalIsAll
    <3>5. \E t \in S : \A u \in S : u <= t
      <4> HIDE DEF S
      <4> QED BY <3>1, <3>2, <3>4, GreatestExists
    <3>6. PICK t \in S : \A r \in Journal : r.turn <= t
      BY <3>5
    <3>7. (CHOOSE u \in S : \A r \in Journal : r.turn <= u) \in S
      <4> HIDE DEF S
      <4> QED BY <3>6
    <3> QED BY <2>2, <3>1, <3>7 DEF ReadTurn
  <2> QED BY <2>1, <2>2
<1> QED BY <1>2, <1>3, <1>5, <1>6

-----------------------------------------------------------------------------
(***************************************************************************)
(* The types are kept by every step, whatever fails.                       *)
(***************************************************************************)

LEMMA LegacyTypes ==
  /\ LegacyRows \subseteq Rows
  /\ \A i \in DOMAIN Legacy :
       /\ Numbered(i) \in Rows
       /\ Numbered(i).id = Legacy[i].id /\ Numbered(i).message = Legacy[i].message
  /\ DOMAIN Legacy # {} => Len(Legacy) \in DOMAIN Legacy
  /\ Len(Legacy) \in Nat
<1>1. Legacy \in Seq([id : RowIDs, message : Messages])
  BY LegacyAssumption
<1>2. DOMAIN Legacy = 1 .. Len(Legacy) /\ Len(Legacy) \in Nat
  BY <1>1, LenProperties
<1>3. ASSUME NEW i \in DOMAIN Legacy
      PROVE  Legacy[i].id \in RowIDs /\ Legacy[i].message \in Messages
  <2>1. Legacy[i] \in [id : RowIDs, message : Messages]
    BY <1>1, <1>2, ElementOfSeq
  <2> QED BY <2>1
<1>4. LegacyRows \subseteq Rows
  BY <1>3 DEF LegacyRows, Rows
<1>5. ASSUME NEW i \in DOMAIN Legacy
      PROVE  /\ Numbered(i) \in Rows
             /\ Numbered(i).id = Legacy[i].id /\ Numbered(i).message = Legacy[i].message
  <2> DEFINE users == {j \in 1 .. i : Legacy[j].message.user}
  <2>1. i \in Nat /\ IsFiniteSet(1 .. i)
    BY <1>2, FS_Interval
  <2>2. users \in SUBSET (1 .. i)
    OBVIOUS
  <2>3. Cardinality(users) \in Nat
    <3> HIDE DEF users
    <3> QED BY <2>1, <2>2, FS_Subset, FS_CardinalityType
  <2>4. Numbered(i) = [id |-> Legacy[i].id, message |-> Legacy[i].message, seq |-> i,
                       turn |-> Cardinality(users), prev |-> NoID]
    BY DEF Numbered
  <2> HIDE DEF users
  <2> QED BY <1>3, <2>1, <2>3, <2>4 DEF Rows
<1>6. DOMAIN Legacy # {} => Len(Legacy) \in DOMAIN Legacy
  BY <1>2
<1> QED BY <1>2, <1>4, <1>5, <1>6

\* The archive before its first step.
LEMMA InitBase == Init => BaseInv
<1> SUFFICES ASSUME Init PROVE BaseInv
  OBVIOUS
<1>1. segments = <<>> /\ append = Idle /\ Idle.step = "idle"
  BY DEF Init, Idle
<1>2. file \subseteq Rows /\ messages \subseteq Rows
  BY LegacyTypes DEF Init
<1>3. Start \in {"fresh", "upgraded", "imported"}
  BY ArchiveAssumption
<1>4. Typed
  BY <1>1, <1>2 DEF Init, Typed
<1>5. StepInv
  BY <1>1, <1>3 DEF Init, StepInv, Stopped
<1>6. All(segments) = {}
  BY <1>1, AllAre
<1>7. TurnsBounded
  BY <1>6 DEF TurnsBounded
<1> QED BY <1>4, <1>5, <1>7 DEF BaseInv

LEMMA EndedTypes ==
  ASSUME BaseInv, Sane(segments'), Ended, file' \subseteq Rows
  PROVE  Typed' /\ StepInv'
<1>1. Idle.step = "idle"
  BY DEF Idle
<1>2. Typed'
  BY DEF BaseInv, Typed, Sane, Ended, Emptied
<1>3. StepInv'
  BY <1>1 DEF StepInv, Ended, Emptied, Stopped
<1> QED BY <1>2, <1>3

LEMMA AppendFailedTypes ==
  ASSUME BaseInv, Sane(segments'), append # Idle, AppendFailed, file' = file
  PROVE  Typed' /\ StepInv'
<1>1. file' \subseteq Rows
  BY DEF BaseInv, Typed
<1>2. CASE phase # "up"
  BY <1>1, <1>2, EndedTypes DEF AppendFailed
<1>3. CASE phase = "up"
  <2>1. Undone
    BY <1>3 DEF AppendFailed
  <2>2. messageSeq \in Nat /\ turnSeq \in Nat /\ messageSeq > 0
        /\ (append.row.message.user => turnSeq > 0)
    BY <1>3 DEF BaseInv, Typed, StepInv
  <2>3. messageSeq' \in Nat
    BY <2>1, <2>2 DEF Undone
  <2>4. turnSeq' \in Nat
    <3>1. CASE append.row.message.user
      BY <3>1, <2>1, <2>2 DEF Undone
    <3>2. CASE ~append.row.message.user
      BY <3>2, <2>1, <2>2 DEF Undone
    <3> QED BY <3>1, <3>2
  <2>5. Idle.step = "idle"
    BY DEF Idle
  <2>6. Typed'
    BY <2>1, <2>3, <2>4, <1>1 DEF Undone, BaseInv, Typed, Sane
  <2>7. StepInv'
    BY <2>1, <2>5, <1>3 DEF Undone, StepInv, Stopped
  <2> QED BY <2>6, <2>7
<1> QED BY <1>2, <1>3

LEMMA NewRowTypes ==
  ASSUME BaseInv, NEW m \in Messages, NEW id \in RowIDs
  PROVE  /\ NewRow(m, id) \in Rows
         /\ NewRow(m, id).id = id /\ NewRow(m, id).message = m
         /\ NewRow(m, id).seq = messageSeq + 1 /\ NewRow(m, id).turn = Turn(m)
         /\ NewRow(m, id).prev = lastID
         /\ messageSeq + 1 \in Nat /\ messageSeq + 1 > 0
         /\ Turn(m) \in Nat /\ (m.user => Turn(m) > 0)
<1>1. m.user \in BOOLEAN
  BY ArchiveAssumption
<1>2. messageSeq \in Nat /\ turnSeq \in Nat /\ lastID \in RowIDs \cup {NoID}
  BY DEF BaseInv, Typed
<1>3. Turn(m) \in Nat /\ (m.user => Turn(m) > 0)
  <2>1. CASE m.user
    BY <2>1, <1>2 DEF Turn
  <2>2. CASE ~m.user
    BY <2>2, <1>2 DEF Turn
  <2> QED BY <2>1, <2>2
<1> QED BY <1>2, <1>3 DEF NewRow, Rows

LEMMA InsertTypes ==
  ASSUME BaseInv, Sane(segments'), NEW m \in Messages, Insert(m)
  PROVE  Typed' /\ StepInv'
<1>1. PICK id \in Fresh : append' = Doing("ensured", NewRow(m, id))
  BY DEF Insert
<1>2. id \in RowIDs
  BY DEF Fresh
<1>3. /\ NewRow(m, id) \in Rows /\ NewRow(m, id).message = m
      /\ NewRow(m, id).seq = messageSeq + 1 /\ NewRow(m, id).turn = Turn(m)
      /\ messageSeq + 1 \in Nat /\ messageSeq + 1 > 0
      /\ Turn(m) \in Nat /\ (m.user => Turn(m) > 0)
  BY <1>2, NewRowTypes
<1>4. /\ append' \in [step : Steps, row : Rows] /\ append'.step = "ensured"
      /\ append'.row = NewRow(m, id)
  BY <1>1, <1>3, DoingShape DEF Steps
<1>5. /\ phase = "up" /\ phase' = phase /\ UNCHANGED <<file, index, messages, lastID, told>>
      /\ messageSeq' = messageSeq + 1 /\ turnSeq' = Turn(m)
      /\ segments' # <<>>
  BY TypedIsSane, RoomProperties DEF Insert, Serving, BaseInv
<1>6. Typed'
  BY <1>3, <1>4, <1>5 DEF BaseInv, Typed, Sane, Steps
<1>7. StepInv'
  BY <1>3, <1>4, <1>5 DEF StepInv, Stopped
<1> QED BY <1>6, <1>7

LEMMA MigrateTypes ==
  ASSUME BaseInv, Sane(segments'), Migrate
  PROVE  /\ Typed' /\ StepInv'
         /\ \E r \in Unmigrated :
              /\ append'.row = [r EXCEPT !.prev = lastID] /\ append'.step = "ensured"
              /\ r \in messages /\ append'.row.id = r.id /\ append'.row.message = r.message
              /\ append' # Idle
<1>1. PICK r \in Unmigrated : append' = Doing("ensured", [r EXCEPT !.prev = lastID])
  BY DEF Migrate
<1>2. r \in Rows /\ r \in messages
  BY DEF Unmigrated, BaseInv, Typed
<1>3. [r EXCEPT !.prev = lastID] \in Rows
      /\ [r EXCEPT !.prev = lastID].id = r.id
      /\ [r EXCEPT !.prev = lastID].message = r.message
  BY <1>2 DEF BaseInv, Typed, Rows
<1>4. /\ append' \in [step : Steps, row : Rows] /\ append'.step = "ensured"
      /\ append'.row = [r EXCEPT !.prev = lastID] /\ append' # Idle
  BY <1>1, <1>3, DoingShape DEF Steps
<1>5. /\ phase = "migrating" /\ UNCHANGED <<file, index, messages, counters, phase, told>>
      /\ segments' # <<>>
  BY TypedIsSane, RoomProperties DEF Migrate, BaseInv
<1>6. Typed'
  BY <1>4, <1>5 DEF BaseInv, Typed, Sane, Steps, counters
<1>7. StepInv'
  BY <1>4, <1>5 DEF StepInv, Stopped
<1> QED BY <1>2, <1>3, <1>4, <1>6, <1>7

\* The append in progress moves on.
LEMMA MovedOn ==
  ASSUME BaseInv, append # Idle, NEW s \in Steps, append' = [append EXCEPT !.step = s]
  PROVE  /\ append' \in [step : Steps, row : Rows] /\ append' # Idle
         /\ append'.step = s /\ append'.row = append.row /\ append.row \in Rows
<1>1. append \in {Idle} \cup [step : Steps, row : Rows]
  BY DEF BaseInv, Typed, Steps
<1>2. append' = Doing(s, append.row) /\ append.row \in Rows
  BY <1>1, AppendShape
<1> QED BY <1>2, DoingShape

\* An action of an append finds one in progress.
LEMMA InProgress ==
  ASSUME BaseInv
  PROVE  /\ append.step \in Steps => append # Idle /\ append.row \in Rows /\ segments # <<>>
                                     /\ phase \in {"up", "migrating"}
         /\ append = Idle => append.step = "idle" /\ append.step \notin Steps
         /\ append.step \in Steps \cup {"idle"}
<1>1. append \in {Idle} \cup [step : Steps, row : Rows]
  BY DEF BaseInv, Typed, Steps
<1>2. "idle" \notin Steps
  BY DEF Steps
<1> QED BY <1>1, <1>2, AppendShape DEF BaseInv, StepInv

LEMMA WriteRecordTypes ==
  ASSUME BaseInv, Sane(segments'), WriteRecord
  PROVE  Typed' /\ StepInv'
<1>1. append # Idle /\ append.row \in Rows /\ segments # <<>> /\ append.step \in Steps
  BY InProgress DEF WriteRecord, Steps
<1>2. /\ append' \in [step : Steps, row : Rows] /\ append' # Idle
      /\ append'.step = "written" /\ append'.row = append.row
  BY <1>1, MovedOn DEF WriteRecord, Steps
<1>3. segments' = UpdateLast(Written(LastSegment, append.row))
      /\ UNCHANGED <<file, index, messages, counters, phase, told>>
  BY DEF WriteRecord
<1>4. /\ segments' # <<>>
      /\ segments'[Len(segments')].entries # <<>>
      /\ segments'[Len(segments')].entries[Len(segments'[Len(segments')].entries)] = Entry(append.row)
  BY <1>1, <1>3, TypedIsSane, WriteProperties DEF BaseInv
<1>5. Entry(append.row) \in {append.row, Glued}
  BY DEF Entry
<1>6. Typed'
  BY <1>2, <1>3 DEF BaseInv, Typed, Sane, Steps, counters
<1>7. LastSegment'.entries # <<>>
      /\ LastSegment'.entries[Len(LastSegment'.entries)] \in {append'.row, Glued}
  BY <1>2, <1>4, <1>5 DEF LastSegment
<1>8. phase \in {"up", "migrating"}
      /\ (phase = "up" => /\ messageSeq = append.row.seq /\ messageSeq > 0
                          /\ turnSeq = append.row.turn
                          /\ (append.row.message.user => turnSeq > 0))
  BY <1>1 DEF BaseInv, StepInv
<1>9. UNCHANGED <<messageSeq, turnSeq, phase, messages>>
  BY <1>3 DEF counters
<1> HIDE DEF LastSegment
<1>10. StepInv'
  BY <1>2, <1>4, <1>7, <1>8, <1>9 DEF StepInv, Stopped
<1> QED BY <1>6, <1>10

LEMMA SyncRecordTypes ==
  ASSUME BaseInv, Sane(segments'), SyncRecord
  PROVE  Typed' /\ StepInv'
<1>1. append # Idle /\ append.row \in Rows /\ append.step \in Steps
      /\ phase \in {"up", "migrating"}
  BY InProgress DEF SyncRecord, Steps
<1>2. append.row.id \in RowIDs
  BY <1>1 DEF Rows
<1>3. segments # <<>> /\ segments' = UpdateLast(SyncedLast)
  BY <1>1, InProgress DEF SyncRecord, SyncedLast
<1>4. segments' # <<>>
  BY <1>3, TypedIsSane, Marked DEF BaseInv
<1>5. messages' \subseteq Rows
  BY <1>1 DEF SyncRecord, BaseInv, Typed
<1>6. /\ lastID' \in RowIDs \cup {NoID}
      /\ UNCHANGED <<file, index, messageSeq, turnSeq, phase, told>>
  BY <1>2 DEF SyncRecord
<1>7. CASE phase = "up"
  <2>1. append' = [append EXCEPT !.step = "archived"]
    BY <1>7 DEF SyncRecord
  <2>2. /\ append' \in [step : Steps, row : Rows] /\ append' # Idle
        /\ append'.step = "archived" /\ append'.row = append.row
    BY <2>1, <1>1, MovedOn DEF Steps
  <2>3. Typed'
    BY <2>2, <1>5, <1>6 DEF BaseInv, Typed, Sane, Steps
  <2>4. messageSeq = append.row.seq /\ messageSeq > 0
        /\ turnSeq = append.row.turn /\ (append.row.message.user => turnSeq > 0)
    BY <1>1, <1>7 DEF BaseInv, StepInv
  <2>5. StepInv'
    BY <2>2, <2>4, <1>4, <1>6, <1>7 DEF StepInv, Stopped
  <2> QED BY <2>3, <2>5
<1>8. CASE phase # "up"
  <2>1. append' = Idle /\ Idle.step = "idle"
    BY <1>8 DEF SyncRecord, Idle
  <2>2. Typed'
    BY <2>1, <1>5, <1>6 DEF BaseInv, Typed, Sane
  <2>3. StepInv'
    BY <2>1, <1>1, <1>6 DEF StepInv, Stopped
  <2> QED BY <2>2, <2>3
<1> QED BY <1>7, <1>8

LEMMA UpsertMessageTypes ==
  ASSUME BaseInv, Sane(segments'), UpsertMessage
  PROVE  Typed' /\ StepInv'
<1>1. append # Idle /\ append.row \in Rows /\ phase = "up" /\ segments # <<>>
  BY InProgress DEF UpsertMessage, Steps, BaseInv, StepInv
<1>2. /\ append' \in [step : Steps, row : Rows] /\ append' # Idle
      /\ append'.step = "indexed" /\ append'.row = append.row
  BY <1>1, MovedOn DEF UpsertMessage, Steps
<1>3. index' = index \cup {append.row}
      /\ UNCHANGED <<segments, file, messages, messageSeq, turnSeq, lastID, phase, told>>
  BY DEF UpsertMessage, counters
<1>4. messageSeq = append.row.seq /\ messageSeq > 0
      /\ turnSeq = append.row.turn /\ (append.row.message.user => turnSeq > 0)
  BY <1>1 DEF BaseInv, StepInv
<1>5. Typed'
  BY <1>1, <1>2, <1>3 DEF BaseInv, Typed, Steps
<1>6. StepInv'
  BY <1>1, <1>2, <1>3, <1>4 DEF StepInv, Stopped
<1> QED BY <1>5, <1>6

LEMMA AnswerTypes ==
  ASSUME BaseInv, Sane(segments'), Answer \/ UpsertFails
  PROVE  Typed' /\ StepInv'
<1>1. append # Idle /\ append.row \in Rows /\ phase \in {"up", "migrating"}
  BY InProgress DEF Answer, UpsertFails, Steps
<1>2. append.row.id \in RowIDs /\ append.row.message \in Messages
  BY <1>1 DEF Rows
<1>3. append' = Idle /\ UNCHANGED <<segments, index, messages, messageSeq, turnSeq, lastID, phase>>
  BY DEF Answer, UpsertFails, counters
<1>4. file' \in {file, messages}
  BY DEF Answer, UpsertFails
<1>5. told' \subseteq [id : RowIDs, message : Messages]
  BY <1>2 DEF Answer, UpsertFails, BaseInv, Typed
<1>6. Typed'
  BY <1>3, <1>4, <1>5 DEF BaseInv, Typed
<1>7. Idle.step = "idle"
  BY DEF Idle
<1>8. StepInv'
  BY <1>1, <1>3, <1>7 DEF StepInv, Stopped
<1> QED BY <1>6, <1>8

\* A step that finds no append in progress and starts none.
LEMMA IdleSteps ==
  ASSUME BaseInv, append = Idle, append' = Idle, Stopped' => messages' = {}
  PROVE  StepInv'
<1>1. Idle.step = "idle"
  BY DEF Idle
<1> QED BY <1>1 DEF StepInv

LEMMA NotBusy ==
  ASSUME BaseInv, phase \notin {"up", "migrating"}
  PROVE  append = Idle
BY DEF BaseInv, StepInv

LEMMA OpenTypes ==
  ASSUME BaseInv, Sane(segments'), OpenSegments \/ OpenLegacy
  PROVE  Typed' /\ StepInv'
<1>1. append = Idle /\ append' = append
  BY NotBusy DEF OpenSegments, OpenLegacy, Stopped
<1>2. phase' \in {"indexing", "migrating"}
  BY DEF OpenSegments, OpenLegacy
<1>3. StepInv'
  BY <1>1, <1>2, IdleSteps DEF Stopped
<1>4. CASE OpenSegments
  <2>1. Glued \notin Journal
    BY <1>4 DEF OpenSegments, Readable, Chained
  <2>2. /\ Journal \subseteq Rows
        /\ ReadSeq \in Nat /\ ReadTurn \in Nat /\ ReadID \in RowIDs \cup {NoID}
    BY <2>1, ReadTypes
  <2>3. /\ messages' = Journal /\ messageSeq' = ReadSeq /\ turnSeq' = ReadTurn
        /\ lastID' = ReadID /\ UNCHANGED <<file, index, told>>
    BY <1>4 DEF OpenSegments
  <2> QED BY <1>1, <1>2, <1>3, <2>2, <2>3 DEF BaseInv, Typed, Sane
<1>5. CASE OpenLegacy
  <2> DEFINE kept == {i \in DOMAIN Legacy : Legacy[i].id \in IDs(file)}
  <2>1. UNCHANGED <<file, index, told>>
    BY <1>5 DEF OpenLegacy
  <2>2. CASE kept = {}
    <3>1. UNCHANGED <<messages, messageSeq, turnSeq, lastID>>
      BY <1>5, <2>2 DEF OpenLegacy, counters
    <3> QED BY <1>1, <1>2, <1>3, <2>1, <3>1 DEF BaseInv, Typed, Sane
  <2>3. CASE kept # {}
    <3>1. /\ messages' = {Numbered(i) : i \in kept} /\ messageSeq' = Len(Legacy)
          /\ turnSeq' = Numbered(Len(Legacy)).turn /\ lastID' = NoID
      BY <1>5, <2>3 DEF OpenLegacy
    <3>2. \A i \in DOMAIN Legacy : Numbered(i) \in Rows
      BY LegacyTypes
    <3>3. messages' \subseteq Rows
      BY <3>1, <3>2
    <3>4. Len(Legacy) \in DOMAIN Legacy /\ Len(Legacy) \in Nat
      BY <2>3, LegacyTypes
    <3>5. turnSeq' \in Nat
      BY <3>1, <3>2, <3>4 DEF Rows
    <3> HIDE DEF kept
    <3> QED BY <1>1, <1>2, <1>3, <2>1, <3>1, <3>3, <3>4, <3>5 DEF BaseInv, Typed, Sane
  <2> QED BY <2>2, <2>3
<1> QED BY <1>4, <1>5

LEMMA MigratedTypes ==
  ASSUME BaseInv, Sane(segments'), Migrated
  PROVE  Typed' /\ StepInv'
<1>1. append = Idle /\ file' \in {file, messages}
  BY DEF Migrated
<1>2. file' \subseteq Rows
  BY <1>1 DEF BaseInv, Typed
<1>3. CASE Ended
  BY <1>2, <1>3, EndedTypes
<1>4. CASE phase' = "indexing" /\ UNCHANGED <<index, messages, counters, append, told>>
  <2>1. StepInv'
    BY <1>1, <1>4, IdleSteps DEF Stopped
  <2> QED BY <2>1, <1>2, <1>4 DEF BaseInv, Typed, Sane, counters
<1> QED BY <1>3, <1>4 DEF Migrated

LEMMA ServeTypes ==
  ASSUME BaseInv, Sane(segments'), Serve \/ Refuse
  PROVE  Typed' /\ StepInv'
<1>1. append = Idle /\ append' = append
  BY NotBusy DEF Serve, Refuse, Stopped
<1>2. CASE Serve
  <2>1. StepInv'
    BY <1>1, <1>2, IdleSteps DEF Stopped, Serve
  <2> QED BY <2>1, <1>2 DEF BaseInv, Typed, Sane, counters, Serve
<1>3. CASE Refuse
  <2>1. StepInv'
    BY <1>1, <1>3, IdleSteps DEF Refuse, Emptied
  <2> QED BY <2>1, <1>3 DEF BaseInv, Typed, Sane, Refuse, Emptied
<1> QED BY <1>2, <1>3

LEMMA EndTypes ==
  ASSUME BaseInv, Sane(segments'), Close \/ Kill \/ PowerLoss
  PROVE  Typed' /\ StepInv'
<1>1. Ended
  BY DEF Close, Kill, PowerLoss
<1>2. file' \in {file, index, messages}
  BY DEF Close, Kill, PowerLoss
<1>3. file' \subseteq Rows
  BY <1>2 DEF BaseInv, Typed
<1> QED BY <1>1, <1>3, EndedTypes

LEMMA ReplayedTypes ==
  ASSUME BaseInv, Sane(segments'), NEW m \in Messages, Replayed(m)
  PROVE  Typed' /\ StepInv'
<1>1. PICK r \in index : r.message = m /\ told' = told \cup {[id |-> r.id, message |-> m]}
  BY DEF Replayed
<1>2. r.id \in RowIDs
  BY DEF BaseInv, Typed, Rows
<1>3. told' \subseteq [id : RowIDs, message : Messages]
  BY <1>1, <1>2 DEF BaseInv, Typed
<1>4. UNCHANGED <<segments, file, index, messages, messageSeq, turnSeq, lastID, phase, append>>
  BY DEF Replayed, counters
<1>5. Typed'
  BY <1>3, <1>4 DEF BaseInv, Typed
<1>6. StepInv'
  BY <1>4 DEF BaseInv, StepInv, Stopped, LastSegment
<1> QED BY <1>5, <1>6

LEMMA FailureTypes ==
  ASSUME BaseInv, Sane(segments'), WriteFails \/ SyncFails
  PROVE  Typed' /\ StepInv'
<1>1. append # Idle
  BY InProgress DEF WriteFails, SyncFails, Steps
<1>2. AppendFailed /\ file' = file
  BY DEF WriteFails, SyncFails
<1> QED BY <1>1, <1>2, AppendFailedTypes

LEMMA BaseStep == BaseInv /\ [Next]_vars => BaseInv'
<1> SUFFICES ASSUME BaseInv, [Next]_vars PROVE BaseInv'
  OBVIOUS
<1>1. /\ Sane(segments')
      /\ \A e \in All(segments') : e \in All(segments) \/ (WriteRecord /\ e = Entry(append.row))
  BY SegmentsStep
<1>2. TurnsBounded'
  <2>1. PICK b \in Nat : \A r \in All(segments) : r # Glued => r.turn <= b
    BY DEF BaseInv, TurnsBounded
  <2>2. CASE WriteRecord
    <3>1. append.row.turn \in Nat
      BY <2>2, InProgress DEF WriteRecord, Steps, Rows
    <3> DEFINE c == b + append.row.turn
    <3>2. c \in Nat /\ b <= c /\ append.row.turn <= c
      BY <3>1
    <3>3. \A r \in All(segments) : r # Glued => r.turn \in Nat
      BY TypedIsSane, AllTypes DEF BaseInv, Rows
    <3> HIDE DEF c
    <3>4. ASSUME NEW r \in All(segments'), r # Glued
          PROVE  r.turn <= c
      <4>1. r \in All(segments) \/ r = Entry(append.row)
        BY <1>1
      <4>2. CASE r \in All(segments)
        BY <4>2, <2>1, <3>2, <3>3, <3>4
      <4>3. CASE r = Entry(append.row)
        BY <4>3, <3>2, <3>4 DEF Entry
      <4> QED BY <4>1, <4>2, <4>3
    <3> QED BY <3>2, <3>4 DEF TurnsBounded
  <2>3. CASE ~WriteRecord
    <3>1. All(segments') \subseteq All(segments)
      BY <1>1, <2>3
    <3> QED BY <2>1, <3>1 DEF TurnsBounded
  <2> QED BY <2>2, <2>3
<1>3. CASE Next
  <2>1. Typed' /\ StepInv'
    BY <1>3, <1>1, InsertTypes, MigrateTypes, WriteRecordTypes, SyncRecordTypes,
       UpsertMessageTypes, AnswerTypes, OpenTypes, MigratedTypes, ServeTypes, EndTypes,
       ReplayedTypes, FailureTypes DEF Next
  <2> QED BY <2>1, <1>2 DEF BaseInv
<1>4. CASE UNCHANGED vars
  <2>1. Typed' /\ StepInv'
    BY <1>4 DEF vars, counters, BaseInv, Typed, StepInv, Stopped, LastSegment
  <2> QED BY <2>1, <1>2 DEF BaseInv
<1> QED BY <1>3, <1>4

\* Whatever fails and however the archive began, its state is well typed: the
\* counters that a failed append takes back (queries.go, InsertMessage) never
\* fall below zero, and no segment is fsynced further than it was written.
THEOREM ArchiveTypes == Spec => []TypeOK
<1>1. BaseInv => TypeOK
  <2> SUFFICES ASSUME BaseInv PROVE TypeOK
    OBVIOUS
  <2>1. /\ append.step \in {"idle", "ensured", "written", "archived", "indexed"}
        /\ append.step # "idle" => append.row \in Rows
    BY InProgress DEF Steps
  <2> QED BY <2>1 DEF BaseInv, Typed, TypeOK
<1> QED BY <1>1, InitBase, BaseStep, PTL DEF Spec

-----------------------------------------------------------------------------
(***************************************************************************)
(* Whole records, and how far the fsync is behind.                         *)
(***************************************************************************)

\* The steps that end the process leave it stopped.
LEMMA WholeStep ==
  ASSUME BaseInv, WholeInv, [Next]_vars
  PROVE  WholeInv'
<1> SUFFICES ASSUME "short" \notin Faults
             PROVE  /\ Glued \notin All(segments')
                    /\ ~Stopped' => \A i \in DOMAIN segments' : ~segments'[i].torn
  BY DEF WholeInv
<1>1. Glued \notin All(segments)
      /\ (~Stopped => \A i \in DOMAIN segments : ~segments[i].torn)
  BY DEF WholeInv
<1>2. Sane(segments)
  BY TypedIsSane DEF BaseInv
<1>3. \A e \in All(segments') : e \in All(segments) \/ (WriteRecord /\ e = Entry(append.row))
  BY SegmentsStep
<1>4. CASE WriteRecord
  <2>1. append.row \in Rows /\ segments # <<>> /\ phase \in {"up", "migrating"}
    BY <1>4, InProgress DEF WriteRecord, Steps
  <2>2. Len(segments) \in DOMAIN segments
    BY <2>1, <1>2, LastProperties, EmptyIsSegment
  <2>3. ~LastSegment.torn
    BY <2>1, <2>2, <1>1 DEF Stopped, LastSegment
  <2>4. Entry(append.row) # Glued
    BY <2>1, <2>3, GluedIsNoRow DEF Entry
  <2> DEFINE segs == UpdateLast(Written(LastSegment, append.row))
  <2>5. segments' = segs
    BY <1>4 DEF WriteRecord
  <2>6. /\ Len(segs) = Len(segments) /\ DOMAIN segs = DOMAIN segments
        /\ ~segs[Len(segs)].torn
        /\ \A i \in DOMAIN segments : i # Len(segments) => segs[i] = segments[i]
    BY <2>1, <1>2, WriteProperties
  <2> HIDE DEF segs
  <2>7. \A i \in DOMAIN segs : ~segs[i].torn
    BY <2>1, <2>6, <1>1 DEF Stopped
  <2> QED BY <2>4, <2>5, <2>7, <1>1, <1>3
<1>5. ASSUME ~WriteRecord
      PROVE  Glued \notin All(segments')
  BY <1>5, <1>1, <1>3
<1>6. CASE Stopped' /\ ~WriteRecord
  BY <1>5, <1>6
<1>7. CASE segments' = segments /\ (Stopped => segments = <<>>) /\ ~WriteRecord
  <2>1. \A i \in DOMAIN segments : ~segments[i].torn
    BY <1>1, <1>7
  <2> QED BY <2>1, <1>5, <1>7
<1>8. CASE segments' = WithRoom /\ ~Stopped /\ ~WriteRecord
  <2>1. \A i \in DOMAIN WithRoom : \/ i \in DOMAIN segments /\ WithRoom[i] = segments[i]
                                   \/ WithRoom[i] = EmptySegment
    BY <1>2, RoomProperties
  <2> QED BY <2>1, <1>1, <1>5, <1>8, EmptyIsSegment
<1>9. CASE SyncRecord /\ ~WriteRecord
  <2>1. segments # <<>> /\ phase \in {"up", "migrating"}
    BY <1>9, InProgress DEF SyncRecord, Steps
  <2>2. segments' = UpdateLast(SyncedLast)
    BY <1>9 DEF SyncRecord, SyncedLast
  <2>3. /\ DOMAIN UpdateLast(SyncedLast) = DOMAIN segments
        /\ UpdateLast(SyncedLast)[Len(segments)] = SyncedLast
        /\ \A i \in DOMAIN segments : i # Len(segments) => UpdateLast(SyncedLast)[i] = segments[i]
    BY <2>1, <1>2, Marked
  <2>4. Len(segments) \in DOMAIN segments
    BY <2>1, <1>2, LastProperties, EmptyIsSegment
  <2>5. LastSegment \in Segments /\ ~LastSegment.torn
    BY <2>1, <2>4, <1>1, <1>2, SegmentTypes DEF LastSegment, Stopped
  <2>6. SyncedLast.torn = LastSegment.torn
    BY <2>5 DEF SyncedLast, Segments
  <2>7. ~SyncedLast.torn
    BY <2>5, <2>6
  <2>8. \A i \in DOMAIN segments : ~UpdateLast(SyncedLast)[i].torn
    BY <2>1, <2>3, <2>7, <1>1 DEF Stopped
  <2> QED BY <2>2, <2>3, <2>8, <1>5, <1>9
<1>10. CASE OpenSegments /\ ~WriteRecord
  <2>1. segments # <<>> /\ segments' = Quarantined
        /\ \A i \in DOMAIN segments : segments[i].torn => i = Len(segments)
    BY <1>10 DEF OpenSegments, Readable
  <2>2. /\ DOMAIN Quarantined = DOMAIN segments
        /\ \A i \in DOMAIN segments : i # Len(segments) => Quarantined[i] = segments[i]
        /\ ~Quarantined[Len(segments)].torn
    BY <2>1, <1>2, QuarantinedProperties
  <2>3. \A i \in DOMAIN segments : ~Quarantined[i].torn
    BY <2>1, <2>2
  <2> QED BY <2>1, <2>2, <2>3, <1>5, <1>10
<1>11. CASE Next /\ ~WriteRecord
  <2>1. CASE Kill \/ PowerLoss \/ Close \/ Refuse
    <3>1. Stopped'
      BY <2>1 DEF Kill, PowerLoss, Close, Refuse, Ended, Stopped
    <3> QED BY <3>1, <1>6, <1>11
  <2>2. CASE SyncFails \/ WriteFails
    <3>1. phase \in {"up", "migrating"}
      BY <2>2, InProgress DEF SyncFails, WriteFails, Steps
    <3>2. segments' = segments
      BY <2>2 DEF SyncFails, WriteFails
    <3> QED BY <3>1, <3>2, <1>7, <1>11 DEF Stopped
  <2>3. CASE \/ \E m \in Messages : Replayed(m)
             \/ UpsertMessage \/ UpsertFails \/ Answer \/ OpenLegacy \/ Migrated \/ Serve
    <3>1. segments' = segments
      BY <2>3 DEF Replayed, UpsertMessage, UpsertFails, Answer, OpenLegacy, Migrated, Serve
    <3>2. CASE OpenLegacy
      BY <3>1, <3>2, <1>7, <1>11 DEF OpenLegacy
    <3>3. CASE UpsertMessage \/ UpsertFails \/ Answer
      <4>1. phase \in {"up", "migrating"}
        BY <3>3, InProgress DEF UpsertMessage, UpsertFails, Answer, Steps
      <4> QED BY <3>1, <4>1, <1>7, <1>11 DEF Stopped
    <3>4. CASE (\E m \in Messages : Replayed(m)) \/ Migrated \/ Serve
      <4>1. phase \in {"up", "migrating", "indexing"}
        BY <3>4 DEF Replayed, Serving, Migrated, Serve
      <4> QED BY <3>1, <4>1, <1>7, <1>11 DEF Stopped
    <3> QED BY <2>3, <3>2, <3>3, <3>4
  <2>4. CASE (\E m \in Messages : Insert(m)) \/ Migrate
    <3>1. segments' = WithRoom /\ phase \in {"up", "migrating"}
      BY <2>4 DEF Insert, Migrate, Serving
    <3> QED BY <3>1, <1>8, <1>11 DEF Stopped
  <2> QED BY <2>1, <2>2, <2>3, <2>4, <1>9, <1>10, <1>11 DEF Next
<1>12. CASE UNCHANGED vars
  BY <1>1, <1>12 DEF vars, Stopped
<1> QED BY <1>4, <1>11, <1>12

\* Once nothing is in progress, everything that can be read stands.
LEMMA AllStands ==
  ASSUME Sane(segments), SyncedInv, append.step # "written"
  PROVE  All(segments) = Lasting(segments)
<1>1. ASSUME NEW i \in DOMAIN segments
      PROVE  DOMAIN segments[i].entries = 1 .. Standing(segments[i])
  <2>1. DOMAIN segments[i].entries = 1 .. Len(segments[i].entries)
    BY SegmentTypes
  <2>2. "power" \in Faults => segments[i].synced = Len(segments[i].entries)
    BY DEF SyncedInv
  <2> QED BY <2>1, <2>2 DEF Standing
<1>2. ASSUME NEW e \in All(segments)
      PROVE  e \in Lasting(segments)
  <2>1. PICK i \in DOMAIN segments : \E j \in DOMAIN segments[i].entries : e = segments[i].entries[j]
    BY AllAre
  <2>2. \E j \in 1 .. Standing(segments[i]) : e = segments[i].entries[j]
    BY <2>1, <1>1
  <2> QED BY <2>2, LastingAre
<1> QED BY <1>2, LastingInAll

LEMMA SyncedStep ==
  ASSUME OneStorm, BaseInv, SyncedInv, [Next]_vars
  PROVE  SyncedInv'
<1> SUFFICES ASSUME "power" \in Faults, NEW i \in DOMAIN segments'
             PROVE  \/ segments'[i].synced = Len(segments'[i].entries)
                    \/ append'.step = "written" /\ i = Len(segments')
  BY DEF SyncedInv
<1> DEFINE OK == \/ segments'[i].synced = Len(segments'[i].entries)
                 \/ append'.step = "written" /\ i = Len(segments')
<1>1. \A k \in DOMAIN segments :
        \/ segments[k].synced = Len(segments[k].entries)
        \/ append.step = "written" /\ k = Len(segments)
  BY DEF SyncedInv
<1>2. Sane(segments) /\ "kill" \notin Faults /\ "sync" \notin Faults
  BY TypedIsSane DEF BaseInv, OneStorm
<1>3. CASE segments' = segments /\ append.step # "written"
  BY <1>1, <1>3
<1>4. CASE segments' = WithRoom /\ append.step # "written"
  <2>1. \/ i \in DOMAIN segments /\ WithRoom[i] = segments[i]
        \/ WithRoom[i] = EmptySegment
    BY <1>2, <1>4, RoomProperties
  <2> QED BY <2>1, <1>1, <1>4, EmptyIsSegment
<1>5. CASE WriteRecord
  <2>1. append # Idle /\ append.row \in Rows /\ segments # <<>> /\ append.step = "ensured"
    BY <1>5, InProgress DEF WriteRecord, Steps
  <2>2. append'.step = "written"
    BY <1>5, <2>1, MovedOn DEF WriteRecord, Steps
  <2> DEFINE segs == UpdateLast(Written(LastSegment, append.row))
  <2>3. segments' = segs
    BY <1>5 DEF WriteRecord
  <2>4. /\ Len(segs) = Len(segments) /\ DOMAIN segs = DOMAIN segments
        /\ \A k \in DOMAIN segments : k # Len(segments) => segs[k] = segments[k]
    BY <2>1, <1>2, WriteProperties
  <2> HIDE DEF segs
  <2> QED BY <2>1, <2>2, <2>3, <2>4, <1>1
<1>6. CASE \E s \in {SyncedLast, MendedLast} : segments' = UpdateLast(s) /\ segments # <<>>
  <2>1. PICK s \in {SyncedLast, MendedLast} : segments' = UpdateLast(s) /\ segments # <<>>
    BY <1>6
  <2>2. /\ DOMAIN UpdateLast(s) = DOMAIN segments /\ s.entries = LastSegment.entries
        /\ UpdateLast(s)[Len(segments)] = s
        /\ \A k \in DOMAIN segments : k # Len(segments) => UpdateLast(s)[k] = segments[k]
    BY <2>1, <1>2, Marked
  <2>3. Len(segments) \in DOMAIN segments
    BY <2>1, <1>2, LastProperties, EmptyIsSegment
  <2>4. LastSegment \in Segments
    BY <2>3, <1>2, SegmentTypes DEF LastSegment
  <2>5. s.synced = Len(LastSegment.entries)
    <3>1. CASE s = SyncedLast
      BY <3>1, <2>4 DEF SyncedLast, Segments
    <3>2. CASE s = MendedLast
      <4>1. s = [[LastSegment EXCEPT !.torn = FALSE] EXCEPT !.synced = Len(LastSegment.entries)]
        BY <3>2 DEF MendedLast
      <4> QED BY <4>1, <2>4 DEF Segments
    <3> QED BY <2>1, <3>1, <3>2
  <2> QED BY <2>1, <2>2, <2>5, <1>1
<1>7. CASE PowerLoss
  <2> DEFINE writing(k) == append.step = "ensured" /\ k = Len(segments)
  <2>1. /\ segments' \in [DOMAIN segments ->
                            UNION {Survivors(segments[k], writing(k)) : k \in DOMAIN segments}]
        /\ \A k \in DOMAIN segments : segments'[k] \in Survivors(segments[k], writing(k))
    BY <1>7 DEF PowerLoss
  <2>2. ASSUME NEW k \in DOMAIN segments
        PROVE  \E n \in segments[k].synced .. Len(segments[k].entries), torn \in BOOLEAN :
                 segments'[k] = Cut(segments[k], n, torn)
    <3> HIDE DEF writing
    <3>1. segments'[k] \in Survivors(segments[k], writing(k))
      BY <2>1
    <3> QED BY <3>1 DEF Survivors
  <2> HIDE DEF writing
  <2>3. \A k \in DOMAIN segments' : segments'[k].synced = Len(segments'[k].entries)
    BY <2>1, <2>2, <1>2, PowerProperties
  <2> QED BY <2>3
<1>8. CASE WriteFails
  <2>1. append # Idle /\ segments # <<>> /\ append.step = "ensured"
    BY <1>8, InProgress DEF WriteFails, Steps
  <2>2. segments' = segments \/ segments' = UpdateLast(TornLast)
    BY <1>8 DEF WriteFails, TornLast
  <2>3. CASE segments' = UpdateLast(TornLast)
    <3>1. /\ DOMAIN UpdateLast(TornLast) = DOMAIN segments
          /\ TornLast.entries = LastSegment.entries
          /\ UpdateLast(TornLast)[Len(segments)] = TornLast
          /\ \A k \in DOMAIN segments : k # Len(segments) => UpdateLast(TornLast)[k] = segments[k]
      BY <2>1, <1>2, Marked
    <3>2. Len(segments) \in DOMAIN segments
      BY <2>1, <1>2, LastProperties, EmptyIsSegment
    <3>3. LastSegment \in Segments
      BY <3>2, <1>2, SegmentTypes DEF LastSegment
    <3>4. TornLast.synced = LastSegment.synced
      BY <3>3 DEF TornLast, Segments
    <3>5. LastSegment.synced = Len(LastSegment.entries)
      BY <3>2, <2>1, <1>1 DEF LastSegment
    <3> QED BY <2>3, <2>1, <3>1, <3>4, <3>5, <1>1
  <2> QED BY <2>1, <2>2, <2>3, <1>3
<1>9. CASE Next
  <2>1. CASE SyncRecord
    <3>1. segments # <<>> /\ segments' = UpdateLast(SyncedLast)
      BY <2>1, InProgress DEF SyncRecord, SyncedLast, Steps
    <3> QED BY <3>1, <1>6
  <2>2. CASE OpenSegments
    <3>1. append = Idle
      BY <2>2, NotBusy DEF OpenSegments, Stopped
    <3>2. append.step # "written"
      BY <3>1, InProgress DEF Steps
    <3>3. segments # <<>> /\ (segments' = segments \/ segments' = UpdateLast(MendedLast))
      BY <2>2 DEF OpenSegments, Quarantined, MendedLast
    <3> QED BY <3>2, <3>3, <1>3, <1>6
  <2>3. CASE \/ \E m \in Messages : Replayed(m)
             \/ UpsertMessage \/ UpsertFails \/ Answer \/ OpenLegacy \/ Migrated \/ Serve
             \/ Refuse \/ Close
    <3>1. segments' = segments
      BY <2>3 DEF Replayed, UpsertMessage, UpsertFails, Answer, OpenLegacy, Migrated, Serve,
                  Refuse, Close
    <3>2. append.step # "written"
      <4>1. CASE UpsertMessage \/ UpsertFails \/ Answer
        BY <4>1 DEF UpsertMessage, UpsertFails, Answer
      <4>2. CASE (\E m \in Messages : Replayed(m)) \/ OpenLegacy \/ Migrated \/ Serve \/ Refuse \/ Close
        <5>1. append = Idle
          BY <4>2, NotBusy DEF Replayed, OpenLegacy, Migrated, Serve, Refuse, Close, Serving, Stopped
        <5> QED BY <5>1, InProgress DEF Steps
      <4> QED BY <2>3, <4>1, <4>2
    <3> QED BY <3>1, <3>2, <1>3
  <2>4. CASE (\E m \in Messages : Insert(m)) \/ Migrate
    <3>1. segments' = WithRoom /\ append = Idle
      BY <2>4 DEF Insert, Migrate, Serving
    <3>2. append.step # "written"
      BY <3>1, InProgress DEF Steps
    <3> QED BY <3>1, <3>2, <1>4
  <2>5. ~Kill /\ ~SyncFails
    BY <1>2 DEF Kill, SyncFails
  <2> QED BY <2>1, <2>2, <2>3, <2>4, <2>5, <1>5, <1>7, <1>8, <1>9 DEF Next
<1>10. CASE UNCHANGED vars
  BY <1>1, <1>10 DEF vars
<1> QED BY <1>9, <1>10

-----------------------------------------------------------------------------
(***************************************************************************)
(* Migration: the map is the only reader of the first segments.            *)
(***************************************************************************)

\* What stands was there to be told: an archive without segments told nobody.
LEMMA NothingTold ==
  ASSUME StandInv, segments = <<>>
  PROVE  told = {}
<1>1. Lasting(segments) = {}
  BY LastingAre
<1>2. \A t \in told : Stands(t, segments)
  BY DEF StandInv
<1> QED BY <1>1, <1>2 DEF Stands

\* A synced row takes the place of the row it is.
LEMMA Replaced ==
  ASSUME NEW rows, NEW row, \A r, q \in rows : r.id = q.id => r = q,
         \E r \in rows : Alike(row, r), NEW e, \E r \in rows : Alike(e, r)
  PROVE  LET new == {r \in rows : r.id # row.id} \cup {row}
         IN  /\ \A r, q \in new : r.id = q.id => r = q
             /\ \E r \in new : Alike(e, r)
<1> DEFINE new == {r \in rows : r.id # row.id} \cup {row}
<1>1. PICK r \in rows : Alike(row, r)
  OBVIOUS
<1>2. PICK q \in rows : Alike(e, q)
  OBVIOUS
<1>3. \A s, t \in new : s.id = t.id => s = t
  OBVIOUS
<1>4. CASE q.id # row.id
  BY <1>2, <1>3, <1>4
<1>5. CASE q.id = row.id
  <2>1. q = r
    BY <1>1, <1>2, <1>5 DEF Alike
  <2>2. Alike(e, row)
    BY <2>1, <1>1, <1>2 DEF Alike
  <2> QED BY <2>2, <1>3
<1> QED BY <1>4, <1>5

LEMMA MigrateStep ==
  ASSUME BaseInv, StandInv, MigrateInv, [Next]_vars
  PROVE  MigrateInv'
<1> SUFFICES ASSUME phase' = "migrating" PROVE MigrateInv'
  BY DEF MigrateInv
<1>1. \A e \in All(segments') : e \in All(segments) \/ (WriteRecord /\ e = Entry(append.row))
  BY SegmentsStep
<1>2. CASE OpenLegacy
  <2> DEFINE kept == {i \in DOMAIN Legacy : Legacy[i].id \in IDs(file)}
  <2>1. /\ Stopped /\ segments = <<>> /\ UNCHANGED <<segments, append, told>>
        /\ messages' = {Numbered(i) : i \in kept}
    BY <1>2 DEF OpenLegacy, Stopped
  <2>2. told' = {}
    BY <2>1, NothingTold
  <2>3. append' = Idle
    BY <2>1, NotBusy DEF Stopped
  <2>4. All(segments') = {}
    BY <2>1, AllAre
  <2>5. kept \subseteq DOMAIN Legacy
    OBVIOUS
  <2> HIDE DEF kept
  <2>6. ASSUME NEW r \in messages', NEW q \in messages', r.id = q.id
        PROVE  r = q
    <3>1. PICK i \in kept, j \in kept : r = Numbered(i) /\ q = Numbered(j)
      BY <2>1
    <3>2. Legacy[i].id = Legacy[j].id
      BY <2>5, <2>6, <3>1, LegacyTypes
    <3>3. i = j
      BY <2>5, <3>2, LegacyAssumption
    <3> QED BY <3>1, <3>3
  <2> QED BY <2>2, <2>3, <2>4, <2>6 DEF MigrateInv
<1>3. CASE phase = "migrating" /\ Migrate
  <2>1. UNCHANGED <<messages, told>> /\ ~WriteRecord
    BY <1>3, InProgress DEF Migrate, WriteRecord, Steps
  <2>2. All(segments') \subseteq All(segments)
    BY <1>1, <2>1
  <2>3. PICK r \in Unmigrated : r \in messages /\ append'.row.id = r.id
                                /\ append'.row.message = r.message
    BY <1>3, SegmentsStep, MigrateTypes
  <2>4. \E q \in messages : Alike(append'.row, q)
    BY <2>3 DEF Alike
  <2> QED BY <1>3, <2>1, <2>2, <2>4 DEF MigrateInv
<1>4. CASE phase = "migrating" /\ WriteRecord
  <2>1. append # Idle /\ append.row \in Rows
    BY <1>4, InProgress DEF WriteRecord, Steps
  <2>2. append' # Idle /\ append'.row = append.row /\ UNCHANGED <<messages, told>>
    BY <1>4, <2>1, MovedOn DEF WriteRecord, Steps
  <2>3. \E r \in messages : Alike(append.row, r)
    BY <1>4, <2>1 DEF MigrateInv
  <2>4. ASSUME NEW e \in All(segments'), e # Glued
        PROVE  \E r \in messages : Alike(e, r)
    <3>1. e \in All(segments) \/ e = append.row
      BY <1>1, <2>4 DEF Entry
    <3> QED BY <3>1, <2>3, <2>4, <1>4 DEF MigrateInv
  <2> QED BY <1>4, <2>2, <2>3, <2>4 DEF MigrateInv
<1>5. CASE phase = "migrating" /\ SyncRecord
  <2>1. append # Idle
    BY <1>5, InProgress DEF SyncRecord, Steps
  <2>2. /\ messages' = {r \in messages : r.id # append.row.id} \cup {append.row}
        /\ append' = Idle /\ told' = told /\ ~WriteRecord
    BY <1>5 DEF SyncRecord, WriteRecord
  <2>3. /\ \A r, q \in messages : r.id = q.id => r = q
        /\ \E r \in messages : Alike(append.row, r)
        /\ \A e \in All(segments) : e # Glued => \E r \in messages : Alike(e, r)
        /\ told = {}
    BY <1>5, <2>1 DEF MigrateInv
  <2>4. \A r, q \in messages' : r.id = q.id => r = q
    BY <2>2, <2>3
  <2>5. ASSUME NEW e \in All(segments'), e # Glued
        PROVE  \E r \in messages' : Alike(e, r)
    <3>1. \E r \in messages : Alike(e, r)
      BY <1>1, <2>2, <2>3, <2>5
    <3> QED BY <2>2, <2>3, <3>1, Replaced
  <2> QED BY <2>2, <2>3, <2>4, <2>5 DEF MigrateInv
<1>6. CASE Next
  <2>1. ~(WriteFails \/ SyncFails \/ Close \/ Kill \/ PowerLoss \/ OpenSegments \/ Serve \/ Refuse)
    BY DEF WriteFails, SyncFails, AppendFailed, Undone, Close, Kill, PowerLoss, Ended,
           OpenSegments, Serve, Refuse
  <2>2. ~Migrated
    BY DEF Migrated, Ended
  <2>3. ~(UpsertMessage \/ UpsertFails \/ Answer)
    <3>1. UpsertMessage \/ UpsertFails => phase = "up" /\ phase' = phase
      BY DEF BaseInv, StepInv, UpsertMessage, UpsertFails
    <3>2. Answer => phase = "up" /\ phase' = phase
      BY DEF BaseInv, StepInv, Answer
    <3> QED BY <3>1, <3>2
  <2>4. \A m \in Messages : ~Replayed(m) /\ ~Insert(m)
    BY DEF Replayed, Insert, Serving
  <2>5. Migrate \/ WriteRecord \/ SyncRecord => phase = "migrating"
    BY DEF Migrate, WriteRecord, SyncRecord
  <2> QED BY <1>2, <1>3, <1>4, <1>5, <1>6, <2>1, <2>2, <2>3, <2>4, <2>5 DEF Next
<1>7. CASE UNCHANGED vars
  BY <1>7 DEF vars, MigrateInv
<1> QED BY <1>6, <1>7

\* When every row is migrated, every row of the map stands.
LEMMA MigratedStands ==
  ASSUME BaseInv, SyncedInv, MigrateInv, phase = "migrating", append = Idle, Unmigrated = {},
         NEW r \in messages
  PROVE  Stands(r, segments)
<1>1. All(segments) = Lasting(segments)
  BY InProgress, AllStands, TypedIsSane DEF BaseInv, Steps
<1>2. r.id \in RowIDs
  BY DEF BaseInv, Typed, Rows
<1>3. r.id \in IDs(Journal)
  BY DEF Unmigrated
<1>4. PICK e \in All(segments) : e.id = r.id
  BY <1>3, JournalIsAll DEF IDs
<1>5. e # Glued
  <2>1. Glued.id = NoID
    BY DEF Glued
  <2> QED BY <2>1, <1>2, <1>4, ArchiveAssumption
<1>6. PICK q \in messages : Alike(e, q)
  BY <1>5 DEF MigrateInv
<1>7. q = r
  <2>1. \A s, t \in messages : s.id = t.id => s = t
    BY DEF MigrateInv
  <2>2. q.id = r.id
    BY <1>4, <1>6 DEF Alike
  <2> QED BY <2>1, <2>2
<1> QED BY <1>1, <1>6, <1>7 DEF Stands

-----------------------------------------------------------------------------
(***************************************************************************)
(* What an answer is taken from stands.                                    *)
(***************************************************************************)

LEMMA StandStep ==
  ASSUME BaseInv, SyncedInv, StandInv, MigrateInv, [Next]_vars
  PROVE  StandInv'
<1>1. Lasting(segments) \subseteq Lasting(segments')
  BY SegmentsStep
<1>2. \A t : Stands(t, segments) => Stands(t, segments')
  BY <1>1 DEF Stands
<1>3. /\ \A t \in told : Stands(t, segments')
      /\ \A r \in index : Stands(r, segments')
      /\ phase = "indexing" => \A r \in messages : Stands(r, segments')
      /\ append.step \in {"archived", "indexed"} => Stands(append.row, segments')
  BY <1>2 DEF StandInv
<1> HIDE DEF Stands
<1>4. \A t \in told' : Stands(t, segments')
  <2>1. CASE told' = told
    BY <2>1, <1>3
  <2>2. CASE \E m \in Messages : Replayed(m)
    <3>1. PICK m \in Messages, r \in index :
            r.message = m /\ told' = told \cup {[id |-> r.id, message |-> m]}
      BY <2>2 DEF Replayed
    <3>2. Stands(r, segments)
      BY DEF StandInv
    <3>3. Stands([id |-> r.id, message |-> m], segments)
      BY <3>1, <3>2 DEF Stands, Alike
    <3> QED BY <3>1, <3>3, <1>2, <1>3
  <2>3. CASE Answer
    <3>1. told' = told \cup {[id |-> append.row.id, message |-> append.row.message]}
      BY <2>3 DEF Answer
    <3>2. Stands(append.row, segments)
      BY <2>3 DEF StandInv, Answer
    <3>3. Stands([id |-> append.row.id, message |-> append.row.message], segments)
      BY <3>2 DEF Stands, Alike
    <3> QED BY <3>1, <3>3, <1>2, <1>3
  <2>4. told' = told \/ Answer \/ \E m \in Messages : Replayed(m)
    BY DEF Next, Insert, WriteRecord, WriteFails, SyncRecord, SyncFails, AppendFailed, Undone,
           UpsertMessage, UpsertFails, OpenSegments, OpenLegacy, Migrate, Migrated, Serve, Refuse,
           Close, Kill, PowerLoss, Ended, vars
  <2> QED BY <2>1, <2>2, <2>3, <2>4
<1>5. \A r \in index' : Stands(r, segments')
  <2>1. CASE index' = index
    BY <2>1, <1>3
  <2>2. CASE UpsertMessage
    <3>1. index' = index \cup {append.row} /\ append.step = "archived"
      BY <2>2 DEF UpsertMessage
    <3> QED BY <3>1, <1>3
  <2>3. CASE Serve
    <3>1. index' = messages /\ phase = "indexing"
      BY <2>3 DEF Serve
    <3> QED BY <3>1, <1>3
  <2>4. index' = index \/ UpsertMessage \/ Serve
    BY DEF Next, Replayed, Insert, WriteRecord, WriteFails, SyncRecord, SyncFails, AppendFailed,
           Undone, Answer, UpsertFails, OpenSegments, OpenLegacy, Migrate, Migrated, Refuse,
           Close, Kill, PowerLoss, Ended, vars
  <2> QED BY <2>1, <2>2, <2>3, <2>4
<1>6. ASSUME phase' = "indexing", NEW r \in messages'
      PROVE  Stands(r, segments')
  <2>1. CASE phase = "indexing" /\ messages' = messages
    BY <2>1, <1>6, <1>3
  <2>2. CASE OpenSegments
    <3>1. append = Idle /\ messages' = Journal /\ Sane(segments)
      BY <2>2, NotBusy, TypedIsSane DEF OpenSegments, Stopped, BaseInv
    <3>2. All(segments) = Lasting(segments)
      BY <3>1, InProgress, AllStands DEF Steps
    <3>3. r \in Lasting(segments)
      BY <3>1, <3>2, <1>6, JournalIsAll
    <3>4. Stands(r, segments)
      BY <3>3 DEF Stands, Alike
    <3> QED BY <3>4, <1>2
  <2>3. CASE OpenLegacy
    <3>1. messages' = messages /\ Stopped
      BY <2>3, <1>6 DEF OpenLegacy
    <3>2. messages = {}
      BY <3>1 DEF BaseInv, StepInv
    <3> QED BY <3>1, <3>2, <1>6
  <2>4. CASE Migrated
    <3>1. messages' = messages /\ phase = "migrating" /\ append = Idle /\ Unmigrated = {}
      BY <2>4, <1>6 DEF Migrated, Ended
    <3>2. Stands(r, segments)
      BY <3>1, <1>6, MigratedStands
    <3> QED BY <3>2, <1>2
  <2>5. CASE phase' = phase
    <3>1. append = Idle
      BY <2>5, <1>6, NotBusy
    <3>2. append.step \notin Steps
      BY <3>1, InProgress
    <3>3. messages' = messages
      BY <2>5, <3>1, <3>2, <1>6
         DEF Next, Replayed, Insert, WriteRecord, WriteFails, SyncRecord, SyncFails,
             UpsertMessage, Answer, UpsertFails, OpenSegments, OpenLegacy, Migrate, Migrated,
             Refuse, Serve, Close, Kill, PowerLoss, Ended, vars, counters, Steps, Serving, Stopped
    <3> QED BY <2>5, <3>3, <1>6, <2>1
  <2>6. phase' = phase \/ OpenSegments \/ OpenLegacy \/ Migrated
    BY <1>6 DEF Next, Replayed, Insert, WriteRecord, WriteFails, SyncRecord, SyncFails,
                AppendFailed, Undone, UpsertMessage, Answer, UpsertFails, Migrate,
                Refuse, Serve, Close, Kill, PowerLoss, Ended, vars
  <2> QED BY <2>2, <2>3, <2>4, <2>5, <2>6
<1>7. ASSUME append'.step \in {"archived", "indexed"}
      PROVE  Stands(append'.row, segments')
  <2>1. CASE UNCHANGED append
    BY <2>1, <1>3, <1>7
  <2>2. CASE UpsertMessage
    <3>1. append # Idle /\ append.step = "archived"
      BY <2>2, InProgress DEF UpsertMessage, Steps
    <3>2. append'.row = append.row
      BY <2>2, <3>1, MovedOn DEF UpsertMessage, Steps
    <3> QED BY <3>1, <3>2, <1>3
  <2>3. CASE SyncRecord
    <3>1. append # Idle /\ segments # <<>> /\ append.step = "written" /\ Idle.step = "idle"
      BY <2>3, InProgress DEF SyncRecord, Steps, Idle
    <3>2. append' = [append EXCEPT !.step = "archived"]
      BY <2>3, <3>1, <1>7 DEF SyncRecord
    <3>3. append'.row = append.row
      BY <3>1, <3>2, MovedOn DEF Steps
    <3>4. segments' = UpdateLast(SyncedLast)
      BY <2>3 DEF SyncRecord, SyncedLast
    <3>5. /\ LastSegment.entries # <<>>
          /\ LastSegment.entries[Len(LastSegment.entries)] \in {append.row, Glued}
      BY <3>1 DEF BaseInv, StepInv
    <3>6. LastSegment.entries[Len(LastSegment.entries)] \in Lasting(segments')
      BY <3>1, <3>4, <3>5, SyncStands, TypedIsSane DEF BaseInv
    <3> QED BY <3>3, <3>5, <3>6 DEF Stands, Alike
  <2>4. CASE append' = Idle
    BY <2>4, <1>7 DEF Idle
  <2>5. ASSUME NEW m \in Messages, Insert(m)
        PROVE  FALSE
    <3>1. PICK id \in Fresh : append' = Doing("ensured", NewRow(m, id))
      BY <2>5 DEF Insert
    <3> QED BY <3>1, <1>7 DEF Doing
  <2>6. ASSUME Migrate
        PROVE  FALSE
    <3>1. append'.step = "ensured"
      BY <2>6, SegmentsStep, MigrateTypes
    <3> QED BY <3>1, <1>7
  <2>7. ASSUME WriteRecord
        PROVE  FALSE
    <3>1. append # Idle
      BY <2>7, InProgress DEF WriteRecord, Steps
    <3>2. append'.step = "written"
      BY <2>7, <3>1, MovedOn DEF WriteRecord, Steps
    <3> QED BY <3>2, <1>7
  <2>8. \/ UNCHANGED append \/ append' = Idle \/ UpsertMessage \/ SyncRecord
        \/ (\E m \in Messages : Insert(m)) \/ Migrate \/ WriteRecord
    BY DEF Next, Replayed, WriteFails, SyncFails, AppendFailed, Undone, Answer, UpsertFails,
           OpenSegments, OpenLegacy, Migrated, Serve, Refuse, Close, Kill, PowerLoss, Ended, vars
  <2> QED BY <2>1, <2>2, <2>3, <2>4, <2>5, <2>6, <2>7, <2>8
<1> QED BY <1>4, <1>5, <1>6, <1>7 DEF StandInv

-----------------------------------------------------------------------------
(***************************************************************************)
(* The table has what was answered, once.                                  *)
(***************************************************************************)

\* The parts of AnswerInv, for a step to prove one by one.
TableHolds == phase = "up" => \A t \in told : \E r \in index : Alike(r, t)
TableUnique == phase = "up" => Unique(index)
KeyIsFree ==
  phase = "up" /\ append.step \in {"ensured", "written", "archived"} =>
    \A r \in index : r.message.key # append.row.message.key
RowIsIn == append.step = "indexed" => append.row \in index
MapHolds == phase = "indexing" => \A t \in told : \E r \in messages : Alike(r, t)

LEMMA AnswerParts == AnswerInv <=> TableHolds /\ TableUnique /\ KeyIsFree /\ RowIsIn /\ MapHolds
BY DEF AnswerInv, TableHolds, TableUnique, KeyIsFree, RowIsIn, MapHolds

LEMMA AnswerStep ==
  ASSUME BaseInv, StandInv, MigrateInv, AnswerInv, [Next]_vars
  PROVE  AnswerInv'
<1>1. TableHolds /\ TableUnique /\ KeyIsFree /\ RowIsIn /\ MapHolds
  BY AnswerParts
<1>2. CASE UNCHANGED <<index, messages, phase, append, told>>
  BY <1>1, <1>2 DEF AnswerInv, TableHolds, TableUnique, KeyIsFree, RowIsIn, MapHolds, Unique
<1>3. CASE phase' \in {"down", "refused", "migrating"} /\ append'.step # "indexed"
  BY <1>3 DEF AnswerInv
<1>4. CASE phase = "up" /\ phase' = "up" /\ append' = Idle /\ UNCHANGED <<index, told>>
  <2>1. append'.step = "idle"
    BY <1>4 DEF Idle
  <2> QED BY <2>1, <1>1, <1>4 DEF AnswerInv, TableHolds, TableUnique, Unique
<1>5. ASSUME NEW m \in Messages, Insert(m)
      PROVE  AnswerInv'
  <2>1. PICK id \in Fresh : append' = Doing("ensured", NewRow(m, id))
    BY <1>5 DEF Insert
  <2>2. append'.row.message = m /\ append'.step = "ensured"
    BY <2>1 DEF Doing, NewRow
  <2>3. phase = "up" /\ phase' = phase /\ UNCHANGED <<index, told>>
        /\ \A r \in index : r.message.key # m.key
    BY <1>5 DEF Insert, Serving
  <2> QED BY <2>2, <2>3, <1>1 DEF AnswerInv, TableHolds, TableUnique, Unique
<1>6. CASE WriteRecord \/ (SyncRecord /\ phase = "up")
  <2>1. append # Idle /\ append.step \in {"ensured", "written"} /\ phase \in {"up", "migrating"}
    BY <1>6, InProgress DEF WriteRecord, SyncRecord, Steps
  <2>2. /\ append'.row = append.row /\ append'.step \in {"written", "archived"}
        /\ UNCHANGED <<index, told, phase>>
    BY <1>6, <2>1, MovedOn DEF WriteRecord, SyncRecord, Steps
  <2> QED BY <2>1, <2>2, <1>1 DEF AnswerInv, TableHolds, TableUnique, KeyIsFree, Unique
<1>7. CASE SyncRecord /\ phase # "up"
  <2>1. phase = "migrating" /\ append' = Idle /\ phase' = phase
    BY <1>7, InProgress DEF SyncRecord, Steps
  <2> QED BY <2>1, <1>3 DEF Idle
<1>8. CASE UpsertMessage
  <2>1. append # Idle /\ phase = "up" /\ append.step = "archived"
    BY <1>8, InProgress DEF UpsertMessage, Steps, BaseInv, StepInv
  <2>2. /\ append'.row = append.row /\ append'.step = "indexed"
        /\ index' = index \cup {append.row} /\ UNCHANGED <<told, phase>>
    BY <1>8, <2>1, MovedOn DEF UpsertMessage, Steps
  <2>3. Unique(index) /\ \A r \in index : r.message.key # append.row.message.key
    BY <2>1, <1>1 DEF TableUnique, KeyIsFree
  <2>4. Unique(index')
    BY <2>2, <2>3 DEF Unique
  <2>5. \A t \in told : \E r \in index' : Alike(r, t)
    BY <2>1, <2>2, <1>1 DEF TableHolds
  <2> QED BY <2>1, <2>2, <2>4, <2>5 DEF AnswerInv, Unique
<1>9. CASE Answer
  <2>1. append # Idle /\ phase = "up" /\ append.step = "indexed" /\ append.row \in index
    BY <1>9, <1>1, InProgress DEF Answer, Steps, BaseInv, StepInv, RowIsIn
  <2>2. /\ append' = Idle /\ UNCHANGED <<index, phase>>
        /\ told' = told \cup {[id |-> append.row.id, message |-> append.row.message]}
    BY <1>9 DEF Answer
  <2>3. Alike(append.row, [id |-> append.row.id, message |-> append.row.message])
    BY DEF Alike
  <2>4. \A t \in told' : \E r \in index : Alike(r, t)
    BY <2>1, <2>2, <2>3, <1>1 DEF TableHolds
  <2>5. append'.step = "idle"
    BY <2>2 DEF Idle
  <2> QED BY <2>1, <2>2, <2>4, <2>5, <1>1 DEF AnswerInv, TableUnique, Unique
<1>10. ASSUME NEW m \in Messages, Replayed(m)
       PROVE  AnswerInv'
  <2>1. PICK r \in index : r.message = m /\ told' = told \cup {[id |-> r.id, message |-> m]}
    BY <1>10 DEF Replayed
  <2>2. phase = "up" /\ append = Idle /\ UNCHANGED <<index, phase, append>>
    BY <1>10 DEF Replayed, Serving
  <2>3. Alike(r, [id |-> r.id, message |-> m])
    BY <2>1 DEF Alike
  <2>4. \A t \in told' : \E q \in index : Alike(q, t)
    BY <2>1, <2>2, <2>3, <1>1 DEF TableHolds
  <2>5. append'.step = "idle"
    BY <2>2 DEF Idle
  <2> QED BY <2>2, <2>4, <2>5, <1>1 DEF AnswerInv, TableUnique, Unique
<1>11. CASE OpenSegments
  <2>1. append' = Idle /\ phase' = "indexing" /\ messages' = Journal /\ told' = told
        /\ Glued \notin Journal
    BY <1>11, NotBusy DEF OpenSegments, Stopped, Readable, Chained
  <2>2. ASSUME NEW t \in told
        PROVE  \E r \in messages' : Alike(r, t)
    <3>1. Stands(t, segments)
      BY DEF StandInv
    <3>2. Lasting(segments) \subseteq Journal
      BY LastingInAll, JournalIsAll, TypedIsSane DEF BaseInv
    <3> QED BY <2>1, <3>1, <3>2 DEF Stands
  <2> QED BY <2>1, <2>2 DEF AnswerInv, Idle
<1>12. CASE OpenLegacy
  <2>1. append' = Idle /\ segments = <<>> /\ phase' \in {"indexing", "migrating"} /\ told' = told
    BY <1>12, NotBusy DEF OpenLegacy, Stopped
  <2>2. told' = {}
    BY <2>1, NothingTold
  <2> QED BY <2>1, <2>2 DEF AnswerInv, Idle
<1>13. CASE Migrated /\ phase' = "indexing"
  <2>1. phase = "migrating" /\ append' = append /\ append = Idle /\ told' = told
    BY <1>13 DEF Migrated, Ended
  <2>2. told' = {}
    BY <2>1 DEF MigrateInv
  <2> QED BY <1>13, <2>1, <2>2 DEF AnswerInv, Idle
<1>14. CASE Serve
  <2>1. append = Idle
    BY <1>14, NotBusy DEF Serve
  <2>2. /\ phase = "indexing" /\ phase' = "up" /\ Unique(messages) /\ index' = messages
        /\ UNCHANGED <<append, told>>
    BY <1>14 DEF Serve
  <2>3. \A t \in told' : \E r \in index' : Alike(r, t)
    BY <2>2, <1>1 DEF MapHolds
  <2>4. append'.step = "idle"
    BY <2>1, <2>2 DEF Idle
  <2> QED BY <2>2, <2>3, <2>4 DEF AnswerInv, Unique
<1>15. CASE Migrate
  <2>1. append'.step = "ensured" /\ phase' = "migrating"
    BY <1>15, SegmentsStep, MigrateTypes DEF Migrate
  <2> QED BY <2>1, <1>3
<1>16. CASE Ended
  BY <1>16, <1>3 DEF Ended, Idle
<1>17. CASE AppendFailed
  <2>1. CASE phase = "up"
    BY <2>1, <1>17, <1>4 DEF AppendFailed, Undone
  <2>2. CASE phase # "up"
    BY <2>2, <1>17, <1>16 DEF AppendFailed
  <2> QED BY <2>1, <2>2
<1>18. CASE UpsertFails
  <2>1. phase = "up"
    BY <1>18 DEF UpsertFails, BaseInv, StepInv
  <2> QED BY <2>1, <1>18, <1>4 DEF UpsertFails
<1>19. CASE Refuse
  <2>1. append' = Idle
    BY <1>19, NotBusy DEF Refuse, Stopped
  <2> QED BY <2>1, <1>19, <1>3 DEF Refuse, Idle
<1>20. CASE Next
  <2>1. Migrated => phase' = "indexing" \/ Ended
    BY DEF Migrated
  <2>2. WriteFails \/ SyncFails => AppendFailed
    BY DEF WriteFails, SyncFails
  <2>3. Close \/ Kill \/ PowerLoss => Ended
    BY DEF Close, Kill, PowerLoss
  <2> QED BY <1>5, <1>6, <1>7, <1>8, <1>9, <1>10, <1>11, <1>12, <1>13, <1>14, <1>15, <1>16,
             <1>17, <1>18, <1>19, <1>20, <2>1, <2>2, <2>3 DEF Next
<1>21. CASE UNCHANGED vars
  BY <1>21, <1>2 DEF vars
<1> QED BY <1>20, <1>21

-----------------------------------------------------------------------------
(***************************************************************************)
(* The theorems.                                                           *)
(***************************************************************************)

LEMMA InitArchive == Init => ArchiveInv
<1> SUFFICES ASSUME Init PROVE ArchiveInv
  OBVIOUS
<1>1. BaseInv
  BY InitBase
<1>2. segments = <<>> /\ index = {} /\ told = {} /\ append.step = "idle"
      /\ phase \in {"down", "up"}
  BY DEF Init, Idle
<1>3. All(segments) = {}
  BY <1>2, AllAre
<1>4. WholeInv
  BY <1>2, <1>3 DEF WholeInv
<1>5. SyncedInv /\ MigrateInv /\ StandInv
  BY <1>2 DEF SyncedInv, MigrateInv, StandInv
<1>6. AnswerInv
  BY <1>2 DEF AnswerInv, Unique
<1> QED BY <1>1, <1>4, <1>5, <1>6 DEF ArchiveInv, BaseInv

LEMMA ArchiveStep == OneStorm /\ ArchiveInv /\ [Next]_vars => ArchiveInv'
<1> SUFFICES ASSUME OneStorm, ArchiveInv, [Next]_vars PROVE ArchiveInv'
  OBVIOUS
<1>1. BaseInv /\ WholeInv /\ SyncedInv /\ StandInv /\ MigrateInv /\ AnswerInv
  BY DEF ArchiveInv, BaseInv
<1>2. BaseInv'
  BY <1>1, BaseStep
<1>3. WholeInv' /\ SyncedInv' /\ StandInv' /\ MigrateInv' /\ AnswerInv'
  BY <1>1, WholeStep, SyncedStep, StandStep, MigrateStep, AnswerStep
<1> QED BY <1>2, <1>3 DEF ArchiveInv, BaseInv

\* What stands, stands at a position.
LEMMA StandsAtPosition ==
  ASSUME Sane(segments), NEW e \in Lasting(segments)
  PROVE  \E p \in StandingPositions : At(p) = e
<1>1. PICK i \in DOMAIN segments : \E j \in 1 .. Standing(segments[i]) : e = segments[i].entries[j]
  BY LastingAre
<1>2. PICK j \in 1 .. Standing(segments[i]) : e = segments[i].entries[j]
  BY <1>1
<1>3. segments[i] \in Segments /\ segments[i].synced <= Len(segments[i].entries)
  BY SegmentTypes
<1>4. j \in DOMAIN segments[i].entries /\ j <= Standing(segments[i])
  BY <1>3, StandingBounds
<1> DEFINE p == <<i, j>>
<1>5. p[1] = i /\ p[2] = j
  OBVIOUS
<1>6. p \in Positions
  BY <1>4, PositionsAre
<1> HIDE DEF p
<1>7. p \in StandingPositions
  BY <1>4, <1>5, <1>6 DEF StandingPositions
<1>8. At(p) = e
  BY <1>2, <1>5 DEF At
<1> QED BY <1>7, <1>8

\* An id that InsertMessage (queries.go) has given out names an archived message
\* for good. Where an append is never cut short, for every set of failing writes
\* and rewrites and for a process or a machine that may die at any step.
THEOREM AcknowledgedStays ==
  ASSUME OneStorm, "short" \notin Faults
  PROVE  Spec => []AcknowledgedArchived
<1>1. ArchiveInv => AcknowledgedArchived
  <2> SUFFICES ASSUME ArchiveInv, NEW t \in told
               PROVE  \E p \in StandingPositions : At(p).id = t.id /\ At(p).message = t.message
    BY DEF AcknowledgedArchived
  <2>1. Sane(segments)
    BY TypedIsSane DEF ArchiveInv
  <2>2. Stands(t, segments) /\ Glued \notin All(segments)
    BY DEF ArchiveInv, StandInv, WholeInv
  <2>3. PICK e \in Lasting(segments) : Alike(e, t)
    BY <2>1, <2>2, LastingInAll DEF Stands
  <2>4. PICK p \in StandingPositions : At(p) = e
    BY <2>1, StandsAtPosition
  <2> QED BY <2>3, <2>4 DEF Alike
<1>2. ArchiveInv /\ [Next]_vars => ArchiveInv'
  BY ArchiveStep
<1> QED BY <1>1, <1>2, InitArchive, PTL DEF Spec

\* A host that repeats a message gets the id it got before, whatever failed,
\* and however often the daemon was killed and opened the archive again
\* (MessageByExternal over messages_current, ReplaceReadSupport after a restart).
THEOREM RepeatsAgree ==
  ASSUME OneStorm
  PROVE  Spec => []AnsweredAgain
<1>1. ArchiveInv => AnsweredAgain
  BY DEF ArchiveInv, AnswerInv, AnsweredAgain, Alike
<1>2. ArchiveInv /\ [Next]_vars => ArchiveInv'
  BY ArchiveStep
<1> QED BY <1>1, <1>2, InitArchive, PTL DEF Spec

-----------------------------------------------------------------------------
(***************************************************************************)
(* The chain.  Where a record is written whole, fsynced and indexed or not *)
(* at all, the rows in the segments are numbered without a gap, each names *)
(* the one before, and the counters of the store are those of the last.    *)
(***************************************************************************)

\* No record is cut short, taken back after it was written, or left unindexed.
CleanFailures ==
  OneStorm /\ "short" \notin Faults /\ "sync" \notin Faults /\ "index" \notin Faults

\* The rows of segments by position.
PositionsIn(segs) == UNION {{i} \X DOMAIN segs[i].entries : i \in DOMAIN segs}
Filed(segs) == [p \in PositionsIn(segs) |-> segs[p[1]].entries[p[2]]]

\* The messages of the user, all of them and up to a position.
Users(F) == {p \in DOMAIN F : F[p].message.user}
UsersTo(F, p) == {q \in DOMAIN F : (q = p \/ Before(q, p)) /\ F[q].message.user}

\* n rows, their numbers in the order of their positions; the first names none
\* and the others the one before; each has the user turns so far; no key twice.
Chain(F, n) ==
  /\ \A p \in DOMAIN F : F[p] \in Rows /\ F[p].seq \in 1 .. n
  /\ \A p, q \in DOMAIN F : Before(p, q) <=> F[p].seq < F[q].seq
  /\ \A k \in 1 .. n : \E p \in DOMAIN F : F[p].seq = k
  /\ \A p \in DOMAIN F : F[p].seq = 1 => F[p].prev = NoID
  /\ \A p, q \in DOMAIN F : F[q].seq = F[p].seq + 1 => F[q].prev = F[p].id
  /\ \A p \in DOMAIN F : F[p].turn = Cardinality(UsersTo(F, p))
  /\ \A p, q \in DOMAIN F : F[p].message.key = F[q].message.key => p = q

\* The three counters of a store that has read the rows.
Reads(F, n, t, id) ==
  /\ Chain(F, n)
  /\ t = Cardinality(Users(F))
  /\ n = 0 => id = NoID
  /\ n # 0 => \E p \in DOMAIN F : F[p].seq = n /\ F[p].id = id

Plus(t, m) == t + (IF m.user THEN 1 ELSE 0)

\* Any two positions are in order.
LEMMA InOrder ==
  ASSUME NEW p \in Nat \X Nat, NEW q \in Nat \X Nat
  PROVE  /\ p = q \/ Before(p, q) \/ Before(q, p)
         /\ ~Before(p, p)
         /\ ~(Before(p, q) /\ Before(q, p))
<1>1. p = <<p[1], p[2]>> /\ q = <<q[1], q[2]>>
      /\ p[1] \in Nat /\ p[2] \in Nat /\ q[1] \in Nat /\ q[2] \in Nat
  OBVIOUS
<1> QED BY <1>1 DEF Before

LEMMA RowFields ==
  ASSUME NEW r \in Rows
  PROVE  /\ r.id \in RowIDs /\ r.message \in Messages /\ r.seq \in Nat /\ r.turn \in Nat
         /\ r.prev \in RowIDs \cup {NoID} /\ r.message.user \in BOOLEAN
         /\ r.id # NoID
<1>1. r.id \in RowIDs /\ r.message \in Messages /\ r.seq \in Nat /\ r.turn \in Nat
      /\ r.prev \in RowIDs \cup {NoID}
  BY DEF Rows
<1>2. r.message.user \in BOOLEAN
  BY <1>1, ArchiveAssumption
<1> QED BY <1>1, <1>2, ArchiveAssumption

\* A number names one row, and there are as many rows as numbers.
LEMMA ChainSize ==
  ASSUME NEW F, DOMAIN F \subseteq Nat \X Nat, NEW n \in Nat, Chain(F, n)
  PROVE  /\ \A p, q \in DOMAIN F : F[p].seq = F[q].seq => p = q
         /\ IsFiniteSet(DOMAIN F) /\ Cardinality(DOMAIN F) = n
<1>1. \A p \in DOMAIN F : F[p].seq \in 1 .. n
  BY DEF Chain
<1>2. ASSUME NEW p \in DOMAIN F, NEW q \in DOMAIN F, F[p].seq = F[q].seq
      PROVE  p = q
  <2>1. ~(F[p].seq < F[q].seq) /\ ~(F[q].seq < F[p].seq)
    BY <1>1, <1>2
  <2>2. ~Before(p, q) /\ ~Before(q, p)
    BY <2>1 DEF Chain
  <2>3. p \in Nat \X Nat /\ q \in Nat \X Nat
    OBVIOUS
  <2> QED BY <2>2, <2>3, InOrder
<1> DEFINE g == [p \in DOMAIN F |-> F[p].seq]
<1>3. g \in [DOMAIN F -> 1 .. n]
  BY <1>1
<1>4. \A k \in 1 .. n : \E p \in DOMAIN F : F[p].seq = k
  BY DEF Chain
<1>5. g \in Injection(DOMAIN F, 1 .. n)
  BY <1>2, <1>3 DEF Injection, IsInjective
<1>6. g \in Surjection(DOMAIN F, 1 .. n)
  BY <1>3, <1>4 DEF Surjection
<1>7. IsFiniteSet(1 .. n) /\ Cardinality(1 .. n) = n
  BY FS_Interval
<1> HIDE DEF g
<1>8. IsFiniteSet(DOMAIN F)
  BY <1>5, <1>7, FS_Injection
<1>9. Cardinality(DOMAIN F) = n
  BY <1>5, <1>6, <1>7, FS_Injection
<1> QED BY <1>2, <1>8, <1>9

\* A row with the next number goes behind the others.
LEMMA ChainGrows ==
  ASSUME NEW F, DOMAIN F \subseteq Nat \X Nat, NEW n \in Nat, NEW t, NEW id,
         Reads(F, n, t, id),
         NEW p \in Nat \X Nat, \A q \in DOMAIN F : Before(q, p),
         NEW row \in Rows, row.seq = n + 1, row.prev = id, row.turn = Plus(t, row.message),
         \A q \in DOMAIN F : F[q].message.key # row.message.key,
         NEW G, DOMAIN G = DOMAIN F \cup {p}, G[p] = row, \A q \in DOMAIN F : G[q] = F[q]
  PROVE  Reads(G, n + 1, row.turn, row.id)
<1>0. Chain(F, n) /\ t = Cardinality(Users(F))
  BY DEF Reads
<1>1. p \notin DOMAIN F /\ ~Before(p, p) /\ \A q \in DOMAIN F : ~Before(p, q)
  BY InOrder
<1>2. \A q \in DOMAIN F : F[q] \in Rows /\ F[q].seq \in 1 .. n
  BY <1>0 DEF Chain
<1>3. IsFiniteSet(DOMAIN F)
  BY <1>0, ChainSize
<1>4. IsFiniteSet(Users(F)) /\ p \notin Users(F)
  <2>1. Users(F) \in SUBSET DOMAIN F
    BY DEF Users
  <2> QED BY <2>1, <1>1, <1>3, FS_Subset
<1>5. t \in Nat
  BY <1>0, <1>4, FS_CardinalityType
<1>6. row.message.user \in BOOLEAN
  BY RowFields
<1>7. row.turn = Cardinality(Users(G))
  <2>1. CASE row.message.user
    <3>1. Users(G) = Users(F) \cup {p}
      BY <2>1, <1>1 DEF Users
    <3>2. Cardinality(Users(G)) = Cardinality(Users(F)) + 1
      BY <3>1, <1>4, FS_AddElement
    <3> QED BY <3>2, <2>1, <1>0 DEF Plus
  <2>2. CASE ~row.message.user
    <3>1. Users(G) = Users(F)
      BY <2>2, <1>1 DEF Users
    <3> QED BY <3>1, <2>2, <1>0, <1>5 DEF Plus
  <2> QED BY <2>1, <2>2
<1>8. UsersTo(G, p) = Users(G)
  BY DEF UsersTo, Users
<1>9. ASSUME NEW q \in DOMAIN F
      PROVE  UsersTo(G, q) = UsersTo(F, q)
  BY <1>1 DEF UsersTo
<1>10. \A q \in DOMAIN G : G[q] \in Rows /\ G[q].seq \in 1 .. n + 1
  BY <1>2
<1>11. ASSUME NEW q \in DOMAIN G, NEW o \in DOMAIN G
       PROVE  Before(q, o) <=> G[q].seq < G[o].seq
  <2>1. CASE q \in DOMAIN F /\ o \in DOMAIN F
    BY <2>1, <1>0 DEF Chain
  <2>2. CASE q \in DOMAIN F /\ o = p
    BY <2>2, <1>2
  <2>3. CASE q = p /\ o \in DOMAIN F
    BY <2>3, <1>1, <1>2
  <2>4. CASE q = p /\ o = p
    BY <2>4, <1>1
  <2> QED BY <2>1, <2>2, <2>3, <2>4
<1>12. ASSUME NEW k \in 1 .. n + 1
       PROVE  \E q \in DOMAIN G : G[q].seq = k
  <2>1. CASE k = n + 1
    BY <2>1
  <2>2. CASE k \in 1 .. n
    <3>1. PICK q \in DOMAIN F : F[q].seq = k
      BY <2>2, <1>0 DEF Chain
    <3> QED BY <3>1
  <2> QED BY <2>1, <2>2
<1>13. ASSUME NEW q \in DOMAIN G, G[q].seq = 1
       PROVE  G[q].prev = NoID
  <2>1. CASE q \in DOMAIN F
    BY <2>1, <1>0, <1>13 DEF Chain
  <2>2. CASE q = p
    <3>1. n = 0
      BY <2>2, <1>13
    <3> QED BY <2>2, <3>1 DEF Reads
  <2> QED BY <2>1, <2>2
<1>14. ASSUME NEW q \in DOMAIN G, NEW o \in DOMAIN G, G[o].seq = G[q].seq + 1
       PROVE  G[o].prev = G[q].id
  <2>1. CASE q \in DOMAIN F /\ o \in DOMAIN F
    BY <2>1, <1>0, <1>14 DEF Chain
  <2>2. CASE q \in DOMAIN F /\ o = p
    <3>1. F[q].seq = n /\ n # 0
      BY <2>2, <1>2, <1>14
    <3>2. PICK l \in DOMAIN F : F[l].seq = n /\ F[l].id = id
      BY <3>1 DEF Reads
    <3>3. \A a, b \in DOMAIN F : F[a].seq = F[b].seq => a = b
      BY <1>0, ChainSize
    <3>4. l = q
      BY <3>1, <3>2, <3>3, <2>2
    <3> QED BY <2>2, <3>2, <3>4
  <2>3. CASE q = p
    BY <2>3, <1>10, <1>14
  <2> QED BY <2>1, <2>2, <2>3
<1>15. ASSUME NEW q \in DOMAIN G
       PROVE  G[q].turn = Cardinality(UsersTo(G, q))
  <2>1. CASE q \in DOMAIN F
    <3>1. F[q].turn = Cardinality(UsersTo(F, q))
      BY <2>1, <1>0 DEF Chain
    <3> QED BY <2>1, <3>1, <1>9
  <2>2. CASE q = p
    BY <2>2, <1>7, <1>8
  <2> QED BY <2>1, <2>2
<1>16. \A q, o \in DOMAIN G : G[q].message.key = G[o].message.key => q = o
  BY <1>0 DEF Chain
<1>17. Chain(G, n + 1)
  BY <1>10, <1>11, <1>12, <1>13, <1>14, <1>15, <1>16 DEF Chain
<1>18. \E q \in DOMAIN G : G[q].seq = n + 1 /\ G[q].id = row.id
  OBVIOUS
<1>19. n + 1 # 0
  OBVIOUS
<1> QED BY <1>7, <1>17, <1>18, <1>19 DEF Reads

\* What the machine leaves of a chain is a chain.
LEMMA ChainShrinks ==
  ASSUME NEW F, DOMAIN F \subseteq Nat \X Nat, NEW n \in Nat, Chain(F, n),
         NEW G, DOMAIN G \subseteq DOMAIN F, \A p \in DOMAIN G : G[p] = F[p],
         \A p \in DOMAIN G : \A q \in DOMAIN F : Before(q, p) => q \in DOMAIN G
  PROVE  \E m \in Nat : Chain(G, m)
<1>1. ASSUME NEW p \in DOMAIN G
      PROVE  UsersTo(G, p) = UsersTo(F, p)
  BY <1>1 DEF UsersTo
<1>2. ASSUME NEW m \in Nat, \A p \in DOMAIN G : G[p].seq <= m,
             \A k \in 1 .. m : \E p \in DOMAIN G : G[p].seq = k
      PROVE  Chain(G, m)
  <2>1. \A p \in DOMAIN G : G[p] \in Rows /\ G[p].seq \in 1 .. n
    BY DEF Chain
  <2>2. \A p \in DOMAIN G : G[p].seq \in 1 .. m
    BY <2>1, <1>2
  <2>3. \A p, q \in DOMAIN G : Before(p, q) <=> G[p].seq < G[q].seq
    BY DEF Chain
  <2>4. \A p \in DOMAIN G : G[p].seq = 1 => G[p].prev = NoID
    BY DEF Chain
  <2>5. \A p, q \in DOMAIN G : G[q].seq = G[p].seq + 1 => G[q].prev = G[p].id
    BY DEF Chain
  <2>6. \A p \in DOMAIN G : G[p].turn = Cardinality(UsersTo(G, p))
    BY <1>1 DEF Chain
  <2>7. \A p, q \in DOMAIN G : G[p].message.key = G[q].message.key => p = q
    BY DEF Chain
  <2> QED BY <2>1, <2>2, <2>3, <2>4, <2>5, <2>6, <2>7, <1>2 DEF Chain
<1>3. CASE DOMAIN G = {}
  BY <1>2, <1>3
<1>4. CASE DOMAIN G # {}
  <2> DEFINE S == {G[p].seq : p \in DOMAIN G}
  <2>1. S \subseteq Nat /\ S # {} /\ \A s \in S : s <= n
    BY <1>4 DEF Chain
  <2>2. PICK m \in S : \A s \in S : s <= m
    <3> HIDE DEF S
    <3> QED BY <2>1, GreatestExists
  <2>3. m \in Nat /\ m <= n /\ \A p \in DOMAIN G : G[p].seq <= m
    BY <2>1, <2>2
  <2>4. PICK l \in DOMAIN G : G[l].seq = m
    BY <2>2
  <2>5. ASSUME NEW k \in 1 .. m
        PROVE  \E p \in DOMAIN G : G[p].seq = k
    <3>1. PICK p \in DOMAIN F : F[p].seq = k
      BY <2>3 DEF Chain
    <3>2. CASE k = m
      BY <3>2, <2>4
    <3>3. CASE k < m
      <4>1. F[p].seq < F[l].seq /\ l \in DOMAIN F
        BY <3>1, <3>3, <2>4
      <4>2. Before(p, l)
        BY <4>1 DEF Chain
      <4> QED BY <4>2, <3>1
    <3> QED BY <3>2, <3>3, <2>3
  <2> QED BY <1>2, <2>3, <2>5
<1> QED BY <1>3, <1>4

-----------------------------------------------------------------------------
(***************************************************************************)
(* The rows of the segments, and how the steps change them.                *)
(***************************************************************************)

LEMMA FiledAre ==
  ASSUME NEW segs
  PROVE  /\ \A p : p \in DOMAIN Filed(segs) <=>
              p = <<p[1], p[2]>> /\ p[1] \in DOMAIN segs /\ p[2] \in DOMAIN segs[p[1]].entries
         /\ \A p \in DOMAIN Filed(segs) : Filed(segs)[p] = segs[p[1]].entries[p[2]]
<1>1. DOMAIN Filed(segs) = PositionsIn(segs)
  BY DEF Filed
<1>2. ASSUME NEW p
      PROVE  p \in PositionsIn(segs) <=>
               p = <<p[1], p[2]>> /\ p[1] \in DOMAIN segs /\ p[2] \in DOMAIN segs[p[1]].entries
  <2>1. ASSUME p \in PositionsIn(segs)
        PROVE  p = <<p[1], p[2]>> /\ p[1] \in DOMAIN segs /\ p[2] \in DOMAIN segs[p[1]].entries
    <3>1. PICK i \in DOMAIN segs : p \in {i} \X DOMAIN segs[i].entries
      BY <2>1 DEF PositionsIn
    <3> QED BY <3>1
  <2>2. ASSUME p = <<p[1], p[2]>>, p[1] \in DOMAIN segs, p[2] \in DOMAIN segs[p[1]].entries
        PROVE  p \in PositionsIn(segs)
    <3>1. p \in {p[1]} \X DOMAIN segs[p[1]].entries
      BY <2>2
    <3> QED BY <3>1, <2>2 DEF PositionsIn
  <2> QED BY <2>1, <2>2
<1>3. \A p \in PositionsIn(segs) : Filed(segs)[p] = segs[p[1]].entries[p[2]]
  BY DEF Filed
<1> QED BY <1>1, <1>2, <1>3

\* Positions are pairs of numbers, and the rows there are all the entries.
LEMMA FiledTypes ==
  ASSUME NEW segs, Sane(segs)
  PROVE  /\ DOMAIN Filed(segs) \subseteq Nat \X Nat
         /\ \A p \in DOMAIN Filed(segs) : Filed(segs)[p] \in All(segs)
         /\ \A e \in All(segs) : \E p \in DOMAIN Filed(segs) : Filed(segs)[p] = e
<1>1. \A i \in DOMAIN segs : i \in Nat
  BY LenProperties DEF Sane
<1>2. ASSUME NEW p \in DOMAIN Filed(segs)
      PROVE  p \in Nat \X Nat /\ Filed(segs)[p] \in All(segs)
  <2>1. p = <<p[1], p[2]>> /\ p[1] \in DOMAIN segs /\ p[2] \in DOMAIN segs[p[1]].entries
        /\ Filed(segs)[p] = segs[p[1]].entries[p[2]]
    BY FiledAre
  <2>2. p[2] \in Nat
    BY <2>1, SegmentTypes
  <2>3. p \in Nat \X Nat
    BY <2>1, <2>2, <1>1
  <2>4. Filed(segs)[p] \in All(segs)
    BY <2>1, AllAre
  <2> QED BY <2>3, <2>4
<1>3. ASSUME NEW e \in All(segs)
      PROVE  \E p \in DOMAIN Filed(segs) : Filed(segs)[p] = e
  <2>1. PICK i \in DOMAIN segs : \E j \in DOMAIN segs[i].entries : e = segs[i].entries[j]
    BY AllAre
  <2>2. PICK j \in DOMAIN segs[i].entries : e = segs[i].entries[j]
    BY <2>1
  <2>3. <<i, j>> \in DOMAIN Filed(segs)
    BY FiledAre
  <2>4. Filed(segs)[<<i, j>>] = e
    BY <2>2, <2>3, FiledAre
  <2> QED BY <2>3, <2>4
<1> QED BY <1>2, <1>3

\* Rows of a chain come from a chain's entries: what each of them is.
LEMMA ChainRows ==
  ASSUME NEW segs, Sane(segs), NEW n \in Nat, Chain(Filed(segs), n)
  PROVE  /\ \A e \in All(segs) : e \in Rows /\ e.seq \in 1 .. n
         /\ \A e, f \in All(segs) : e.seq = f.seq \/ e.message.key = f.message.key => e = f
         /\ \A k \in 1 .. n : \E e \in All(segs) : e.seq = k
<1> DEFINE F == Filed(segs)
<1>1. /\ DOMAIN F \subseteq Nat \X Nat
      /\ \A p \in DOMAIN F : F[p] \in All(segs)
      /\ \A e \in All(segs) : \E p \in DOMAIN F : F[p] = e
  BY FiledTypes
<1>2. Chain(F, n)
  OBVIOUS
<1> HIDE DEF F
<1>3. \A p, q \in DOMAIN F : F[p].seq = F[q].seq => p = q
  BY <1>1, <1>2, ChainSize
<1>4. \A p \in DOMAIN F : F[p] \in Rows /\ F[p].seq \in 1 .. n
  BY <1>2 DEF Chain
<1>5. \A p, q \in DOMAIN F : F[p].message.key = F[q].message.key => p = q
  BY <1>2 DEF Chain
<1>6. \A k \in 1 .. n : \E p \in DOMAIN F : F[p].seq = k
  BY <1>2 DEF Chain
<1>7. ASSUME NEW e \in All(segs), NEW f \in All(segs),
             e.seq = f.seq \/ e.message.key = f.message.key
      PROVE  e = f
  <2>1. PICK p \in DOMAIN F : F[p] = e
    BY <1>1
  <2>2. PICK q \in DOMAIN F : F[q] = f
    BY <1>1
  <2> QED BY <2>1, <2>2, <1>3, <1>5, <1>7
<1>8. ASSUME NEW k \in 1 .. n
      PROVE  \E e \in All(segs) : e.seq = k
  <2>1. PICK p \in DOMAIN F : F[p].seq = k
    BY <1>6
  <2> QED BY <2>1, <1>1
<1>9. ASSUME NEW e \in All(segs)
      PROVE  e \in Rows /\ e.seq \in 1 .. n
  BY <1>1, <1>4
<1> QED BY <1>7, <1>8, <1>9

\* Marks and empty segments are no rows.
LEMMA FiledSame ==
  ASSUME NEW segs, NEW old,
         \A i \in DOMAIN old : i \in DOMAIN segs /\ segs[i].entries = old[i].entries,
         \A i \in DOMAIN segs : i \in DOMAIN old \/ DOMAIN segs[i].entries = {}
  PROVE  Filed(segs) = Filed(old)
<1>1. ASSUME NEW p
      PROVE  p \in DOMAIN Filed(segs) <=> p \in DOMAIN Filed(old)
  BY FiledAre
<1>2. DOMAIN Filed(segs) = DOMAIN Filed(old)
  BY <1>1
<1>3. ASSUME NEW p \in DOMAIN Filed(old)
      PROVE  Filed(segs)[p] = Filed(old)[p]
  BY <1>2, FiledAre
<1>4. Filed(segs) = [p \in DOMAIN Filed(segs) |-> Filed(segs)[p]]
      /\ Filed(old) = [p \in DOMAIN Filed(old) |-> Filed(old)[p]]
  BY DEF Filed
<1> QED BY <1>2, <1>3, <1>4

LEMMA FiledRoom ==
  ASSUME Sane(segments)
  PROVE  Filed(WithRoom) = Filed(segments) /\ All(WithRoom) = All(segments)
<1>1. /\ Extends(WithRoom, segments) /\ All(WithRoom) \subseteq All(segments)
      /\ \A i \in DOMAIN WithRoom :
           \/ i \in DOMAIN segments /\ WithRoom[i] = segments[i]
           \/ WithRoom[i] = EmptySegment
  BY RoomProperties
<1>2. All(WithRoom) = All(segments)
  BY <1>1 DEF Extends
<1>3. CASE WithRoom = segments
  BY <1>2, <1>3
<1>4. CASE WithRoom # segments
  <2> DEFINE more == Append(segments, EmptySegment)
  <2>0. WithRoom = more
    BY <1>4 DEF WithRoom
  <2>1. segments \in Seq(Segments)
    BY DEF Sane
  <2>2. /\ more \in Seq(Segments) /\ Len(more) = Len(segments) + 1
        /\ \A i \in 1 .. Len(segments) : more[i] = segments[i]
        /\ more[Len(segments) + 1] = EmptySegment
    BY <2>1, EmptyIsSegment, AppendProperties
  <2>3. DOMAIN segments = 1 .. Len(segments) /\ DOMAIN more = 1 .. (Len(segments) + 1)
        /\ Len(segments) \in Nat
    BY <2>1, <2>2, LenProperties
  <2> HIDE DEF more
  <2>4. DOMAIN EmptySegment.entries = {}
    BY DEF EmptySegment
  <2>5. \A i \in DOMAIN segments : i \in DOMAIN more /\ more[i].entries = segments[i].entries
    BY <2>2, <2>3
  <2>6. \A i \in DOMAIN more : i \in DOMAIN segments \/ DOMAIN more[i].entries = {}
    BY <2>2, <2>3, <2>4
  <2>7. Filed(more) = Filed(segments)
    BY <2>5, <2>6, FiledSame
  <2> QED BY <2>0, <2>7, <1>2
<1> QED BY <1>3, <1>4

LEMMA FiledMarked ==
  ASSUME Sane(segments), segments # <<>>, NEW s \in {TornLast, SyncedLast, MendedLast}
  PROVE  Filed(UpdateLast(s)) = Filed(segments) /\ All(UpdateLast(s)) = All(segments)
<1>1. /\ s.entries = LastSegment.entries
      /\ All(UpdateLast(s)) = All(segments)
      /\ DOMAIN UpdateLast(s) = DOMAIN segments
      /\ UpdateLast(s)[Len(segments)] = s
      /\ \A i \in DOMAIN segments : i # Len(segments) => UpdateLast(s)[i] = segments[i]
  BY Marked
<1> DEFINE segs == UpdateLast(s)
<1> HIDE DEF segs
<1>2. \A i \in DOMAIN segments : i \in DOMAIN segs /\ segs[i].entries = segments[i].entries
  BY <1>1 DEF LastSegment, segs
<1>3. \A i \in DOMAIN segs : i \in DOMAIN segments
  BY <1>1 DEF segs
<1>4. Filed(segs) = Filed(segments)
  BY <1>2, <1>3, FiledSame
<1> QED BY <1>1, <1>4 DEF segs

\* The record goes behind every row.
LEMMA FiledWritten ==
  ASSUME Sane(segments), segments # <<>>, ~LastSegment.torn, NEW row \in Rows
  PROVE  LET G == Filed(UpdateLast(Written(LastSegment, row)))
         IN  \E p \in Nat \X Nat :
               /\ \A q \in DOMAIN Filed(segments) : Before(q, p)
               /\ DOMAIN G = DOMAIN Filed(segments) \cup {p}
               /\ G[p] = row
               /\ \A q \in DOMAIN Filed(segments) : G[q] = Filed(segments)[q]
<1> DEFINE segs == UpdateLast(Written(LastSegment, row))
           l == Len(segments)
           n == Len(LastSegment.entries)
           p == <<l, n + 1>>
           F == Filed(segments)
           G == Filed(segs)
<1>1. /\ DOMAIN segs = DOMAIN segments
      /\ \A i \in DOMAIN segments : i # l => segs[i] = segments[i]
  BY WriteProperties
<1>2. segments \in Seq(Segments) /\ DOMAIN segments = 1 .. l /\ l \in Nat /\ l # 0
  BY LenProperties, EmptySeq DEF Sane
<1>3. l \in DOMAIN segments /\ \A i \in DOMAIN segments : i \in Nat /\ i <= l
  BY <1>2
<1>4. LastSegment \in Segments /\ LastSegment.entries \in Seq(Rows \cup {Glued})
      /\ n \in Nat /\ DOMAIN LastSegment.entries = 1 .. n
  BY <1>3, SegmentTypes DEF LastSegment
<1>5. segs[l].entries = Append(LastSegment.entries, row)
  <2>1. segs[l] = Written(LastSegment, row)
    BY <1>3 DEF UpdateLast
  <2>2. Written(LastSegment, row).entries = Append(LastSegment.entries, row)
    BY <1>4 DEF Written, Segments
  <2> QED BY <2>1, <2>2
<1>6. /\ DOMAIN segs[l].entries = 1 .. n + 1
      /\ \A j \in 1 .. n : segs[l].entries[j] = LastSegment.entries[j]
      /\ segs[l].entries[n + 1] = row
  <2>1. row \in Rows \cup {Glued}
    OBVIOUS
  <2>2. /\ Append(LastSegment.entries, row) \in Seq(Rows \cup {Glued})
        /\ Len(Append(LastSegment.entries, row)) = n + 1
        /\ \A j \in 1 .. n : Append(LastSegment.entries, row)[j] = LastSegment.entries[j]
        /\ Append(LastSegment.entries, row)[n + 1] = row
    BY <2>1, <1>4, AppendProperties
  <2>3. DOMAIN Append(LastSegment.entries, row) = 1 .. n + 1
    BY <2>2, LenProperties
  <2> QED BY <2>2, <2>3, <1>5
<1>7. p \in Nat \X Nat /\ p = <<p[1], p[2]>> /\ p[1] = l /\ p[2] = n + 1
  BY <1>2, <1>4
<1> HIDE DEF segs, l, n, p, F, G
<1>8. \A q : q \in DOMAIN F <=>
        q = <<q[1], q[2]>> /\ q[1] \in DOMAIN segments /\ q[2] \in DOMAIN segments[q[1]].entries
  BY FiledAre DEF F
<1>9. \A q : q \in DOMAIN G <=>
        q = <<q[1], q[2]>> /\ q[1] \in DOMAIN segs /\ q[2] \in DOMAIN segs[q[1]].entries
  BY FiledAre DEF G
<1>10. ASSUME NEW q \in DOMAIN F
       PROVE  Before(q, p) /\ q \in DOMAIN G /\ G[q] = F[q]
  <2>1. q = <<q[1], q[2]>> /\ q[1] \in DOMAIN segments /\ q[2] \in DOMAIN segments[q[1]].entries
        /\ F[q] = segments[q[1]].entries[q[2]]
    BY FiledAre DEF F
  <2>2. CASE q[1] = l
    <3>1. q[2] \in 1 .. n
      BY <2>1, <2>2, <1>4 DEF LastSegment, l
    <3>2. Before(q, p)
      BY <3>1, <2>2, <1>7, <1>4 DEF Before
    <3>3. q \in DOMAIN G
      BY <3>1, <2>1, <2>2, <1>9, <1>6, <1>1, <1>4
    <3>4. G[q] = segs[q[1]].entries[q[2]]
      BY <3>3, FiledAre DEF G
    <3>5. F[q] = LastSegment.entries[q[2]]
      BY <2>1, <2>2 DEF LastSegment, l
    <3> QED BY <3>1, <3>2, <3>3, <3>4, <3>5, <2>2, <1>6
  <2>3. CASE q[1] # l
    <3>1. q[1] < l
      BY <2>1, <2>3, <1>3, <1>2
    <3>2. Before(q, p)
      BY <3>1, <1>7 DEF Before
    <3>3. q \in DOMAIN G
      BY <2>1, <2>3, <1>9, <1>1
    <3>4. G[q] = segs[q[1]].entries[q[2]]
      BY <3>3, FiledAre DEF G
    <3> QED BY <3>2, <3>3, <3>4, <2>1, <2>3, <1>1
  <2> QED BY <2>2, <2>3
<1>11. p \in DOMAIN G
  BY <1>7, <1>9, <1>1, <1>3, <1>6, <1>4
<1>12. G[p] = row
  <2>1. G[p] = segs[p[1]].entries[p[2]]
    BY <1>11, FiledAre DEF G
  <2> QED BY <2>1, <1>7, <1>6
<1>13. ASSUME NEW q \in DOMAIN G, q # p
       PROVE  q \in DOMAIN F
  <2>1. q = <<q[1], q[2]>> /\ q[1] \in DOMAIN segments /\ q[2] \in DOMAIN segs[q[1]].entries
    BY <1>9, <1>1
  <2>2. CASE q[1] = l
    <3>1. q[2] \in 1 .. n + 1 /\ q[2] # n + 1
      <4>1. q[2] \in 1 .. n + 1
        BY <2>1, <2>2, <1>6
      <4>2. q[2] # n + 1
        BY <2>1, <2>2, <1>13, <1>7
      <4> QED BY <4>1, <4>2
    <3>2. q[2] \in 1 .. n
      BY <3>1, <1>4
    <3>3. q[2] \in DOMAIN segments[q[1]].entries
      BY <3>2, <2>2, <1>4 DEF LastSegment, l
    <3> QED BY <3>3, <2>1, <1>8
  <2>3. CASE q[1] # l
    BY <2>1, <2>3, <1>1, <1>8
  <2> QED BY <2>2, <2>3
<1>14. DOMAIN G = DOMAIN F \cup {p}
  BY <1>10, <1>11, <1>13
<1>15. /\ \A q \in DOMAIN F : Before(q, p)
       /\ \A q \in DOMAIN F : G[q] = F[q]
  BY <1>10
<1> QED BY <1>7, <1>12, <1>14, <1>15 DEF F, G, segs

\* The machine takes rows from the end of the last segment only.
LEMMA FiledCut ==
  ASSUME Sane(segments), NEW segs, Sane(segs), DOMAIN segs = DOMAIN segments,
         \A i \in DOMAIN segments :
           /\ DOMAIN segs[i].entries \subseteq DOMAIN segments[i].entries
           /\ \A j \in DOMAIN segs[i].entries : segs[i].entries[j] = segments[i].entries[j]
           /\ i # Len(segments) => DOMAIN segs[i].entries = DOMAIN segments[i].entries
  PROVE  /\ DOMAIN Filed(segs) \subseteq DOMAIN Filed(segments)
         /\ \A p \in DOMAIN Filed(segs) : Filed(segs)[p] = Filed(segments)[p]
         /\ \A p \in DOMAIN Filed(segs) : \A q \in DOMAIN Filed(segments) :
              Before(q, p) => q \in DOMAIN Filed(segs)
<1> DEFINE F == Filed(segments)
           G == Filed(segs)
<1>1. \A q : q \in DOMAIN F <=>
        q = <<q[1], q[2]>> /\ q[1] \in DOMAIN segments /\ q[2] \in DOMAIN segments[q[1]].entries
  BY FiledAre
<1>2. \A q : q \in DOMAIN G <=>
        q = <<q[1], q[2]>> /\ q[1] \in DOMAIN segs /\ q[2] \in DOMAIN segs[q[1]].entries
  BY FiledAre
<1>3. /\ \A q \in DOMAIN F : F[q] = segments[q[1]].entries[q[2]]
      /\ \A q \in DOMAIN G : G[q] = segs[q[1]].entries[q[2]]
  BY FiledAre
<1>4. DOMAIN segments = 1 .. Len(segments) /\ Len(segments) \in Nat
  BY LenProperties DEF Sane
<1> HIDE DEF F, G
<1>5. ASSUME NEW p \in DOMAIN G
      PROVE  p \in DOMAIN F /\ G[p] = F[p]
  BY <1>1, <1>2, <1>3
<1>6. ASSUME NEW p \in DOMAIN G, NEW q \in DOMAIN F, Before(q, p)
      PROVE  q \in DOMAIN G
  <2>1. p[1] \in DOMAIN segments /\ p[2] \in DOMAIN segs[p[1]].entries
        /\ q = <<q[1], q[2]>> /\ q[1] \in DOMAIN segments /\ q[2] \in DOMAIN segments[q[1]].entries
    BY <1>1, <1>2
  <2>2. CASE q[1] < p[1]
    <3>1. q[1] # Len(segments)
      BY <2>1, <2>2, <1>4
    <3>2. q[2] \in DOMAIN segs[q[1]].entries
      BY <2>1, <3>1
    <3> QED BY <2>1, <3>2, <1>2
  <2>3. CASE q[1] = p[1] /\ q[2] < p[2]
    <3>1. DOMAIN segs[p[1]].entries = 1 .. Len(segs[p[1]].entries)
          /\ Len(segs[p[1]].entries) \in Nat
      BY <2>1, SegmentTypes
    <3>2. DOMAIN segments[p[1]].entries = 1 .. Len(segments[p[1]].entries)
          /\ Len(segments[p[1]].entries) \in Nat
      BY <2>1, SegmentTypes
    <3>3. q[2] \in DOMAIN segs[q[1]].entries
      BY <2>1, <2>3, <3>1, <3>2
    <3> QED BY <2>1, <3>3, <1>2
  <2> QED BY <1>6, <2>2, <2>3 DEF Before
<1> QED BY <1>5, <1>6 DEF F, G

LEMMA EmptyChain ==
  ASSUME segments = <<>>
  PROVE  /\ All(segments) = {} /\ Reads(Filed(segments), 0, 0, NoID)
         /\ Chain(Filed(segments), 0)
<1>1. All(segments) = {}
  BY AllAre
<1>2. DOMAIN Filed(segments) = {}
  BY FiledAre
<1>3. Chain(Filed(segments), 0)
  BY <1>2 DEF Chain
<1>4. Users(Filed(segments)) = {}
  BY <1>2 DEF Users
<1>5. Cardinality(Users(Filed(segments))) = 0
  BY <1>4, FS_EmptySet
<1> QED BY <1>1, <1>3, <1>5 DEF Reads

\* A chain is what loadMessageSegments accepts.
LEMMA ChainReadable ==
  ASSUME Sane(segments), NEW n \in Nat, Chain(Filed(segments), n),
         \A i \in DOMAIN segments : segments[i].torn => i = Len(segments)
  PROVE  Readable
<1> DEFINE F == Filed(segments)
<1>1. DOMAIN F = Positions
  BY DEF Filed, PositionsIn, Positions
<1>2. \A p \in Positions : At(p) = F[p]
  BY <1>1, FiledAre DEF At
<1>3. DOMAIN F \subseteq Nat \X Nat
  BY FiledTypes
<1>4. Chain(F, n)
  OBVIOUS
<1> HIDE DEF F
<1>5. \A p \in DOMAIN F : F[p] \in Rows /\ F[p].seq \in 1 .. n
  BY <1>4 DEF Chain
<1>6. \A p, q \in DOMAIN F : Before(p, q) <=> F[p].seq < F[q].seq
  BY <1>4 DEF Chain
<1>7. \A k \in 1 .. n : \E p \in DOMAIN F : F[p].seq = k
  BY <1>4 DEF Chain
<1>8. Glued \notin Journal
  <2>1. \A p \in Positions : At(p) \in Rows
    BY <1>1, <1>2, <1>5
  <2> QED BY <2>1, GluedIsNoRow DEF Journal
<1>9. ASSUME NEW p \in Positions, IsFirst(p)
      PROVE  At(p).seq = 1 /\ At(p).prev = NoID
  <2>1. p \in DOMAIN F /\ \A q \in DOMAIN F : ~Before(q, p)
    BY <1>9, <1>1 DEF IsFirst
  <2>2. F[p].seq \in 1 .. n
    BY <2>1, <1>5
  <2>3. 1 \in 1 .. n
    BY <2>2
  <2>4. PICK q \in DOMAIN F : F[q].seq = 1
    BY <2>3, <1>7
  <2>5. ~(F[q].seq < F[p].seq)
    BY <2>1, <2>4, <1>6
  <2>6. F[p].seq = 1
    BY <2>2, <2>4, <2>5
  <2>7. F[p].prev = NoID
    BY <2>1, <2>6, <1>4 DEF Chain
  <2> QED BY <2>6, <2>7, <1>2
<1>10. ASSUME NEW p \in Positions, NEW q \in Positions, Follows(q, p)
       PROVE  At(q).seq = At(p).seq + 1 /\ At(q).prev = At(p).id
  <2>1. p \in DOMAIN F /\ q \in DOMAIN F /\ Before(p, q)
        /\ \A o \in DOMAIN F : ~(Before(p, o) /\ Before(o, q))
    BY <1>10, <1>1 DEF Follows
  <2>2. F[p].seq \in 1 .. n /\ F[q].seq \in 1 .. n /\ F[p].seq < F[q].seq
    BY <2>1, <1>5, <1>6
  <2>3. F[p].seq + 1 \in 1 .. n
    BY <2>2
  <2>4. PICK o \in DOMAIN F : F[o].seq = F[p].seq + 1
    BY <2>3, <1>7
  <2>5. Before(p, o)
    BY <2>1, <2>2, <2>4, <1>6
  <2>6. ~(F[o].seq < F[q].seq)
    BY <2>1, <2>4, <2>5, <1>6
  <2>7. F[q].seq = F[p].seq + 1
    BY <2>2, <2>4, <2>6
  <2>8. F[q].prev = F[p].id
    BY <2>1, <2>7, <1>4 DEF Chain
  <2> QED BY <2>7, <2>8, <1>2
<1>11. Chained
  BY <1>8, <1>9, <1>10 DEF Chained
<1> QED BY <1>11 DEF Readable

\* The counters that reading a chain sets are those of its last row, and no
\* others: reading again gives the same.
LEMMA ChainReads ==
  ASSUME Sane(segments), NEW n \in Nat, Chain(Filed(segments), n)
  PROVE  /\ Reads(Filed(segments), ReadSeq, ReadTurn, ReadID)
         /\ ReadSeq = n
         /\ \A t, id : Reads(Filed(segments), n, t, id) => t = ReadTurn /\ id = ReadID
<1> DEFINE F == Filed(segments)
<1>1. DOMAIN F = Positions
  BY DEF Filed, PositionsIn, Positions
<1>2. \A p \in Positions : At(p) = F[p]
  BY <1>1, FiledAre DEF At
<1>3. DOMAIN F \subseteq Nat \X Nat
  BY FiledTypes
<1>4. Chain(F, n)
  OBVIOUS
<1> HIDE DEF F
<1>5. \A p \in DOMAIN F : F[p] \in Rows /\ F[p].seq \in 1 .. n
  BY <1>4 DEF Chain
<1>6. /\ \A p, q \in DOMAIN F : F[p].seq = F[q].seq => p = q
      /\ IsFiniteSet(DOMAIN F) /\ Cardinality(DOMAIN F) = n
  BY <1>3, <1>4, ChainSize
<1>7. ReadSeq = n
  BY <1>1, <1>6 DEF ReadSeq
<1>8. IsFiniteSet(Users(F)) /\ Cardinality(Users(F)) \in Nat
  <2>1. Users(F) \in SUBSET DOMAIN F
    BY DEF Users
  <2> QED BY <2>1, <1>6, FS_Subset, FS_CardinalityType
<1>9. CASE n = 0
  <2>1. Positions = {}
    BY <1>9, <1>1, <1>5
  <2>2. Users(F) = {}
    BY <2>1, <1>1 DEF Users
  <2>3. Cardinality(Users(F)) = 0
    BY <2>2, FS_EmptySet
  <2>4. ReadTurn = 0 /\ ReadID = NoID
    BY <2>1 DEF ReadTurn, ReadID
  <2>5. Reads(F, ReadSeq, ReadTurn, ReadID)
    BY <2>3, <2>4, <1>4, <1>7, <1>9 DEF Reads
  <2>6. \A t, id : Reads(F, n, t, id) => t = ReadTurn /\ id = ReadID
    BY <2>3, <2>4, <1>9 DEF Reads
  <2> QED BY <2>5, <2>6, <1>7 DEF F
<1>10. CASE n # 0
  <2>1. n \in 1 .. n
    BY <1>10
  <2>2. PICK l \in DOMAIN F : F[l].seq = n
    BY <2>1, <1>4 DEF Chain
  <2>3. Positions # {} /\ l \in Positions
    BY <2>2, <1>1
  <2>4. \A p \in DOMAIN F : p = l \/ Before(p, l)
    <3>1. ASSUME NEW p \in DOMAIN F, p # l
          PROVE  Before(p, l)
      <4>1. F[p].seq \in 1 .. n /\ F[p].seq # n
        BY <3>1, <2>2, <1>5, <1>6
      <4>2. F[p].seq < F[l].seq
        BY <4>1, <2>2
      <4> QED BY <4>2, <1>4 DEF Chain
    <3> QED BY <3>1
  <2>5. F[l].turn = Cardinality(Users(F))
    <3>1. UsersTo(F, l) = Users(F)
      BY <2>4 DEF UsersTo, Users
    <3> QED BY <3>1, <1>4 DEF Chain
  <2>6. \A p \in DOMAIN F : F[p].turn \in Nat /\ F[p].turn <= F[l].turn
    <3>1. ASSUME NEW p \in DOMAIN F
          PROVE  F[p].turn <= F[l].turn /\ F[p].turn \in Nat
      <4>1. UsersTo(F, p) \in SUBSET Users(F)
        BY DEF UsersTo, Users
      <4>2. Cardinality(UsersTo(F, p)) <= Cardinality(Users(F))
        BY <4>1, <1>8, FS_Subset
      <4>3. F[p].turn = Cardinality(UsersTo(F, p))
        BY <1>4 DEF Chain
      <4>4. F[p] \in Rows
        BY <1>5
      <4> QED BY <4>2, <4>3, <4>4, <2>5 DEF Rows
    <3> QED BY <3>1
  <2> DEFINE T == {r.turn : r \in Journal}
  <2>7. F[l].turn \in T /\ \A u \in T : u \in Nat /\ u <= F[l].turn
    <3>1. Journal = {F[p] : p \in DOMAIN F}
      BY <1>1, <1>2 DEF Journal
    <3> QED BY <3>1, <2>6
  <2>8. (\A r \in Journal : r.turn <= F[l].turn)
    BY <2>7
  <2>9. ReadTurn \in T /\ \A r \in Journal : r.turn <= ReadTurn
    <3>1. ReadTurn = CHOOSE t \in T : \A r \in Journal : r.turn <= t
      BY <2>3 DEF ReadTurn
    <3> QED BY <3>1, <2>7, <2>8
  <2>10. ReadTurn <= F[l].turn /\ F[l].turn <= ReadTurn /\ ReadTurn \in Nat /\ F[l].turn \in Nat
    BY <2>7, <2>9, <2>2, <2>6
  <2>11. ReadTurn = Cardinality(Users(F))
    BY <2>10, <2>5
  <2>12. IsLast(l)
    <3>1. ASSUME NEW q \in Positions
          PROVE  ~Before(l, q)
      <4>1. q \in DOMAIN F /\ q \in Nat \X Nat /\ l \in Nat \X Nat
        BY <1>1, <1>3
      <4> QED BY <4>1, <2>4, InOrder
    <3> QED BY <3>1 DEF IsLast
  <2>13. \A q \in Positions : IsLast(q) => q = l
    BY <2>2, <2>4, <1>1 DEF IsLast
  <2>14. (CHOOSE p \in Positions : IsLast(p)) = l
    BY <2>3, <2>12, <2>13
  <2>15. ReadID = F[l].id
    BY <2>3, <2>14, <1>2 DEF ReadID
  <2>16. Reads(F, ReadSeq, ReadTurn, ReadID)
    BY <2>2, <2>11, <2>15, <1>4, <1>7, <1>10 DEF Reads
  <2>17. ASSUME NEW t, NEW id, Reads(F, n, t, id)
         PROVE  t = ReadTurn /\ id = ReadID
    <3>1. t = Cardinality(Users(F)) /\ \E p \in DOMAIN F : F[p].seq = n /\ F[p].id = id
      BY <2>17, <1>10 DEF Reads
    <3>2. PICK p \in DOMAIN F : F[p].seq = n /\ F[p].id = id
      BY <3>1
    <3>3. p = l
      BY <3>2, <2>2, <1>6
    <3> QED BY <3>1, <3>2, <3>3, <2>11, <2>15
  <2> QED BY <2>16, <2>17, <1>7 DEF F
<1> QED BY <1>9, <1>10

-----------------------------------------------------------------------------
(***************************************************************************)
(* The invariant of the chain, phase by phase.                             *)
(***************************************************************************)

\* While the store serves, the counters are those of the last row, or of the
\* row that is being appended.
UpInv ==
  phase = "up" =>
    /\ append.step \in {"idle", "archived", "indexed"} =>
         Reads(Filed(segments), messageSeq, turnSeq, lastID)
    /\ append.step = "ensured" =>
         /\ append.row.prev = lastID
         /\ \E t \in Nat :
              /\ Reads(Filed(segments), messageSeq - 1, t, lastID)
              /\ turnSeq = Plus(t, append.row.message)
    /\ append.step = "written" =>
         Reads(Filed(segments), messageSeq, turnSeq, append.row.id)
    /\ append.step \in {"ensured", "written"} => append.row.id \notin IDs(messages)

\* The table has every row, but for the one that is being appended.
TableInv ==
  phase = "up" =>
    All(segments) =
      IF append.step \in {"written", "archived"} THEN index \cup {append.row} ELSE index

\* So has the map, unless it was released or filled by an import.
MapInv ==
  phase = "up" =>
    /\ LowRAM => messages = {}
    /\ ~LowRAM /\ (Start = "imported" => Legacy = <<>>) =>
         All(segments) = IF append.step = "written" THEN messages \cup {append.row} ELSE messages

LegacyTurn(k) == Cardinality({j \in 1 .. k : Legacy[j].message.user})

\* The rows of messages.jsonl behind the first k.
Rest(k) == {Numbered(i) : i \in k + 1 .. Len(Legacy)}

\* A migration has moved the first k rows of messages.jsonl, in their order.
MovingInv ==
  phase = "migrating" =>
    /\ Legacy # <<>>
    /\ messageSeq = Len(Legacy) /\ turnSeq = LegacyTurn(Len(Legacy))
    /\ \A e \in All(segments) : e.seq \in DOMAIN Legacy /\ Alike(e, Legacy[e.seq])
    /\ \E k \in 0 .. Len(Legacy) :
         /\ messages = {e \in All(segments) : e.seq <= k} \cup Rest(k)
         /\ append.step \in {"idle", "ensured"} =>
              Reads(Filed(segments), k, LegacyTurn(k), lastID)
         /\ append.step # "idle" =>
              k < Len(Legacy) /\ append.row = [Numbered(k + 1) EXCEPT !.prev = lastID]
         /\ append.step = "written" =>
              /\ append.row \in All(segments)
              /\ Reads(Filed(segments), k + 1, LegacyTurn(k + 1), append.row.id)

\* The daemon is stopped with a chain it can open, or has just opened it.
OpenedInv ==
  /\ phase = "indexing" =>
       /\ Reads(Filed(segments), messageSeq, turnSeq, lastID)
       /\ messages = All(segments)
  /\ Stopped =>
       /\ messageSeq = 0 /\ turnSeq = 0 /\ lastID = NoID
       /\ \E n \in Nat : Chain(Filed(segments), n)
       /\ \A i \in DOMAIN segments : segments[i].torn => i = Len(segments)
  /\ phase # "refused"

\* Until there are segments, messages.jsonl is as it was found.
UnstartedInv ==
  segments = <<>> =>
    /\ file \in {{}, LegacyRows}
    /\ phase = "up" => messages \in {{}, LegacyRows}

ChainInv == UpInv /\ TableInv /\ MapInv /\ MovingInv /\ OpenedInv /\ UnstartedInv

\* What the first invariant says where nothing is cut short.
LEMMA WholeSegments ==
  ASSUME CleanFailures, ArchiveInv
  PROVE  /\ BaseInv /\ Sane(segments) /\ Glued \notin All(segments)
         /\ ~Stopped => \A i \in DOMAIN segments : ~segments[i].torn
         /\ segments # <<>> => Len(segments) \in DOMAIN segments
<1>1. BaseInv /\ WholeInv /\ "short" \notin Faults
  BY DEF ArchiveInv, BaseInv, CleanFailures
<1>2. Sane(segments)
  BY <1>1, TypedIsSane DEF BaseInv
<1>3. segments # <<>> => Len(segments) \in DOMAIN segments
  BY <1>2, LastProperties, EmptyIsSegment
<1> QED BY <1>1, <1>2, <1>3 DEF WholeInv

\* There always is a chain.
LEMMA SomeChain ==
  ASSUME CleanFailures, ArchiveInv, ChainInv
  PROVE  \E n \in Nat : Chain(Filed(segments), n)
<1>1. BaseInv /\ messageSeq \in Nat /\ phase \in {"down", "migrating", "indexing", "up", "refused"}
  BY WholeSegments DEF BaseInv, Typed
<1>2. append.step \in {"idle", "ensured", "written", "archived", "indexed"}
  BY <1>1, InProgress DEF Steps
<1>3. CASE phase = "up"
  <2>1. UpInv
    BY DEF ChainInv
  <2>2. CASE append.step \in {"idle", "archived", "indexed"}
    BY <2>1, <2>2, <1>1, <1>3 DEF UpInv, Reads
  <2>3. CASE append.step = "ensured"
    <3>1. messageSeq > 0
      BY <2>3, <1>1, <1>3, InProgress DEF BaseInv, StepInv, Steps
    <3>2. messageSeq - 1 \in Nat
      BY <3>1, <1>1
    <3>3. Chain(Filed(segments), messageSeq - 1)
      BY <2>1, <2>3, <1>3 DEF UpInv, Reads
    <3> QED BY <3>2, <3>3
  <2>4. CASE append.step = "written"
    BY <2>1, <2>4, <1>1, <1>3 DEF UpInv, Reads
  <2> QED BY <1>2, <2>2, <2>3, <2>4
<1>4. CASE phase = "migrating"
  <2>1. append.step \in {"idle", "ensured", "written"}
    BY <1>1, <1>2, <1>4 DEF BaseInv, StepInv
  <2>2. PICK k \in 0 .. Len(Legacy) :
          /\ append.step \in {"idle", "ensured"} =>
               Reads(Filed(segments), k, LegacyTurn(k), lastID)
          /\ append.step = "written" =>
               Reads(Filed(segments), k + 1, LegacyTurn(k + 1), append.row.id)
    BY <1>4 DEF ChainInv, MovingInv
  <2>3. k \in Nat /\ k + 1 \in Nat
    OBVIOUS
  <2> QED BY <2>1, <2>2, <2>3 DEF Reads
<1>5. CASE phase = "indexing"
  BY <1>1, <1>5 DEF ChainInv, OpenedInv, Reads
<1>6. CASE Stopped
  BY <1>6 DEF ChainInv, OpenedInv
<1> QED BY <1>1, <1>3, <1>4, <1>5, <1>6 DEF Stopped

\* The invariant, by the phase that a step leads to.
LEMMA StepsUp ==
  ASSUME phase' = "up", UpInv', TableInv', MapInv',
         segments' = <<>> => file' \in {{}, LegacyRows} /\ messages' \in {{}, LegacyRows}
  PROVE  ChainInv'
<1>1. MovingInv' /\ OpenedInv'
  BY DEF MovingInv, OpenedInv, Stopped
<1>2. UnstartedInv'
  BY DEF UnstartedInv
<1> QED BY <1>1, <1>2 DEF ChainInv

LEMMA StepsMoving ==
  ASSUME phase' = "migrating", MovingInv', segments' = <<>> => file' \in {{}, LegacyRows}
  PROVE  ChainInv'
<1>1. UpInv' /\ TableInv' /\ MapInv'
  BY DEF UpInv, TableInv, MapInv
<1>2. OpenedInv' /\ UnstartedInv'
  BY DEF OpenedInv, UnstartedInv, Stopped
<1> QED BY <1>1, <1>2 DEF ChainInv

LEMMA StepsOpened ==
  ASSUME phase' = "indexing", segments' = <<>> => file' \in {{}, LegacyRows},
         Reads(Filed(segments'), messageSeq', turnSeq', lastID'), messages' = All(segments')
  PROVE  ChainInv'
<1>1. UpInv' /\ TableInv' /\ MapInv' /\ MovingInv'
  BY DEF UpInv, TableInv, MapInv, MovingInv
<1>2. OpenedInv' /\ UnstartedInv'
  BY DEF OpenedInv, UnstartedInv, Stopped
<1> QED BY <1>1, <1>2 DEF ChainInv

LEMMA StepsDown ==
  ASSUME Ended, \E n \in Nat : Chain(Filed(segments'), n),
         \A i \in DOMAIN segments' : segments'[i].torn => i = Len(segments'),
         segments' = <<>> => file' \in {{}, LegacyRows}
  PROVE  ChainInv'
<1>1. phase' = "down" /\ messageSeq' = 0 /\ turnSeq' = 0 /\ lastID' = NoID
  BY DEF Ended, Emptied
<1>2. UpInv' /\ TableInv' /\ MapInv' /\ MovingInv'
  BY <1>1 DEF UpInv, TableInv, MapInv, MovingInv
<1>3. OpenedInv' /\ UnstartedInv'
  BY <1>1 DEF OpenedInv, UnstartedInv
<1> QED BY <1>2, <1>3 DEF ChainInv

\* Every row is behind the others: the entries are those and the row.
LEMMA AllWritten ==
  ASSUME Sane(segments), segments # <<>>, ~LastSegment.torn, NEW row \in Rows
  PROVE  LET segs == UpdateLast(Written(LastSegment, row))
         IN  Sane(segs) /\ All(segs) = All(segments) \cup {row}
<1> DEFINE segs == UpdateLast(Written(LastSegment, row))
           F == Filed(segments)
           G == Filed(segs)
<1>1. Sane(segs)
  BY WriteProperties
<1>2. PICK p \in Nat \X Nat :
        /\ DOMAIN G = DOMAIN F \cup {p} /\ G[p] = row
        /\ \A q \in DOMAIN F : G[q] = F[q]
  BY FiledWritten
<1>3. /\ \A q \in DOMAIN F : F[q] \in All(segments)
      /\ \A e \in All(segments) : \E q \in DOMAIN F : F[q] = e
  BY FiledTypes
<1> HIDE DEF segs
<1>4. /\ \A q \in DOMAIN G : G[q] \in All(segs)
      /\ \A e \in All(segs) : \E q \in DOMAIN G : G[q] = e
  BY <1>1, FiledTypes
<1> HIDE DEF F, G
<1>5. ASSUME NEW e \in All(segs)
      PROVE  e \in All(segments) \cup {row}
  <2>1. PICK q \in DOMAIN G : G[q] = e
    BY <1>4
  <2> QED BY <2>1, <1>2, <1>3
<1>6. ASSUME NEW e \in All(segments)
      PROVE  e \in All(segs)
  <2>1. PICK q \in DOMAIN F : F[q] = e
    BY <1>3
  <2> QED BY <2>1, <1>2, <1>4
<1>7. row \in All(segs)
  BY <1>2, <1>4
<1>8. All(segs) = All(segments) \cup {row}
  BY <1>5, <1>6, <1>7
<1> QED BY <1>1, <1>8 DEF segs

\* The record that is written continues the chain.
LEMMA WriteGrows ==
  ASSUME CleanFailures, ArchiveInv, WriteRecord, NEW n \in Nat, NEW t,
         Reads(Filed(segments), n, t, append.row.prev),
         append.row.seq = n + 1, append.row.turn = Plus(t, append.row.message),
         \A e \in All(segments) : e.message.key # append.row.message.key
  PROVE  /\ Reads(Filed(segments'), n + 1, append.row.turn, append.row.id)
         /\ All(segments') = All(segments) \cup {append.row}
<1> DEFINE row == append.row
           F == Filed(segments)
           G == Filed(segments')
<1>1. /\ BaseInv /\ Sane(segments) /\ Glued \notin All(segments)
      /\ ~Stopped => \A i \in DOMAIN segments : ~segments[i].torn
      /\ segments # <<>> => Len(segments) \in DOMAIN segments
  BY WholeSegments
<1>2. row \in Rows /\ segments # <<>> /\ phase \in {"up", "migrating"}
  BY <1>1, InProgress DEF WriteRecord, Steps
<1>3. ~LastSegment.torn
  BY <1>1, <1>2 DEF LastSegment, Stopped
<1>4. segments' = UpdateLast(Written(LastSegment, row))
  BY DEF WriteRecord
<1>4a. \E p \in Nat \X Nat :
         /\ \A q \in DOMAIN F : Before(q, p)
         /\ DOMAIN Filed(UpdateLast(Written(LastSegment, row))) = DOMAIN F \cup {p}
         /\ Filed(UpdateLast(Written(LastSegment, row)))[p] = row
         /\ \A q \in DOMAIN F : Filed(UpdateLast(Written(LastSegment, row)))[q] = F[q]
  <2> HIDE DEF row
  <2> QED BY <1>1, <1>2, <1>3, FiledWritten
<1>5. PICK p \in Nat \X Nat :
        /\ \A q \in DOMAIN F : Before(q, p)
        /\ DOMAIN G = DOMAIN F \cup {p} /\ G[p] = row
        /\ \A q \in DOMAIN F : G[q] = F[q]
  BY <1>4, <1>4a, Zenon
<1>6. DOMAIN F \subseteq Nat \X Nat /\ \A q \in DOMAIN F : F[q] \in All(segments)
  BY <1>1, FiledTypes
<1>7. \A q \in DOMAIN F : F[q].message.key # row.message.key
  BY <1>6
<1>8. Reads(F, n, t, row.prev) /\ row.seq = n + 1 /\ row.turn = Plus(t, row.message)
  OBVIOUS
<1>9. All(segments') = All(segments) \cup {row}
  BY <1>1, <1>2, <1>3, <1>4, AllWritten
<1> HIDE DEF F, G, row
<1>10. DOMAIN F \subseteq Nat \X Nat /\ row \in Rows /\ p \in Nat \X Nat
  BY <1>2, <1>5, <1>6
<1>11. Reads(G, n + 1, row.turn, row.id)
  <2> DEFINE id == row.prev
  <2>1. Reads(F, n, t, id) /\ row.prev = id
    BY <1>8
  <2> HIDE DEF id
  <2> QED BY <1>5, <1>7, <1>8, <1>10, <2>1, ChainGrows
<1> QED BY <1>9, <1>11 DEF G, row

-----------------------------------------------------------------------------
(***************************************************************************)
(* The chain while the store serves.                                       *)
(***************************************************************************)

LEMMA ServingParts ==
  ASSUME CleanFailures, ArchiveInv, ChainInv, phase = "up"
  PROVE  /\ BaseInv /\ Sane(segments)
         /\ UpInv /\ TableInv /\ MapInv
         /\ messageSeq \in Nat /\ turnSeq \in Nat
         /\ segments = <<>> => file \in {{}, LegacyRows} /\ messages \in {{}, LegacyRows}
         /\ append.step \in Steps =>
              /\ append # Idle /\ append.row \in Rows /\ segments # <<>>
              /\ messageSeq = append.row.seq /\ messageSeq > 0 /\ turnSeq = append.row.turn
<1>1. BaseInv /\ Sane(segments)
  BY WholeSegments
<1>2. UpInv /\ TableInv /\ MapInv /\ UnstartedInv
  BY DEF ChainInv
<1>3. messageSeq \in Nat /\ turnSeq \in Nat
  BY <1>1 DEF BaseInv, Typed
<1>4. append.step \in Steps =>
        /\ append # Idle /\ append.row \in Rows /\ segments # <<>>
        /\ messageSeq = append.row.seq /\ messageSeq > 0 /\ turnSeq = append.row.turn
  BY <1>1, InProgress DEF BaseInv, StepInv
<1> QED BY <1>1, <1>2, <1>3, <1>4 DEF UnstartedInv

LEMMA ReplayedChain ==
  ASSUME ChainInv, UNCHANGED <<segments, file, index, messages, counters, phase, append>>
  PROVE  ChainInv'
<1>1. UpInv' /\ TableInv' /\ MapInv'
  BY DEF ChainInv, UpInv, TableInv, MapInv, counters
<1>2. MovingInv'
  BY DEF ChainInv, MovingInv, counters
<1>3. OpenedInv' /\ UnstartedInv'
  BY DEF ChainInv, OpenedInv, UnstartedInv, Stopped, counters
<1> QED BY <1>1, <1>2, <1>3 DEF ChainInv

LEMMA InsertChain ==
  ASSUME CleanFailures, ArchiveInv, ChainInv, NEW m \in Messages, Insert(m)
  PROVE  ChainInv'
<1>1. PICK id \in Fresh : append' = Doing("ensured", NewRow(m, id))
  BY DEF Insert
<1>2. /\ phase = "up" /\ phase' = "up" /\ append = Idle
      /\ messageSeq' = messageSeq + 1 /\ turnSeq' = Turn(m) /\ segments' = WithRoom
      /\ UNCHANGED <<file, index, messages, lastID>>
  BY DEF Insert, Serving
<1>3. /\ BaseInv /\ Sane(segments) /\ UpInv /\ TableInv /\ MapInv
      /\ messageSeq \in Nat /\ turnSeq \in Nat
  BY <1>2, ServingParts
<1>4. append.step = "idle"
  BY <1>2, <1>3, InProgress
<1>5. Filed(segments') = Filed(segments) /\ All(segments') = All(segments)
  BY <1>2, <1>3, FiledRoom
<1>6. segments' # <<>>
  BY <1>2, <1>3, RoomProperties
<1>7. id \in RowIDs /\ id \notin IDs(messages)
  BY DEF Fresh
<1>8. /\ NewRow(m, id) \in Rows /\ NewRow(m, id).id = id /\ NewRow(m, id).message = m
      /\ NewRow(m, id).prev = lastID
  BY <1>3, <1>7, NewRowTypes
<1>9. append'.step = "ensured" /\ append'.row = NewRow(m, id)
  BY <1>1, <1>8, DoingShape DEF Steps
<1>10. Reads(Filed(segments), messageSeq, turnSeq, lastID)
  BY <1>2, <1>3, <1>4 DEF UpInv
<1>11. messageSeq' - 1 = messageSeq /\ turnSeq' = Plus(turnSeq, append'.row.message)
  BY <1>2, <1>3, <1>8, <1>9 DEF Plus, Turn
<1>12. Reads(Filed(segments'), messageSeq' - 1, turnSeq, lastID')
  BY <1>2, <1>5, <1>10, <1>11
<1>13. append'.row.id \notin IDs(messages') /\ append'.row.prev = lastID'
  BY <1>2, <1>7, <1>8, <1>9
<1>14. UpInv'
  BY <1>3, <1>9, <1>11, <1>12, <1>13 DEF UpInv
<1>15. TableInv' /\ MapInv'
  BY <1>2, <1>3, <1>4, <1>5, <1>9 DEF TableInv, MapInv
<1> QED BY <1>2, <1>6, <1>14, <1>15, StepsUp

LEMMA WriteChainUp ==
  ASSUME CleanFailures, ArchiveInv, ChainInv, phase = "up", WriteRecord
  PROVE  ChainInv'
<1>1. /\ append.step = "ensured" /\ append' = [append EXCEPT !.step = "written"]
      /\ UNCHANGED <<file, index, messages, messageSeq, turnSeq, lastID, phase>>
  BY DEF WriteRecord, counters
<1>2. /\ BaseInv /\ Sane(segments) /\ UpInv /\ TableInv /\ MapInv
      /\ messageSeq \in Nat /\ turnSeq \in Nat
      /\ append # Idle /\ append.row \in Rows /\ segments # <<>>
      /\ messageSeq = append.row.seq /\ messageSeq > 0 /\ turnSeq = append.row.turn
  BY <1>1, ServingParts DEF Steps
<1>3. append'.step = "written" /\ append'.row = append.row
  BY <1>1, <1>2, MovedOn DEF Steps
<1>4. append.row.prev = lastID /\ append.row.id \notin IDs(messages)
  BY <1>1, <1>2 DEF UpInv
<1>5. PICK t \in Nat : /\ Reads(Filed(segments), messageSeq - 1, t, lastID)
                       /\ turnSeq = Plus(t, append.row.message)
  BY <1>1, <1>2 DEF UpInv
<1>6. messageSeq - 1 \in Nat /\ (messageSeq - 1) + 1 = messageSeq
  BY <1>2
<1>7. \A e \in All(segments) : e.message.key # append.row.message.key
  <2>1. All(segments) = index
    BY <1>1, <1>2 DEF TableInv
  <2>2. \A r \in index : r.message.key # append.row.message.key
    BY <1>1 DEF ArchiveInv, AnswerInv
  <2> QED BY <2>1, <2>2
<1>8. /\ Reads(Filed(segments'), (messageSeq - 1) + 1, append.row.turn, append.row.id)
      /\ All(segments') = All(segments) \cup {append.row}
  <2>1. append.row.seq = (messageSeq - 1) + 1
    BY <1>2, <1>6
  <2>2. append.row.turn = Plus(t, append.row.message)
    BY <1>2, <1>5
  <2>3. Reads(Filed(segments), messageSeq - 1, t, append.row.prev)
    BY <1>4, <1>5
  <2> QED BY <1>6, <1>7, <2>1, <2>2, <2>3, WriteGrows
<1>9. Reads(Filed(segments'), messageSeq', turnSeq', append'.row.id)
  BY <1>1, <1>2, <1>3, <1>6, <1>8
<1>10. UpInv'
  BY <1>1, <1>3, <1>4, <1>9 DEF UpInv
<1>11. TableInv'
  BY <1>1, <1>2, <1>3, <1>8 DEF TableInv
<1>12. MapInv'
  BY <1>1, <1>2, <1>3, <1>8 DEF MapInv
<1>13. segments' # <<>>
  <2>1. segments' = UpdateLast(Written(LastSegment, append.row))
    BY DEF WriteRecord
  <2> QED BY <2>1, <1>2, WriteProperties
<1> QED BY <1>1, <1>10, <1>11, <1>12, <1>13, StepsUp

LEMMA SyncChainUp ==
  ASSUME CleanFailures, ArchiveInv, ChainInv, phase = "up", SyncRecord
  PROVE  ChainInv'
<1>1. /\ append.step = "written" /\ append' = [append EXCEPT !.step = "archived"]
      /\ lastID' = append.row.id /\ segments' = UpdateLast(SyncedLast)
      /\ messages' = IF LowRAM THEN messages
                     ELSE {r \in messages : r.id # append.row.id} \cup {append.row}
      /\ UNCHANGED <<file, index, messageSeq, turnSeq, phase>>
  BY DEF SyncRecord, SyncedLast
<1>2. /\ BaseInv /\ Sane(segments) /\ UpInv /\ TableInv /\ MapInv
      /\ append # Idle /\ append.row \in Rows /\ segments # <<>>
  BY <1>1, ServingParts DEF Steps
<1>3. append'.step = "archived" /\ append'.row = append.row
  BY <1>1, <1>2, MovedOn DEF Steps
<1>4. Filed(segments') = Filed(segments) /\ All(segments') = All(segments) /\ segments' # <<>>
  BY <1>1, <1>2, FiledMarked, Marked
<1>5. Reads(Filed(segments'), messageSeq', turnSeq', lastID')
  BY <1>1, <1>2, <1>4 DEF UpInv
<1>6. UpInv'
  BY <1>3, <1>5 DEF UpInv
<1>7. TableInv'
  BY <1>1, <1>2, <1>3, <1>4 DEF TableInv
<1>8. {r \in messages : r.id # append.row.id} = messages
  <2>1. append.row.id \notin IDs(messages)
    BY <1>1, <1>2 DEF UpInv
  <2> QED BY <2>1 DEF IDs
<1>9. MapInv'
  <2>1. LowRAM => messages' = {}
    BY <1>1, <1>2 DEF MapInv
  <2>2. ASSUME ~LowRAM, Start = "imported" => Legacy = <<>>
        PROVE  All(segments') = messages'
    <3>1. All(segments) = messages \cup {append.row}
      BY <2>2, <1>1, <1>2 DEF MapInv
    <3> QED BY <2>2, <3>1, <1>1, <1>4, <1>8
  <2> QED BY <2>1, <2>2, <1>3 DEF MapInv
<1> QED BY <1>1, <1>4, <1>6, <1>7, <1>9, StepsUp

LEMMA AnswerChain ==
  ASSUME CleanFailures, ArchiveInv, ChainInv, UpsertMessage \/ Answer
  PROVE  ChainInv'
<1>1. BaseInv /\ append.step \in {"archived", "indexed"} /\ append.step \in Steps
  BY WholeSegments DEF UpsertMessage, Answer, Steps
<1>2. phase = "up" /\ phase' = "up"
      /\ UNCHANGED <<segments, messages, messageSeq, turnSeq, lastID>>
  BY <1>1 DEF BaseInv, StepInv, UpsertMessage, Answer, counters
<1>3. /\ UpInv /\ TableInv /\ MapInv
      /\ append # Idle /\ append.row \in Rows /\ segments # <<>>
  BY <1>1, <1>2, ServingParts
<1>4. Reads(Filed(segments'), messageSeq', turnSeq', lastID')
  BY <1>1, <1>2, <1>3 DEF UpInv
<1>5. CASE UpsertMessage
  <2>1. append'.step = "indexed" /\ append'.row = append.row
    BY <1>1, <1>3, <1>5, MovedOn DEF UpsertMessage, Steps
  <2>2. append.step = "archived" /\ index' = index \cup {append.row}
    BY <1>5 DEF UpsertMessage
  <2>3. UpInv' /\ TableInv' /\ MapInv'
    BY <2>1, <2>2, <1>2, <1>3, <1>4 DEF UpInv, TableInv, MapInv
  <2> QED BY <2>3, <1>2, <1>3, StepsUp
<1>6. CASE Answer
  <2>1. append'.step = "idle" /\ append.step = "indexed" /\ index' = index
    BY <1>6 DEF Answer, Idle
  <2>2. UpInv' /\ TableInv' /\ MapInv'
    BY <2>1, <1>2, <1>3, <1>4 DEF UpInv, TableInv, MapInv
  <2> QED BY <2>2, <1>2, <1>3, StepsUp
<1> QED BY <1>5, <1>6

-----------------------------------------------------------------------------
(***************************************************************************)
(* The chain while messages.jsonl is migrated.                             *)
(***************************************************************************)

\* How loadMessages numbers the rows of messages.jsonl.
LEMMA LegacyNumbers ==
  /\ Len(Legacy) \in Nat /\ DOMAIN Legacy = 1 .. Len(Legacy)
  /\ LegacyTurn(0) = 0
  /\ \A i \in DOMAIN Legacy :
       /\ Numbered(i) \in Rows
       /\ Numbered(i).id = Legacy[i].id /\ Numbered(i).message = Legacy[i].message
       /\ Numbered(i).seq = i /\ Numbered(i).turn = LegacyTurn(i) /\ Numbered(i).prev = NoID
       /\ LegacyTurn(i) = Plus(LegacyTurn(i - 1), Legacy[i].message)
  /\ \A i, j \in DOMAIN Legacy :
       Legacy[i].id = Legacy[j].id \/ Legacy[i].message.key = Legacy[j].message.key => i = j
<1>1. Len(Legacy) \in Nat /\ DOMAIN Legacy = 1 .. Len(Legacy)
  BY LegacyAssumption, LenProperties
<1>2. LegacyTurn(0) = 0
  <2>1. {j \in 1 .. 0 : Legacy[j].message.user} = {}
    OBVIOUS
  <2>2. LegacyTurn(0) = Cardinality({})
    BY <2>1, Zenon DEF LegacyTurn
  <2> QED BY <2>2, FS_EmptySet
<1>3. ASSUME NEW i \in DOMAIN Legacy
      PROVE  /\ Numbered(i).seq = i /\ Numbered(i).turn = LegacyTurn(i) /\ Numbered(i).prev = NoID
             /\ LegacyTurn(i) = Plus(LegacyTurn(i - 1), Legacy[i].message)
  <2> DEFINE U(k) == {j \in 1 .. k : Legacy[j].message.user}
  <2>1. LegacyTurn(i) = Cardinality(U(i)) /\ LegacyTurn(i - 1) = Cardinality(U(i - 1))
    BY DEF LegacyTurn
  <2>2. Numbered(i) = [id |-> Legacy[i].id, message |-> Legacy[i].message, seq |-> i,
                       turn |-> Cardinality(U(i)), prev |-> NoID]
    BY DEF Numbered
  <2>0. i \in Nat /\ i - 1 \in Nat /\ 1 \in Int /\ i - 1 \in Int
    BY <1>1
  <2>3. i \in Nat /\ i - 1 \in Nat /\ IsFiniteSet(1 .. i - 1)
    BY <2>0, FS_Interval
  <2>4. U(i - 1) \in SUBSET (1 .. i - 1)
    OBVIOUS
  <2>5. IsFiniteSet(U(i - 1)) /\ Cardinality(U(i - 1)) \in Nat
    <3> HIDE DEF U
    <3> QED BY <2>3, <2>4, FS_Subset, FS_CardinalityType
  <2>6. i \notin U(i - 1)
    BY <2>3
  <2>7. Legacy[i].message.user \in BOOLEAN
    <3>1. Legacy[i] \in [id : RowIDs, message : Messages]
      BY LegacyAssumption, ElementOfSeq, <1>1
    <3> QED BY <3>1, ArchiveAssumption
  <2>8. Cardinality(U(i)) = Plus(Cardinality(U(i - 1)), Legacy[i].message)
    <3>1. CASE Legacy[i].message.user
      <4>1. U(i) = U(i - 1) \cup {i}
        BY <2>3, <3>1
      <4>2. Cardinality(U(i)) = Cardinality(U(i - 1)) + 1
        <5> HIDE DEF U
        <5> QED BY <4>1, <2>5, <2>6, FS_AddElement
      <4> QED BY <3>1, <4>2 DEF Plus
    <3>2. CASE ~Legacy[i].message.user
      <4>1. U(i) = U(i - 1)
        BY <2>3, <3>2
      <4> HIDE DEF U
      <4> QED BY <3>2, <4>1, <2>5 DEF Plus
    <3> QED BY <2>7, <3>1, <3>2
  <2> HIDE DEF U
  <2> QED BY <2>1, <2>2, <2>8
<1>4. \A i, j \in DOMAIN Legacy :
        Legacy[i].id = Legacy[j].id \/ Legacy[i].message.key = Legacy[j].message.key => i = j
  BY LegacyAssumption
<1> QED BY <1>1, <1>2, <1>3, <1>4, LegacyTypes

\* Rows that wait to be moved.
LEMMA RestIs ==
  ASSUME NEW k \in 0 .. Len(Legacy)
  PROVE  /\ \A r : r \in Rest(k) <=> \E i \in k + 1 .. Len(Legacy) : r = Numbered(i)
         /\ \A i \in k + 1 .. Len(Legacy) : i \in DOMAIN Legacy
         /\ k < Len(Legacy) => k + 1 \in DOMAIN Legacy /\ Numbered(k + 1) \in Rest(k)
BY LegacyNumbers DEF Rest

\* What is known of a migration, with the number of rows it has synced.
Synced(k) ==
  /\ messages = {e \in All(segments) : e.seq <= k} \cup Rest(k)
  /\ append.step \in {"idle", "ensured"} =>
       Reads(Filed(segments), k, LegacyTurn(k), lastID)
  /\ append.step # "idle" =>
       k < Len(Legacy) /\ append.row = [Numbered(k + 1) EXCEPT !.prev = lastID]
  /\ append.step = "written" =>
       /\ append.row \in All(segments)
       /\ Reads(Filed(segments), k + 1, LegacyTurn(k + 1), append.row.id)

LEMMA MovingIs ==
  ASSUME CleanFailures, ArchiveInv, ChainInv, phase = "migrating"
  PROVE  /\ BaseInv /\ Sane(segments) /\ Legacy # <<>>
         /\ messageSeq = Len(Legacy) /\ turnSeq = LegacyTurn(Len(Legacy))
         /\ \A e \in All(segments) : e.seq \in DOMAIN Legacy /\ Alike(e, Legacy[e.seq])
         /\ \E k \in 0 .. Len(Legacy) : Synced(k)
         /\ segments = <<>> => file \in {{}, LegacyRows}
<1>1. BaseInv /\ Sane(segments)
  BY WholeSegments
<1> QED BY <1>1 DEF ChainInv, MovingInv, UnstartedInv, Synced

\* The next row, as the append carries it.
NextOf(k, id) == [Numbered(k + 1) EXCEPT !.prev = id]

LEMMA NextRow ==
  ASSUME NEW k \in 0 .. Len(Legacy), k < Len(Legacy), NEW id
  PROVE  /\ k + 1 \in DOMAIN Legacy /\ NextOf(k, id).seq = k + 1 /\ NextOf(k, id).prev = id
         /\ NextOf(k, id).id = Legacy[k + 1].id
         /\ NextOf(k, id).message = Legacy[k + 1].message
         /\ NextOf(k, id).turn = LegacyTurn(k + 1)
         /\ NextOf(k, id).turn = Plus(LegacyTurn(k), NextOf(k, id).message)
<1> DEFINE row == NextOf(k, id)
<1>1. k + 1 \in DOMAIN Legacy /\ (k + 1) - 1 = k
  BY LegacyNumbers
<1>2. Numbered(k + 1) \in Rows
  BY <1>1, LegacyNumbers
<1>3. row.prev = id /\ row.id = Numbered(k + 1).id /\ row.message = Numbered(k + 1).message
      /\ row.seq = Numbered(k + 1).seq /\ row.turn = Numbered(k + 1).turn
  BY <1>2 DEF Rows, NextOf
<1>4. LegacyTurn(k + 1) = Plus(LegacyTurn(k), Legacy[k + 1].message)
  BY <1>1, LegacyNumbers
<1>5. /\ Numbered(k + 1).id = Legacy[k + 1].id
      /\ Numbered(k + 1).message = Legacy[k + 1].message
      /\ Numbered(k + 1).seq = k + 1
      /\ Numbered(k + 1).turn = LegacyTurn(k + 1)
  BY <1>1, LegacyNumbers
<1> QED BY <1>1, <1>3, <1>4, <1>5

\* What is still to be moved is what is behind the rows that were moved.
LEMMA UnmigratedIs ==
  ASSUME CleanFailures, ArchiveInv, ChainInv, phase = "migrating", append = Idle,
         NEW k \in 0 .. Len(Legacy), Synced(k)
  PROVE  Unmigrated = Rest(k) /\ \A e \in All(segments) : e.seq \in 1 .. k
<1>1. /\ BaseInv /\ Sane(segments)
      /\ \A e \in All(segments) : e.seq \in DOMAIN Legacy /\ Alike(e, Legacy[e.seq])
  BY MovingIs
<1>2. append.step = "idle"
  BY <1>1, InProgress
<1>3. Reads(Filed(segments), k, LegacyTurn(k), lastID)
  BY <1>2 DEF Synced
<1>4. Chain(Filed(segments), k) /\ k \in Nat
  BY <1>3 DEF Reads
<1>5. \A e \in All(segments) : e.seq \in 1 .. k
  BY <1>1, <1>4, ChainRows
<1>6. Journal = All(segments)
  BY JournalIsAll
<1>7. ASSUME NEW r \in Unmigrated
      PROVE  r \in Rest(k)
  <2>1. r \in messages /\ r.id \notin IDs(All(segments))
    BY <1>6 DEF Unmigrated
  <2>2. r \notin All(segments)
    BY <2>1 DEF IDs
  <2> QED BY <2>1, <2>2 DEF Synced
<1>8. ASSUME NEW r \in Rest(k)
      PROVE  r \in Unmigrated
  <2>1. PICK i \in k + 1 .. Len(Legacy) : r = Numbered(i)
    BY RestIs
  <2>2. i \in DOMAIN Legacy /\ r.id = Legacy[i].id
    BY <2>1, RestIs, LegacyNumbers
  <2>3. ASSUME NEW e \in All(segments)
        PROVE  e.id # r.id
    <3>1. e.seq \in 1 .. k /\ e.seq \in DOMAIN Legacy /\ e.id = Legacy[e.seq].id
      BY <1>1, <1>5 DEF Alike
    <3>2. e.seq # i
      BY <3>1
    <3> QED BY <3>1, <3>2, <2>2, LegacyNumbers
  <2>4. r \in messages
    BY DEF Synced
  <2> QED BY <2>3, <2>4, <1>6 DEF Unmigrated, IDs
<1> QED BY <1>5, <1>7, <1>8

LEMMA MigrateChain ==
  ASSUME CleanFailures, ArchiveInv, ChainInv, Migrate
  PROVE  ChainInv'
<1>1. /\ phase = "migrating" /\ phase' = "migrating" /\ append = Idle /\ segments' = WithRoom
      /\ UNCHANGED <<file, index, messages, messageSeq, turnSeq, lastID>>
  BY DEF Migrate, counters
<1>2. /\ BaseInv /\ Sane(segments) /\ Legacy # <<>>
      /\ messageSeq = Len(Legacy) /\ turnSeq = LegacyTurn(Len(Legacy))
      /\ \A e \in All(segments) : e.seq \in DOMAIN Legacy /\ Alike(e, Legacy[e.seq])
  BY <1>1, MovingIs
<1>3. PICK k \in 0 .. Len(Legacy) : Synced(k)
  BY <1>1, MovingIs
<1>4. Unmigrated = Rest(k)
  BY <1>1, <1>3, UnmigratedIs
<1>5. PICK r \in Rest(k) : /\ \A q \in Rest(k) : r.seq <= q.seq
                           /\ append' = Doing("ensured", [r EXCEPT !.prev = lastID])
  BY <1>4 DEF Migrate
<1>6. PICK i \in k + 1 .. Len(Legacy) : r = Numbered(i)
  BY RestIs
<1>7. k < Len(Legacy) /\ i \in DOMAIN Legacy
  BY LegacyNumbers, <1>6
<1>8. i = k + 1
  <2>1. Numbered(k + 1) \in Rest(k) /\ k + 1 \in DOMAIN Legacy
    BY <1>7, RestIs
  <2>2. r.seq = i /\ Numbered(k + 1).seq = k + 1
    BY <1>6, <1>7, <2>1, LegacyNumbers
  <2>3. i <= k + 1
    BY <1>5, <2>1, <2>2
  <2> QED BY <2>3
<1>9. append'.step = "ensured" /\ append'.row = [Numbered(k + 1) EXCEPT !.prev = lastID]
  BY <1>5, <1>6, <1>8 DEF Doing
<1>10. Filed(segments') = Filed(segments) /\ All(segments') = All(segments) /\ segments' # <<>>
  BY <1>1, <1>2, FiledRoom, RoomProperties
<1>11. Reads(Filed(segments), k, LegacyTurn(k), lastID)
       /\ messages = {e \in All(segments) : e.seq <= k} \cup Rest(k)
  BY <1>1, <1>2, <1>3, InProgress DEF Synced
<1>12. MovingInv'
  BY <1>1, <1>2, <1>7, <1>9, <1>10, <1>11 DEF MovingInv
<1> QED BY <1>1, <1>10, <1>12, StepsMoving

LEMMA WriteChainMoving ==
  ASSUME CleanFailures, ArchiveInv, ChainInv, phase = "migrating", WriteRecord
  PROVE  ChainInv'
<1>1. /\ append.step = "ensured" /\ append' = [append EXCEPT !.step = "written"]
      /\ UNCHANGED <<file, index, messages, messageSeq, turnSeq, lastID, phase>>
  BY DEF WriteRecord, counters
<1>2. /\ BaseInv /\ Sane(segments) /\ Legacy # <<>>
      /\ messageSeq = Len(Legacy) /\ turnSeq = LegacyTurn(Len(Legacy))
      /\ \A e \in All(segments) : e.seq \in DOMAIN Legacy /\ Alike(e, Legacy[e.seq])
  BY MovingIs
<1>3. PICK k \in 0 .. Len(Legacy) : Synced(k)
  BY MovingIs
<1>4. append # Idle /\ append.row \in Rows /\ segments # <<>>
  BY <1>1, <1>2, InProgress DEF Steps
<1>5. append'.step = "written" /\ append'.row = append.row
  BY <1>1, <1>2, <1>4, MovedOn DEF Steps
<1>6. /\ Reads(Filed(segments), k, LegacyTurn(k), lastID)
      /\ messages = {e \in All(segments) : e.seq <= k} \cup Rest(k)
      /\ k < Len(Legacy) /\ append.row = NextOf(k, lastID)
  BY <1>1, <1>3 DEF Synced, NextOf
<1>7. /\ k + 1 \in DOMAIN Legacy /\ append.row.seq = k + 1 /\ append.row.prev = lastID
      /\ append.row.id = Legacy[k + 1].id /\ append.row.message = Legacy[k + 1].message
      /\ append.row.turn = LegacyTurn(k + 1)
      /\ append.row.turn = Plus(LegacyTurn(k), append.row.message)
  BY <1>6, NextRow
<1>8. \A e \in All(segments) : e.seq \in 1 .. k
  <2>1. Chain(Filed(segments), k) /\ k \in Nat
    BY <1>6 DEF Reads
  <2> QED BY <2>1, <1>2, ChainRows
<1>9. ASSUME NEW e \in All(segments)
      PROVE  e.message.key # append.row.message.key
  <2>1. e.seq \in DOMAIN Legacy /\ e.message = Legacy[e.seq].message /\ e.seq # k + 1
    BY <1>2, <1>8 DEF Alike
  <2> QED BY <2>1, <1>7, LegacyNumbers
<1>10. /\ Reads(Filed(segments'), k + 1, append.row.turn, append.row.id)
       /\ All(segments') = All(segments) \cup {append.row}
  BY <1>6, <1>7, <1>9, WriteGrows
<1>11. {e \in All(segments') : e.seq <= k} = {e \in All(segments) : e.seq <= k}
  BY <1>7, <1>10
<1>12. \A e \in All(segments') : e.seq \in DOMAIN Legacy /\ Alike(e, Legacy[e.seq])
  BY <1>2, <1>7, <1>10 DEF Alike
<1>13. segments' # <<>>
  <2>1. segments' = UpdateLast(Written(LastSegment, append.row))
    BY DEF WriteRecord
  <2> QED BY <2>1, <1>2, <1>4, WriteProperties
<1>14. /\ messages' = {e \in All(segments') : e.seq <= k} \cup Rest(k)
       /\ append'.row \in All(segments')
       /\ Reads(Filed(segments'), k + 1, LegacyTurn(k + 1), append'.row.id)
       /\ append'.row = [Numbered(k + 1) EXCEPT !.prev = lastID']
  BY <1>1, <1>5, <1>6, <1>7, <1>10, <1>11 DEF NextOf
<1>15. MovingInv'
  BY <1>1, <1>2, <1>5, <1>6, <1>12, <1>14 DEF MovingInv
<1> QED BY <1>1, <1>13, <1>15, StepsMoving

LEMMA SyncChainMoving ==
  ASSUME CleanFailures, ArchiveInv, ChainInv, phase = "migrating", SyncRecord
  PROVE  ChainInv'
<1>1. /\ append.step = "written" /\ append' = Idle
      /\ lastID' = append.row.id /\ segments' = UpdateLast(SyncedLast)
      /\ messages' = {r \in messages : r.id # append.row.id} \cup {append.row}
      /\ UNCHANGED <<file, index, messageSeq, turnSeq, phase>>
  BY DEF SyncRecord, SyncedLast
<1>2. /\ BaseInv /\ Sane(segments) /\ Legacy # <<>>
      /\ messageSeq = Len(Legacy) /\ turnSeq = LegacyTurn(Len(Legacy))
      /\ \A e \in All(segments) : e.seq \in DOMAIN Legacy /\ Alike(e, Legacy[e.seq])
  BY MovingIs
<1>3. PICK k \in 0 .. Len(Legacy) : Synced(k)
  BY MovingIs
<1>4. append # Idle /\ append.row \in Rows /\ segments # <<>>
  BY <1>1, <1>2, InProgress DEF Steps
<1>5. /\ messages = {e \in All(segments) : e.seq <= k} \cup Rest(k)
      /\ append.row \in All(segments)
      /\ Reads(Filed(segments), k + 1, LegacyTurn(k + 1), append.row.id)
      /\ k < Len(Legacy) /\ append.row = NextOf(k, lastID)
  BY <1>1, <1>3 DEF Synced, NextOf
<1>6. /\ k + 1 \in DOMAIN Legacy /\ append.row.seq = k + 1
      /\ append.row.id = Legacy[k + 1].id
  BY <1>5, NextRow
<1>7. Filed(segments') = Filed(segments) /\ All(segments') = All(segments) /\ segments' # <<>>
  BY <1>1, <1>2, <1>4, FiledMarked, Marked
<1>8. append'.step = "idle"
  BY <1>1 DEF Idle
<1>9. k + 1 \in 0 .. Len(Legacy) /\ k + 1 \in Nat
  BY <1>5, LegacyNumbers
<1>10. /\ \A e \in All(segments) : e \in Rows /\ e.seq \in 1 .. k + 1
       /\ \A e, f \in All(segments) : e.seq = f.seq => e = f
  <2>1. Chain(Filed(segments), k + 1)
    BY <1>5 DEF Reads
  <2> QED BY <2>1, <1>2, <1>9, ChainRows
<1>11. ASSUME NEW r
       PROVE  r \in messages' <=> r \in {e \in All(segments') : e.seq <= k + 1} \cup Rest(k + 1)
  <2>1. ASSUME r \in messages'
        PROVE  r \in {e \in All(segments') : e.seq <= k + 1} \cup Rest(k + 1)
    <3>1. CASE r = append.row
      <4>1. r \in All(segments') /\ r.seq <= k + 1
        BY <3>1, <1>5, <1>6, <1>7
      <4> QED BY <4>1
    <3>2. CASE r # append.row
      <4>1. r \in messages /\ r.id # append.row.id
        BY <2>1, <3>2, <1>1
      <4>2. CASE r \in All(segments) /\ r.seq <= k
        BY <4>2, <1>7, <1>10
      <4>3. CASE r \in Rest(k)
        <5>1. PICK i \in k + 1 .. Len(Legacy) : r = Numbered(i)
          BY <4>3, RestIs
        <5>2. i # k + 1
          BY <5>1, <4>1, <1>6, LegacyNumbers
        <5>3. i \in (k + 1) + 1 .. Len(Legacy)
          BY <5>2, LegacyNumbers
        <5>4. r \in Rest(k + 1)
          BY <5>1, <5>3 DEF Rest
        <5> QED BY <5>4
      <4> QED BY <4>1, <4>2, <4>3, <1>5
    <3> QED BY <3>1, <3>2
  <2>2. ASSUME r \in All(segments'), r.seq <= k + 1
        PROVE  r \in messages'
    <3>1. r \in All(segments) /\ r.seq \in 1 .. k + 1
      BY <2>2, <1>7, <1>10
    <3>2. CASE r.seq = k + 1
      <4>1. r = append.row
        BY <3>1, <3>2, <1>5, <1>6, <1>10
      <4> QED BY <4>1, <1>1
    <3>3. CASE r.seq # k + 1
      <4>1. r.seq <= k /\ r \in messages
        BY <3>1, <3>3, <1>5
      <4>2. r.id = Legacy[r.seq].id /\ r.seq \in DOMAIN Legacy
        BY <3>1, <1>2 DEF Alike
      <4>3. r.id # append.row.id
        BY <4>2, <3>3, <1>6, LegacyNumbers
      <4> QED BY <4>1, <4>3, <1>1
    <3> QED BY <3>2, <3>3
  <2>3. ASSUME r \in Rest(k + 1)
        PROVE  r \in messages'
    <3>1. PICK i \in (k + 1) + 1 .. Len(Legacy) : r = Numbered(i)
      BY <2>3 DEF Rest
    <3>2. i \in k + 1 .. Len(Legacy) /\ i \in DOMAIN Legacy /\ i # k + 1
      BY LegacyNumbers
    <3>3. r \in messages
      BY <3>1, <3>2, <1>5, RestIs
    <3>4. r.id # append.row.id
      BY <3>1, <3>2, <1>6, LegacyNumbers
    <3> QED BY <3>3, <3>4, <1>1
  <2> QED BY <2>1, <2>2, <2>3
<1>12. messages' = {e \in All(segments') : e.seq <= k + 1} \cup Rest(k + 1)
  BY <1>11
<1>13. Reads(Filed(segments'), k + 1, LegacyTurn(k + 1), lastID')
  BY <1>1, <1>5, <1>7
<1>14. MovingInv'
  BY <1>1, <1>2, <1>7, <1>8, <1>9, <1>12, <1>13 DEF MovingInv
<1> QED BY <1>1, <1>7, <1>14, StepsMoving

LEMMA MigratedChain ==
  ASSUME CleanFailures, ArchiveInv, ChainInv, Migrated
  PROVE  ChainInv'
<1>1. /\ phase = "migrating" /\ append = Idle /\ Unmigrated = {} /\ segments' = segments
  BY DEF Migrated
<1>2. /\ BaseInv /\ Sane(segments) /\ Legacy # <<>>
      /\ messageSeq = Len(Legacy) /\ turnSeq = LegacyTurn(Len(Legacy))
  BY <1>1, MovingIs
<1>3. PICK k \in 0 .. Len(Legacy) : Synced(k)
  BY <1>1, MovingIs
<1>4. Rest(k) = {} /\ \A e \in All(segments) : e.seq \in 1 .. k
  BY <1>1, <1>3, UnmigratedIs
<1>5. k = Len(Legacy)
  <2>1. ~(k < Len(Legacy))
    BY <1>4, RestIs
  <2>2. Len(Legacy) \in Nat
    BY LegacyNumbers
  <2> QED BY <2>1, <2>2
<1>6. append.step = "idle"
  BY <1>1, <1>2, InProgress
<1>7. Reads(Filed(segments), messageSeq, turnSeq, lastID)
  BY <1>2, <1>3, <1>5, <1>6 DEF Synced
<1>8. messages = All(segments)
  <2>1. messages = {e \in All(segments) : e.seq <= k} \cup Rest(k)
    BY <1>3 DEF Synced
  <2> QED BY <2>1, <1>4
<1>9. segments # <<>>
  <2>1. k \in Nat /\ k # 0
    <3>1. Len(Legacy) = 0 => Legacy = <<>>
      BY LegacyAssumption, EmptySeq
    <3> QED BY <3>1, <1>2, <1>5
  <2>2. Chain(Filed(segments), k)
    BY <1>2, <1>5, <1>7 DEF Reads
  <2>3. 1 \in 1 .. k
    BY <2>1
  <2>4. \E e \in All(segments) : e.seq = 1
    BY <2>1, <2>2, <2>3, <1>2, ChainRows
  <2> QED BY <2>4, EmptyChain
<1>10. CASE phase' = "indexing" /\ UNCHANGED <<index, messages, counters, append, told>>
  <2>1. Reads(Filed(segments'), messageSeq', turnSeq', lastID') /\ messages' = All(segments')
    BY <1>1, <1>7, <1>8, <1>10 DEF counters
  <2> QED BY <2>1, <1>1, <1>9, <1>10, StepsOpened
<1>11. CASE Ended
  <2>1. \E n \in Nat : Chain(Filed(segments'), n)
    BY <1>1, SomeChain
  <2>2. \A i \in DOMAIN segments' : ~segments'[i].torn
    BY <1>1, WholeSegments DEF Stopped
  <2> QED BY <2>1, <2>2, <1>1, <1>9, <1>11, StepsDown
<1> QED BY <1>10, <1>11 DEF Migrated

-----------------------------------------------------------------------------
(***************************************************************************)
(* The chain through crashes, and opened again.                            *)
(***************************************************************************)

LEMMA OpenChain ==
  ASSUME CleanFailures, ArchiveInv, ChainInv, OpenSegments
  PROVE  ChainInv'
<1>1. /\ BaseInv /\ Sane(segments) /\ segments # <<>>
      /\ segments' = Quarantined /\ messages' = Journal /\ phase' = "indexing"
      /\ messageSeq' = ReadSeq /\ turnSeq' = ReadTurn /\ lastID' = ReadID
  BY WholeSegments DEF OpenSegments
<1>2. PICK n \in Nat : Chain(Filed(segments), n)
  BY SomeChain
<1>3. Reads(Filed(segments), ReadSeq, ReadTurn, ReadID)
  BY <1>1, <1>2, ChainReads
<1>4. Filed(Quarantined) = Filed(segments) /\ All(Quarantined) = All(segments)
  <2>1. CASE LastSegment.torn
    <3>1. Quarantined = UpdateLast(MendedLast)
      BY <2>1 DEF Quarantined, MendedLast
    <3> QED BY <3>1, <1>1, FiledMarked
  <2>2. CASE ~LastSegment.torn
    BY <2>2 DEF Quarantined
  <2> QED BY <2>1, <2>2
<1>5. Reads(Filed(segments'), messageSeq', turnSeq', lastID')
  BY <1>1, <1>3, <1>4
<1>6. messages' = All(segments')
  BY <1>1, <1>4, JournalIsAll
<1>7. segments' # <<>>
  BY <1>1, QuarantinedProperties
<1> QED BY <1>1, <1>5, <1>6, <1>7, StepsOpened

LEMMA LegacyChain ==
  ASSUME CleanFailures, ArchiveInv, ChainInv, OpenLegacy
  PROVE  ChainInv'
<1> DEFINE kept == {i \in DOMAIN Legacy : Legacy[i].id \in IDs(file)}
<1>1. Stopped /\ segments = <<>> /\ UNCHANGED <<segments, file, append>>
  BY DEF OpenLegacy
<1>2. messageSeq = 0 /\ turnSeq = 0 /\ lastID = NoID /\ messages = {} /\ BaseInv
      /\ file \in {{}, LegacyRows}
  BY <1>1, WholeSegments DEF ChainInv, OpenedInv, UnstartedInv, BaseInv, StepInv
<1>3. All(segments) = {} /\ Reads(Filed(segments), 0, 0, NoID)
  BY <1>1, EmptyChain
<1>4. CASE kept = {}
  <2>1. phase' = "indexing" /\ UNCHANGED <<messages, messageSeq, turnSeq, lastID>>
    BY <1>4 DEF OpenLegacy, counters
  <2>2. Reads(Filed(segments'), messageSeq', turnSeq', lastID') /\ messages' = All(segments')
    BY <2>1, <1>1, <1>2, <1>3
  <2> QED BY <2>1, <2>2, <1>1, <1>2, StepsOpened
<1>5. CASE kept # {}
  <2>1. /\ phase' = "migrating" /\ messages' = {Numbered(i) : i \in kept}
        /\ messageSeq' = Len(Legacy) /\ turnSeq' = Numbered(Len(Legacy)).turn /\ lastID' = NoID
    BY <1>5 DEF OpenLegacy
  <2>2. file = LegacyRows
    BY <1>2, <1>5 DEF IDs
  <2>3. kept = DOMAIN Legacy
    <3>1. ASSUME NEW i \in DOMAIN Legacy
          PROVE  Legacy[i].id \in IDs(LegacyRows)
      <4> DEFINE r == [id |-> Legacy[i].id, message |-> Legacy[i].message,
                       seq |-> 0, turn |-> 0, prev |-> NoID]
      <4>1. r \in LegacyRows /\ r.id = Legacy[i].id
        BY DEF LegacyRows
      <4> QED BY <4>1 DEF IDs
    <3> QED BY <3>1, <2>2
  <2>4. Len(Legacy) \in DOMAIN Legacy /\ Legacy # <<>>
    BY <1>5, LegacyTypes
  <2>5. messages' = Rest(0)
    <3>1. DOMAIN Legacy = 0 + 1 .. Len(Legacy)
      BY LegacyNumbers
    <3> QED BY <2>1, <2>3, <3>1 DEF Rest
  <2>6. turnSeq' = LegacyTurn(Len(Legacy)) /\ LegacyTurn(0) = 0 /\ 0 \in 0 .. Len(Legacy)
    BY <2>1, <2>4, LegacyNumbers
  <2>7. append'.step = "idle"
    BY <1>1, <1>2, NotBusy, InProgress DEF Stopped
  <2>8. messages' = {e \in All(segments') : e.seq <= 0} \cup Rest(0)
        /\ Reads(Filed(segments'), 0, LegacyTurn(0), lastID')
        /\ All(segments') = {}
    BY <2>1, <2>5, <2>6, <1>1, <1>3
  <2>9. MovingInv'
    BY <2>1, <2>4, <2>6, <2>7, <2>8 DEF MovingInv
  <2> QED BY <2>1, <2>9, <1>1, <1>2, StepsMoving
<1> QED BY <1>4, <1>5

LEMMA ServeChain ==
  ASSUME CleanFailures, ArchiveInv, ChainInv, Serve
  PROVE  ChainInv'
<1>1. /\ phase = "indexing" /\ phase' = "up" /\ index' = messages
      /\ messages' = IF LowRAM THEN {} ELSE messages
      /\ UNCHANGED <<segments, file, messageSeq, turnSeq, lastID, append>>
  BY DEF Serve, counters
<1>2. Reads(Filed(segments), messageSeq, turnSeq, lastID) /\ messages = All(segments)
      /\ (segments = <<>> => file \in {{}, LegacyRows})
  BY <1>1 DEF ChainInv, OpenedInv, UnstartedInv
<1>3. append.step = "idle"
  BY <1>1, WholeSegments, NotBusy, InProgress
<1>4. UpInv' /\ TableInv' /\ MapInv'
  BY <1>1, <1>2, <1>3 DEF UpInv, TableInv, MapInv
<1>5. segments' = <<>> => file' \in {{}, LegacyRows} /\ messages' \in {{}, LegacyRows}
  BY <1>1, <1>2, EmptyChain
<1> QED BY <1>1, <1>4, <1>5, StepsUp

\* No reason to refuse the archive arises.
LEMMA RefuseNever ==
  ASSUME CleanFailures, ArchiveInv, ChainInv
  PROVE  ~Refuse
<1>1. Sane(segments)
  BY WholeSegments
<1>2. CASE Stopped
  <2>1. Readable
    BY <1>1, <1>2, ChainReadable DEF ChainInv, OpenedInv
  <2>2. phase # "indexing"
    BY <1>2 DEF Stopped
  <2> QED BY <2>1, <2>2 DEF Refuse
<1>3. CASE phase = "indexing"
  <2>1. messageSeq \in Nat /\ Chain(Filed(segments), messageSeq) /\ messages = All(segments)
    BY <1>3, WholeSegments DEF ChainInv, OpenedInv, Reads, BaseInv, Typed
  <2>2. Unique(messages)
    BY <2>1, <1>1, ChainRows DEF Unique
  <2>3. ~Stopped
    BY <1>3 DEF Stopped
  <2> QED BY <2>2, <2>3 DEF Refuse
<1> QED BY <1>2, <1>3 DEF Refuse

LEMMA WriteFailsChain ==
  ASSUME CleanFailures, ArchiveInv, ChainInv, WriteFails
  PROVE  ChainInv'
<1>1. append.step = "ensured" /\ segments' = segments /\ file' = file /\ AppendFailed
  BY DEF WriteFails, CleanFailures
<1>2. /\ BaseInv /\ Sane(segments)
      /\ ~Stopped => \A i \in DOMAIN segments : ~segments[i].torn
  BY WholeSegments
<1>3. append.row \in Rows /\ segments # <<>> /\ phase \in {"up", "migrating"}
  BY <1>1, <1>2, InProgress DEF Steps
<1>4. CASE phase = "up"
  <2>1. /\ messageSeq' = messageSeq - 1
        /\ turnSeq' = turnSeq - (IF append.row.message.user THEN 1 ELSE 0)
        /\ append' = Idle /\ UNCHANGED <<messages, lastID, index, phase>>
    BY <1>1, <1>4 DEF AppendFailed, Undone
  <2>2. UpInv /\ TableInv /\ MapInv
    BY DEF ChainInv
  <2>3. PICK t \in Nat : /\ Reads(Filed(segments), messageSeq - 1, t, lastID)
                         /\ turnSeq = Plus(t, append.row.message)
    BY <1>1, <1>4, <2>2 DEF UpInv
  <2>4. append.row.message.user \in BOOLEAN
    BY <1>3, RowFields
  <2>5. turnSeq' = t
    <3>1. CASE append.row.message.user
      BY <3>1, <2>1, <2>3 DEF Plus
    <3>2. CASE ~append.row.message.user
      BY <3>2, <2>1, <2>3 DEF Plus
    <3> QED BY <2>4, <3>1, <3>2
  <2>6. append'.step = "idle"
    BY <2>1 DEF Idle
  <2>7. UpInv'
    BY <2>1, <2>3, <2>5, <2>6, <1>1 DEF UpInv
  <2>8. TableInv' /\ MapInv'
    BY <2>1, <2>2, <2>6, <1>1, <1>4 DEF TableInv, MapInv
  <2> QED BY <2>1, <2>7, <2>8, <1>1, <1>3, <1>4, StepsUp
<1>5. CASE phase # "up"
  <2>1. Ended
    BY <1>1, <1>5 DEF AppendFailed
  <2>2. \E n \in Nat : Chain(Filed(segments'), n)
    BY <1>1, SomeChain
  <2>3. \A i \in DOMAIN segments' : ~segments'[i].torn
    BY <1>1, <1>2, <1>3 DEF Stopped
  <2> QED BY <2>1, <2>2, <2>3, <1>1, <1>3, StepsDown
<1> QED BY <1>4, <1>5

LEMMA CloseChain ==
  ASSUME CleanFailures, ArchiveInv, ChainInv, Close
  PROVE  ChainInv'
<1>1. /\ phase = "up" /\ append = Idle /\ segments' = segments /\ Ended
      /\ file' \in {file, index, messages}
  BY DEF Close, Serving
<1>2. \E n \in Nat : Chain(Filed(segments'), n)
  BY <1>1, SomeChain
<1>3. \A i \in DOMAIN segments' : ~segments'[i].torn
  BY <1>1, WholeSegments DEF Stopped
<1>4. BaseInv /\ TableInv /\ (segments = <<>> => file \in {{}, LegacyRows} /\ messages \in {{}, LegacyRows})
  BY <1>1, ServingParts
<1>5. index = All(segments)
  BY <1>1, <1>4, InProgress DEF TableInv
<1>6. segments' = <<>> => file' \in {{}, LegacyRows}
  BY <1>1, <1>4, <1>5, EmptyChain
<1> QED BY <1>1, <1>2, <1>3, <1>6, StepsDown

LEMMA KillChain ==
  ASSUME CleanFailures, ArchiveInv, ChainInv, Kill
  PROVE  ChainInv'
<1>1. /\ Ended /\ file' = file /\ phase \in {"up", "migrating", "indexing"}
      /\ segments' = segments \/ (append.step = "ensured" /\ segments' = UpdateLast(TornLast))
  BY DEF Kill, TornLast
<1>2. /\ BaseInv /\ Sane(segments) /\ \A i \in DOMAIN segments : ~segments[i].torn
  BY <1>1, WholeSegments DEF Stopped
<1>3. PICK n \in Nat : Chain(Filed(segments), n)
  BY SomeChain
<1>4. segments = <<>> => file \in {{}, LegacyRows}
  BY DEF ChainInv, UnstartedInv
<1>5. CASE segments' = segments
  BY <1>1, <1>2, <1>3, <1>4, <1>5, StepsDown
<1>6. CASE append.step = "ensured" /\ segments' = UpdateLast(TornLast)
  <2>1. segments # <<>>
    BY <1>2, <1>6, InProgress DEF Steps
  <2>2. Filed(segments') = Filed(segments)
    BY <2>1, <1>2, <1>6, FiledMarked
  <2>3. /\ segments' # <<>> /\ Len(segments') = Len(segments) /\ DOMAIN segments' = DOMAIN segments
        /\ \A i \in DOMAIN segments : i # Len(segments) => segments'[i] = segments[i]
    BY <2>1, <1>2, <1>6, Marked
  <2>4. \A i \in DOMAIN segments' : segments'[i].torn => i = Len(segments')
    BY <2>3, <1>2
  <2> QED BY <2>2, <2>3, <2>4, <1>1, <1>3, StepsDown
<1> QED BY <1>1, <1>5, <1>6

LEMMA CutTorn ==
  ASSUME NEW s \in Segments, NEW n, NEW torn \in BOOLEAN
  PROVE  Cut(s, n, torn).torn = torn
<1>1. Cut(s, n, torn) =
        [[[s EXCEPT !.entries = SubSeq(@, 1, n)] EXCEPT !.torn = torn] EXCEPT !.synced = n]
  BY DEF Cut
<1> QED BY <1>1 DEF Segments

\* Sequences with the same positions have the same length.
LEMMA SameLength ==
  ASSUME NEW a \in Nat, NEW b \in Nat, NEW S, S = 1 .. a, S = 1 .. b
  PROVE  a = b
<1>1. a # 0 => a \in 1 .. b
  <2>1. a # 0 => a \in 1 .. a
    OBVIOUS
  <2> QED BY <2>1
<1>2. b # 0 => b \in 1 .. a
  <2>1. b # 0 => b \in 1 .. b
    OBVIOUS
  <2> QED BY <2>1
<1> QED BY <1>1, <1>2

LEMMA PowerChain ==
  ASSUME CleanFailures, ArchiveInv, ChainInv, PowerLoss
  PROVE  ChainInv'
<1> DEFINE writing(i) == append.step = "ensured" /\ i = Len(segments)
<1>1. /\ Ended /\ file' = file /\ phase \in {"up", "migrating", "indexing"} /\ "power" \in Faults
      /\ segments' \in [DOMAIN segments ->
                          UNION {Survivors(segments[i], writing(i)) : i \in DOMAIN segments}]
      /\ \A i \in DOMAIN segments : segments'[i] \in Survivors(segments[i], writing(i))
  BY DEF PowerLoss
<1>2. ASSUME NEW i \in DOMAIN segments
      PROVE  \E n \in segments[i].synced .. Len(segments[i].entries), torn \in BOOLEAN :
               /\ segments'[i] = Cut(segments[i], n, torn)
               /\ torn => \/ segments[i].torn \/ writing(i)
                          \/ segments[i].synced < Len(segments[i].entries)
  <2> HIDE DEF writing
  <2>1. segments'[i] \in Survivors(segments[i], writing(i))
    BY <1>1
  <2> QED BY <2>1 DEF Survivors
<1>3. /\ BaseInv /\ Sane(segments) /\ \A i \in DOMAIN segments : ~segments[i].torn
  BY <1>1, WholeSegments DEF Stopped
<1>4. \A i \in DOMAIN segments :
        i # Len(segments) => segments[i].synced = Len(segments[i].entries)
  BY <1>1 DEF ArchiveInv, SyncedInv
<1>5. Sane(segments') /\ DOMAIN segments' = DOMAIN segments
  <2> HIDE DEF writing
  <2>1. \A i \in DOMAIN segments :
          \E n \in segments[i].synced .. Len(segments[i].entries), torn \in BOOLEAN :
            segments'[i] = Cut(segments[i], n, torn)
    BY <1>2
  <2> QED BY <2>1, <1>1, <1>3, PowerProperties
<1>6. ASSUME NEW i \in DOMAIN segments
      PROVE  /\ DOMAIN segments'[i].entries \subseteq DOMAIN segments[i].entries
             /\ \A j \in DOMAIN segments'[i].entries : segments'[i].entries[j] = segments[i].entries[j]
             /\ i # Len(segments) =>
                  /\ DOMAIN segments'[i].entries = DOMAIN segments[i].entries
                  /\ ~segments'[i].torn
  <2>1. PICK n \in segments[i].synced .. Len(segments[i].entries), torn \in BOOLEAN :
          /\ segments'[i] = Cut(segments[i], n, torn)
          /\ torn => \/ segments[i].torn \/ writing(i)
                     \/ segments[i].synced < Len(segments[i].entries)
    BY <1>2
  <2>2. /\ segments[i] \in Segments /\ segments[i].synced <= Len(segments[i].entries)
        /\ segments[i].synced \in Nat /\ Len(segments[i].entries) \in Nat
        /\ DOMAIN segments[i].entries = 1 .. Len(segments[i].entries)
    BY <1>3, SegmentTypes
  <2>3. /\ segments'[i] \in Segments
        /\ segments'[i].synced = Len(segments'[i].entries)
        /\ segments[i].synced <= segments'[i].synced
        /\ segments'[i].synced <= Len(segments[i].entries)
        /\ \A j \in DOMAIN segments'[i].entries : segments'[i].entries[j] = segments[i].entries[j]
    BY <2>1, <2>2, CutProperties
  <2>4. DOMAIN segments'[i].entries = 1 .. Len(segments'[i].entries)
        /\ Len(segments'[i].entries) \in Nat
    BY <1>5, SegmentTypes
  <2>5. segments'[i].torn = torn
    BY <2>1, <2>2, CutTorn
  <2>6. ASSUME i # Len(segments)
        PROVE  /\ DOMAIN segments'[i].entries = DOMAIN segments[i].entries
               /\ ~segments'[i].torn
    <3>1. segments[i].synced = Len(segments[i].entries)
      BY <2>6, <1>4
    <3>2. Len(segments'[i].entries) = Len(segments[i].entries)
      BY <3>1, <2>2, <2>3, <2>4
    <3>3. ~(segments[i].synced < Len(segments[i].entries))
      BY <3>1, <2>2
    <3>4. ~torn
      BY <3>3, <2>1, <2>6, <1>3
    <3> QED BY <3>2, <3>4, <2>2, <2>4, <2>5
  <2>7. DOMAIN segments'[i].entries \subseteq DOMAIN segments[i].entries
    BY <2>2, <2>3, <2>4
  <2> QED BY <2>3, <2>6, <2>7
<1> HIDE DEF writing
<1>7. /\ DOMAIN Filed(segments') \subseteq DOMAIN Filed(segments)
      /\ \A p \in DOMAIN Filed(segments') : Filed(segments')[p] = Filed(segments)[p]
      /\ \A p \in DOMAIN Filed(segments') : \A q \in DOMAIN Filed(segments) :
           Before(q, p) => q \in DOMAIN Filed(segments')
  BY <1>3, <1>5, <1>6, FiledCut
<1>8. PICK n \in Nat : Chain(Filed(segments), n)
  BY SomeChain
<1>9. DOMAIN Filed(segments) \subseteq Nat \X Nat
  BY <1>3, FiledTypes
<1>10. \E m \in Nat : Chain(Filed(segments'), m)
  BY <1>7, <1>8, <1>9, ChainShrinks
<1>11. Len(segments') = Len(segments) /\ (segments' = <<>> => segments = <<>>)
  <2>1. /\ segments \in Seq(Segments) /\ segments' \in Seq(Segments)
    BY <1>3, <1>5 DEF Sane
  <2>2. DOMAIN segments = 1 .. Len(segments) /\ Len(segments) \in Nat
        /\ DOMAIN segments' = 1 .. Len(segments') /\ Len(segments') \in Nat
    BY <2>1, LenProperties
  <2>3. Len(segments') = Len(segments)
    BY <2>2, <1>5, SameLength
  <2>4. segments' = <<>> => Len(segments) = 0
    <3>1. segments' = <<>> => Len(segments') = 0
      BY EmptySeq
    <3> QED BY <3>1, <2>3
  <2>5. segments' = <<>> => segments = <<>>
    BY <2>1, <2>4, EmptySeq
  <2> QED BY <2>3, <2>5
<1>12. \A i \in DOMAIN segments' : segments'[i].torn => i = Len(segments')
  BY <1>5, <1>6, <1>11
<1>13. segments' = <<>> => file' \in {{}, LegacyRows}
  BY <1>1, <1>11 DEF ChainInv, UnstartedInv
<1> QED BY <1>1, <1>10, <1>12, <1>13, StepsDown

LEMMA InitChain == Init => ChainInv
<1> SUFFICES ASSUME Init PROVE ChainInv
  OBVIOUS
<1>1. /\ segments = <<>> /\ index = {} /\ append.step = "idle"
      /\ messageSeq = 0 /\ turnSeq = 0 /\ lastID = NoID
      /\ phase \in {"up", "down"} /\ file \in {{}, LegacyRows}
      /\ messages = IF Start = "imported" /\ ~LowRAM THEN LegacyRows ELSE {}
  BY DEF Init, Idle
<1>2. All(segments) = {} /\ Reads(Filed(segments), 0, 0, NoID) /\ Chain(Filed(segments), 0)
  BY <1>1, EmptyChain
<1>3. Legacy = <<>> => LegacyRows = {}
  BY DEF LegacyRows
<1>4. UpInv /\ TableInv
  BY <1>1, <1>2 DEF UpInv, TableInv
<1>5. MapInv
  BY <1>1, <1>2, <1>3 DEF MapInv
<1>6. MovingInv /\ UnstartedInv
  BY <1>1 DEF MovingInv, UnstartedInv
<1>7. OpenedInv
  BY <1>1, <1>2 DEF OpenedInv
<1> QED BY <1>4, <1>5, <1>6, <1>7 DEF ChainInv

LEMMA ChainStep == CleanFailures /\ ArchiveInv /\ ChainInv /\ [Next]_vars => ChainInv'
<1> SUFFICES ASSUME CleanFailures, ArchiveInv, ChainInv, [Next]_vars PROVE ChainInv'
  OBVIOUS
<1>1. CASE UNCHANGED vars
  BY <1>1, ReplayedChain DEF vars
<1>2. ASSUME NEW m \in Messages, Replayed(m)
      PROVE  ChainInv'
  BY <1>2, ReplayedChain DEF Replayed
<1>3. ASSUME NEW m \in Messages, Insert(m)
      PROVE  ChainInv'
  BY <1>3, InsertChain
<1>4. BaseInv
  BY WholeSegments
<1>5. CASE WriteRecord
  <2>1. phase \in {"up", "migrating"}
    BY <1>4, <1>5, InProgress DEF WriteRecord, Steps
  <2> QED BY <2>1, <1>5, WriteChainUp, WriteChainMoving
<1>6. CASE SyncRecord
  <2>1. phase \in {"up", "migrating"}
    BY <1>4, <1>6, InProgress DEF SyncRecord, Steps
  <2> QED BY <2>1, <1>6, SyncChainUp, SyncChainMoving
<1>7. ~SyncFails /\ ~UpsertFails
  BY DEF SyncFails, UpsertFails, CleanFailures
<1>8. CASE WriteFails \/ UpsertMessage \/ Answer \/ Migrate \/ Migrated
  BY <1>8, WriteFailsChain, AnswerChain, MigrateChain, MigratedChain
<1>9. CASE OpenSegments \/ OpenLegacy \/ Serve \/ Close \/ Kill \/ PowerLoss
  BY <1>9, OpenChain, LegacyChain, ServeChain, CloseChain, KillChain, PowerChain
<1>10. ~Refuse
  BY RefuseNever
<1> QED BY <1>1, <1>2, <1>3, <1>5, <1>6, <1>7, <1>8, <1>9, <1>10 DEF Next

\* The two invariants hold together.
LEMMA ChainAlways ==
  ASSUME CleanFailures
  PROVE  Spec => [](ArchiveInv /\ ChainInv)
<1>1. Init => ArchiveInv /\ ChainInv
  BY InitArchive, InitChain
<1>2. (ArchiveInv /\ ChainInv) /\ [Next]_vars => (ArchiveInv /\ ChainInv)'
  BY ArchiveStep, ChainStep DEF CleanFailures
<1> QED BY <1>1, <1>2, PTL DEF Spec

\* The daemon opens every archive that the daemon left behind: after a failed
\* write, and after a process or a machine that died at any step, while serving
\* or while messages.jsonl was migrated, loadMessageSegments (message_journal.go)
\* finds an unbroken chain and ReplaceReadSupport no key twice.
THEOREM OpensAgain ==
  ASSUME CleanFailures
  PROVE  Spec => []NeverRefuses
<1>1. ChainInv => NeverRefuses
  BY DEF ChainInv, OpenedInv, NeverRefuses
<1> QED BY <1>1, ChainAlways, PTL

\* turn_seq of a message is the number of the user's messages up to it, through
\* failed appends, which give their turn back, through restarts, which read the
\* counter from the segments, and through the migration of messages.jsonl.
THEOREM TurnsAreCounted ==
  ASSUME CleanFailures
  PROVE  Spec => []TurnsCountUsers
<1>1. ArchiveInv /\ ChainInv => TurnsCountUsers
  <2> SUFFICES ASSUME ArchiveInv, ChainInv, NEW p \in Positions
               PROVE  At(p).turn =
                        Cardinality({q \in Positions : (q = p \/ Before(q, p)) /\ At(q).message.user})
    BY DEF TurnsCountUsers
  <2> DEFINE F == Filed(segments)
  <2>1. PICK n \in Nat : Chain(F, n)
    BY SomeChain
  <2>2. DOMAIN F = Positions
    BY DEF Filed, PositionsIn, Positions
  <2>3. \A q \in Positions : At(q) = F[q]
    BY <2>2, FiledAre DEF At
  <2> HIDE DEF F
  <2>4. F[p].turn = Cardinality(UsersTo(F, p))
    BY <2>1, <2>2 DEF Chain
  <2>5. UsersTo(F, p) = {q \in Positions : (q = p \/ Before(q, p)) /\ At(q).message.user}
    BY <2>2, <2>3 DEF UsersTo
  <2> QED BY <2>3, <2>4, <2>5
<1> QED BY <1>1, ChainAlways, PTL

\* A store that serves would read back from its segments what it answers from:
\* the same rows in the map and the table, and the same three counters for the
\* next InsertMessage. Not of a process that has imported messages and holds
\* them in its map only, which are archived when the daemon opens them again.
THEOREM ReloadsTheSame ==
  ASSUME CleanFailures, Start = "imported" => LowRAM \/ Legacy = <<>>
  PROVE  Spec => []ReloadsWhatItServes
<1>1. ArchiveInv /\ ChainInv => ReloadsWhatItServes
  <2> SUFFICES ASSUME ArchiveInv, ChainInv, Serving
               PROVE  /\ Readable
                      /\ index = Journal
                      /\ messages = IF LowRAM THEN {} ELSE Journal
                      /\ messageSeq = ReadSeq /\ turnSeq = ReadTurn /\ lastID = ReadID
    BY DEF ReloadsWhatItServes
  <2>1. phase = "up" /\ append = Idle
    BY DEF Serving
  <2>2. /\ BaseInv /\ Sane(segments) /\ UpInv /\ TableInv /\ MapInv /\ messageSeq \in Nat
    BY <2>1, ServingParts
  <2>3. append.step = "idle"
    BY <2>1, <2>2, InProgress
  <2>4. Reads(Filed(segments), messageSeq, turnSeq, lastID)
    BY <2>1, <2>2, <2>3 DEF UpInv
  <2>5. Chain(Filed(segments), messageSeq)
    BY <2>4 DEF Reads
  <2>6. \A i \in DOMAIN segments : ~segments[i].torn
    BY <2>1, WholeSegments DEF Stopped
  <2>7. Readable
    BY <2>2, <2>5, <2>6, ChainReadable
  <2>8. messageSeq = ReadSeq /\ turnSeq = ReadTurn /\ lastID = ReadID
    BY <2>2, <2>4, <2>5, ChainReads
  <2>9. index = Journal
    BY <2>1, <2>2, <2>3, JournalIsAll DEF TableInv
  <2>10. messages = IF LowRAM THEN {} ELSE Journal
    BY <2>1, <2>2, <2>3, JournalIsAll DEF MapInv
  <2> QED BY <2>7, <2>8, <2>9, <2>10
<1> QED BY <1>1, ChainAlways, PTL

\* No session's external message id is archived twice (queries.go: InsertMessage
\* is idempotent by external id), whatever fails between the look into
\* messages_current and the fsync, and whatever a crash leaves of them.
THEOREM KeysAreOnce ==
  ASSUME CleanFailures
  PROVE  Spec => []OncePerKey
<1>1. ArchiveInv /\ ChainInv => OncePerKey
  <2> SUFFICES ASSUME ArchiveInv, ChainInv, NEW p \in Positions, NEW q \in Positions,
                      At(p).message.key = At(q).message.key
               PROVE  p = q
    BY DEF OncePerKey
  <2> DEFINE F == Filed(segments)
  <2>1. PICK n \in Nat : Chain(F, n)
    BY SomeChain
  <2>2. DOMAIN F = Positions
    BY DEF Filed, PositionsIn, Positions
  <2>3. \A o \in Positions : At(o) = F[o]
    BY <2>2, FiledAre DEF At
  <2> HIDE DEF F
  <2> QED BY <2>1, <2>2, <2>3 DEF Chain
<1> QED BY <1>1, ChainAlways, PTL

-----------------------------------------------------------------------------
(***************************************************************************)
(* The archive implements the log of MessageLog.                           *)
(***************************************************************************)

\* While a record is written and not fsynced, it is the only one.
BehindInv ==
  "power" \in Faults /\ append.step = "written" =>
    Len(LastSegment.entries) = LastSegment.synced + 1

\* The rows that stand, by position, and the log they make.
StandingIn(segs) == {p \in PositionsIn(segs) : p[2] <= Standing(segs[p[1]])}
Stable(segs) == [p \in StandingIn(segs) |-> segs[p[1]].entries[p[2]]]
NthIn(segs, n) ==
  CHOOSE p \in StandingIn(segs) :
    Cardinality({q \in StandingIn(segs) : Before(q, p)}) = n - 1
LogIn(segs) ==
  [n \in 1 .. Cardinality(StandingIn(segs)) |->
     segs[NthIn(segs, n)[1]].entries[NthIn(segs, n)[2]].message]

LEMMA StableAre ==
  ASSUME NEW segs, Sane(segs)
  PROVE  /\ \A p : p \in DOMAIN Stable(segs) <=>
              /\ p = <<p[1], p[2]>> /\ p[1] \in DOMAIN segs
              /\ p[2] \in 1 .. Standing(segs[p[1]])
         /\ \A p \in DOMAIN Stable(segs) :
              /\ Stable(segs)[p] = segs[p[1]].entries[p[2]]
              /\ p \in DOMAIN Filed(segs) /\ Stable(segs)[p] = Filed(segs)[p]
              /\ p \in Nat \X Nat
         /\ DOMAIN Stable(segs) = StandingIn(segs)
<1>1. DOMAIN Stable(segs) = StandingIn(segs) /\ DOMAIN Filed(segs) = PositionsIn(segs)
  BY DEF Stable, Filed
<1>2. ASSUME NEW p
      PROVE  p \in StandingIn(segs) <=>
               /\ p = <<p[1], p[2]>> /\ p[1] \in DOMAIN segs
               /\ p[2] \in 1 .. Standing(segs[p[1]])
  <2>1. p \in PositionsIn(segs) <=>
          p = <<p[1], p[2]>> /\ p[1] \in DOMAIN segs /\ p[2] \in DOMAIN segs[p[1]].entries
    BY <1>1, FiledAre
  <2>2. ASSUME p[1] \in DOMAIN segs
        PROVE  /\ p[2] \in DOMAIN segs[p[1]].entries /\ p[2] <= Standing(segs[p[1]])
                    <=> p[2] \in 1 .. Standing(segs[p[1]])
    <3>1. segs[p[1]] \in Segments /\ segs[p[1]].synced <= Len(segs[p[1]].entries)
          /\ DOMAIN segs[p[1]].entries = 1 .. Len(segs[p[1]].entries)
          /\ Len(segs[p[1]].entries) \in Nat
      BY <2>2, SegmentTypes
    <3>2. Standing(segs[p[1]]) \in Nat /\ Standing(segs[p[1]]) <= Len(segs[p[1]].entries)
      BY <3>1, StandingBounds
    <3> QED BY <3>1, <3>2
  <2> QED BY <2>1, <2>2 DEF StandingIn
<1>3. \A p \in StandingIn(segs) : Stable(segs)[p] = segs[p[1]].entries[p[2]]
  BY DEF Stable
<1>4. \A p \in StandingIn(segs) : p \in DOMAIN Filed(segs)
  BY <1>1 DEF StandingIn
<1>5. \A p \in StandingIn(segs) : Filed(segs)[p] = segs[p[1]].entries[p[2]]
  BY <1>4, FiledAre
<1>6. \A p \in StandingIn(segs) : p \in Nat \X Nat
  BY <1>4, FiledTypes
<1> QED BY <1>1, <1>2, <1>3, <1>4, <1>5, <1>6

\* What stands of a chain is a chain, if only the last segment is behind.
LEMMA StableChain ==
  ASSUME NEW segs, Sane(segs), NEW n \in Nat, Chain(Filed(segs), n),
         \A i \in DOMAIN segs : i = Len(segs) \/ Standing(segs[i]) = Len(segs[i].entries)
  PROVE  \E m \in Nat : Chain(Stable(segs), m)
<1> DEFINE F == Filed(segs)
           G == Stable(segs)
<1>1. DOMAIN F \subseteq Nat \X Nat
  BY FiledTypes
<1>2. DOMAIN G \subseteq DOMAIN F /\ \A p \in DOMAIN G : G[p] = F[p]
  BY StableAre
<1>3. ASSUME NEW p \in DOMAIN G, NEW q \in DOMAIN F, Before(q, p)
      PROVE  q \in DOMAIN G
  <2>1. p[1] \in DOMAIN segs /\ p[2] \in 1 .. Standing(segs[p[1]])
    BY StableAre
  <2>2. q = <<q[1], q[2]>> /\ q[1] \in DOMAIN segs /\ q[2] \in DOMAIN segs[q[1]].entries
    BY FiledAre
  <2>3. DOMAIN segs = 1 .. Len(segs) /\ Len(segs) \in Nat
    BY LenProperties DEF Sane
  <2>4. segs[q[1]] \in Segments /\ segs[q[1]].synced <= Len(segs[q[1]].entries)
        /\ DOMAIN segs[q[1]].entries = 1 .. Len(segs[q[1]].entries)
        /\ Len(segs[q[1]].entries) \in Nat
    BY <2>2, SegmentTypes
  <2>5. Standing(segs[q[1]]) \in Nat
    BY <2>4, StandingBounds
  <2>6. CASE q[1] < p[1]
    <3>1. q[1] # Len(segs)
      BY <2>1, <2>2, <2>3, <2>6
    <3>2. Standing(segs[q[1]]) = Len(segs[q[1]].entries)
      BY <2>2, <3>1
    <3>3. q[2] \in 1 .. Standing(segs[q[1]])
      BY <2>2, <2>4, <3>2
    <3> QED BY <2>2, <3>3, StableAre
  <2>7. CASE q[1] = p[1] /\ q[2] < p[2]
    <3>1. q[2] \in 1 .. Standing(segs[q[1]])
      BY <2>1, <2>2, <2>4, <2>5, <2>7
    <3> QED BY <2>2, <3>1, StableAre
  <2> QED BY <1>3, <2>6, <2>7 DEF Before
<1>4. Chain(F, n)
  OBVIOUS
<1> HIDE DEF F, G
<1>5. \E m \in Nat : Chain(G, m)
  BY <1>1, <1>2, <1>3, <1>4, ChainShrinks
<1> QED BY <1>5 DEF G

\* The rows of a chain before a row are as many as its number says.
LEMMA ChainBefore ==
  ASSUME NEW F, DOMAIN F \subseteq Nat \X Nat, NEW n \in Nat, Chain(F, n), NEW p \in DOMAIN F
  PROVE  Cardinality({q \in DOMAIN F : Before(q, p)}) = F[p].seq - 1
<1> DEFINE S == {q \in DOMAIN F : Before(q, p)}
           G == [q \in S |-> F[q]]
<1>1. /\ \A q \in DOMAIN F : F[q].seq \in 1 .. n
      /\ \A q, o \in DOMAIN F : Before(q, o) <=> F[q].seq < F[o].seq
      /\ \A k \in 1 .. n : \E q \in DOMAIN F : F[q].seq = k
  BY DEF Chain
<1>2. DOMAIN G = S /\ S \subseteq DOMAIN F /\ \A q \in S : G[q] = F[q]
  OBVIOUS
<1>3. \A q \in S : F[q].seq < F[p].seq
  BY <1>1
<1>4. \A q \in DOMAIN F : F[q].seq < F[p].seq => q \in S
  BY <1>1
<1>5. ASSUME NEW q \in S, NEW o \in DOMAIN F, Before(o, q)
      PROVE  o \in S
  <2>1. F[o].seq < F[q].seq
    BY <1>5, <1>1
  <2>2. F[o].seq < F[p].seq
    BY <2>1, <1>1, <1>3
  <2> QED BY <2>2, <1>4
<1> HIDE DEF S, G
<1>6. PICK m \in Nat : Chain(G, m)
  BY <1>2, <1>5, ChainShrinks
<1>7. /\ \A q \in S : F[q].seq \in 1 .. m
      /\ \A k \in 1 .. m : \E q \in S : F[q].seq = k
  BY <1>2, <1>6 DEF Chain
<1>8. F[p].seq \in 1 .. n
  BY <1>1
<1>9. m = F[p].seq - 1
  <2>1. ~(m >= F[p].seq)
    <3>1. SUFFICES ASSUME m >= F[p].seq PROVE FALSE
      OBVIOUS
    <3>2. F[p].seq \in 1 .. m
      BY <3>1, <1>8
    <3>3. PICK q \in S : F[q].seq = F[p].seq
      BY <3>2, <1>7
    <3> QED BY <3>3, <1>3, <1>8
  <2>2. ~(m < F[p].seq - 1)
    <3>1. SUFFICES ASSUME m < F[p].seq - 1 PROVE FALSE
      OBVIOUS
    <3>2. F[p].seq - 1 \in 1 .. n
      BY <3>1, <1>8
    <3>3. PICK q \in DOMAIN F : F[q].seq = F[p].seq - 1
      BY <3>2, <1>1
    <3>4. q \in S
      BY <3>3, <1>4, <1>8
    <3>5. F[q].seq <= m
      BY <3>4, <1>7
    <3> QED BY <3>1, <3>3, <3>5, <1>8
  <2> QED BY <2>1, <2>2, <1>8
<1>10. DOMAIN G \subseteq Nat \X Nat
  BY <1>2
<1>11. Cardinality(DOMAIN G) = m
  BY <1>6, <1>10, ChainSize
<1>12. Cardinality(S) = F[p].seq - 1
  BY <1>2, <1>9, <1>11
<1> QED BY <1>12 DEF S

\* The log has the message of the row with number n in the n-th place.
LEMMA LogIs ==
  ASSUME NEW segs, Sane(segs), NEW m \in Nat, Chain(Stable(segs), m)
  PROVE  /\ LogIn(segs) = [n \in 1 .. m |-> LogIn(segs)[n]]
         /\ \A p \in DOMAIN Stable(segs) :
              LogIn(segs)[Stable(segs)[p].seq] = Stable(segs)[p].message
<1> DEFINE G == Stable(segs)
<1>1. DOMAIN G = StandingIn(segs) /\ DOMAIN G \subseteq Nat \X Nat
      /\ \A p \in DOMAIN G : G[p] = segs[p[1]].entries[p[2]]
  BY StableAre
<1>2. Chain(G, m)
  OBVIOUS
<1> HIDE DEF G
<1>3. /\ \A p, q \in DOMAIN G : G[p].seq = G[q].seq => p = q
      /\ Cardinality(DOMAIN G) = m
  BY <1>1, <1>2, ChainSize
<1>4. LogIn(segs) = [n \in 1 .. m |->
                       segs[NthIn(segs, n)[1]].entries[NthIn(segs, n)[2]].message]
  BY <1>1, <1>3, Zenon DEF LogIn
<1>5. ASSUME NEW p \in DOMAIN G
      PROVE  LogIn(segs)[G[p].seq] = G[p].message
  <2>1. G[p].seq \in 1 .. m
    BY <1>2 DEF Chain
  <2>2. \A q \in DOMAIN G : Cardinality({o \in DOMAIN G : Before(o, q)}) = G[q].seq - 1
    BY <1>1, <1>2, ChainBefore
  <2>3. \A q \in DOMAIN G : G[q].seq \in 1 .. m
    BY <1>2 DEF Chain
  <2>4. \A q \in DOMAIN G :
          Cardinality({o \in DOMAIN G : Before(o, q)}) = G[p].seq - 1 => q = p
    <3>1. ASSUME NEW q \in DOMAIN G,
                 Cardinality({o \in DOMAIN G : Before(o, q)}) = G[p].seq - 1
          PROVE  q = p
      <4>1. G[q].seq - 1 = G[p].seq - 1
        BY <3>1, <2>2
      <4>2. G[q].seq = G[p].seq
        BY <4>1, <2>3
      <4> QED BY <4>2, <1>3
    <3> QED BY <3>1
  <2>5. NthIn(segs, G[p].seq) =
          CHOOSE q \in DOMAIN G : Cardinality({o \in DOMAIN G : Before(o, q)}) = G[p].seq - 1
    BY <1>1, Zenon DEF NthIn
  <2>6. NthIn(segs, G[p].seq) = p
    <3>1. Cardinality({o \in DOMAIN G : Before(o, p)}) = G[p].seq - 1
      BY <2>2
    <3> DEFINE P(q) == Cardinality({o \in DOMAIN G : Before(o, q)}) = G[p].seq - 1
    <3>2. P(p) /\ \A q \in DOMAIN G : P(q) => q = p
      BY <3>1, <2>4
    <3>3. NthIn(segs, G[p].seq) = CHOOSE q \in DOMAIN G : P(q)
      BY <2>5
    <3> HIDE DEF P
    <3> QED BY <3>2, <3>3
  <2>7. LogIn(segs)[G[p].seq] = segs[p[1]].entries[p[2]].message
    BY <1>4, <2>1, <2>6
  <2> QED BY <2>7, <1>1
<1>6. LogIn(segs) = [n \in 1 .. m |-> LogIn(segs)[n]]
  BY <1>4
<1> QED BY <1>5, <1>6 DEF G

LEMMA LogTypes ==
  ASSUME NEW segs, Sane(segs), NEW m \in Nat, Chain(Stable(segs), m)
  PROVE  /\ LogIn(segs) \in Seq(Messages) /\ Len(LogIn(segs)) = m
         /\ \A k \in 1 .. m : \E p \in DOMAIN Stable(segs) :
              Stable(segs)[p].seq = k /\ LogIn(segs)[k] = Stable(segs)[p].message
<1> DEFINE G == Stable(segs)
           L == LogIn(segs)
<1>1. L = [n \in 1 .. m |-> L[n]] /\ \A p \in DOMAIN G : L[G[p].seq] = G[p].message
  BY LogIs
<1>2. Chain(G, m)
  OBVIOUS
<1> HIDE DEF G, L
<1>3. ASSUME NEW k \in 1 .. m
      PROVE  \E p \in DOMAIN G : G[p].seq = k /\ L[k] = G[p].message
  BY <1>1, <1>2 DEF Chain
<1>4. \A p \in DOMAIN G : G[p].message \in Messages
  BY <1>2, RowFields DEF Chain
<1>5. L \in [1 .. m -> Messages]
  BY <1>1, <1>3, <1>4
<1>6. L \in Seq(Messages)
  BY <1>5, SeqDef
<1>7. Len(L) = m
  <2>1. DOMAIN L = 1 .. m /\ DOMAIN L = 1 .. Len(L) /\ Len(L) \in Nat
    BY <1>5, <1>6, LenProperties
  <2> QED BY <2>1, SameLength
<1> QED BY <1>3, <1>6, <1>7 DEF G, L

\* What stood still stands, and at most one row more.
StandsMore(new, old) ==
  /\ \A q \in DOMAIN Stable(old) : q \in DOMAIN Stable(new) /\ Stable(new)[q] = Stable(old)[q]
  /\ \E p : \A q \in DOMAIN Stable(new) : q \in DOMAIN Stable(old) \/ q = p

\* A row more is a message more at the end of the log, of a key it has not.
LEMMA LogStep ==
  ASSUME NEW old, NEW new, Sane(old), Sane(new), StandsMore(new, old),
         NEW m \in Nat, Chain(Stable(old), m), NEW n \in Nat, Chain(Stable(new), n)
  PROVE  \/ LogIn(new) = LogIn(old)
         \/ \E message \in Messages :
              /\ \A i \in DOMAIN LogIn(old) : LogIn(old)[i].key # message.key
              /\ LogIn(new) = Append(LogIn(old), message)
<1> DEFINE F == Stable(old)
           G == Stable(new)
           K == LogIn(old)
           L == LogIn(new)
<1>1. DOMAIN F \subseteq Nat \X Nat /\ DOMAIN G \subseteq Nat \X Nat
  BY StableAre
<1>2. Chain(F, m) /\ Chain(G, n)
  OBVIOUS
<1>3. /\ K \in Seq(Messages) /\ Len(K) = m
      /\ \A k \in 1 .. m : \E p \in DOMAIN F : F[p].seq = k /\ K[k] = F[p].message
  BY LogTypes
<1>4. L \in Seq(Messages) /\ Len(L) = n
  BY LogTypes
<1>5. \A p \in DOMAIN G : L[G[p].seq] = G[p].message
  BY LogIs
<1>6. /\ \A q \in DOMAIN F : q \in DOMAIN G /\ G[q] = F[q]
      /\ \E p : \A q \in DOMAIN G : q \in DOMAIN F \/ q = p
  BY DEF StandsMore
<1> HIDE DEF F, G, K, L
<1>7. ASSUME NEW k \in 1 .. m
      PROVE  L[k] = K[k]
  <2>1. PICK p \in DOMAIN F : F[p].seq = k /\ K[k] = F[p].message
    BY <1>3
  <2> QED BY <2>1, <1>5, <1>6
<1>8. IsFiniteSet(DOMAIN F) /\ Cardinality(DOMAIN F) = m /\ Cardinality(DOMAIN G) = n
  BY <1>1, <1>2, ChainSize
<1>9. CASE DOMAIN G = DOMAIN F
  <2>1. m = n
    BY <1>8, <1>9
  <2>2. L = K
    BY <2>1, <1>3, <1>4, <1>7, SeqEqual
  <2> QED BY <2>2 DEF K, L
<1>10. CASE DOMAIN G # DOMAIN F
  <2>1. PICK p \in DOMAIN G : p \notin DOMAIN F /\ DOMAIN G = DOMAIN F \cup {p}
    BY <1>6, <1>10
  <2>2. n = m + 1
    BY <2>1, <1>8, FS_AddElement
  <2>3. /\ \A q \in DOMAIN F : F[q].seq \in 1 .. m
        /\ \A k \in 1 .. n : \E q \in DOMAIN G : G[q].seq = k
        /\ \A q, o \in DOMAIN G : G[q].message.key = G[o].message.key => q = o
        /\ G[p] \in Rows
    BY <1>2, <2>1 DEF Chain
  <2>4. G[p].seq = m + 1
    <3>1. n \in 1 .. n
      BY <2>2
    <3>2. PICK q \in DOMAIN G : G[q].seq = n
      BY <3>1, <2>3
    <3>3. q \notin DOMAIN F
      <4>1. q \in DOMAIN F => n \in 1 .. m
        BY <3>2, <2>3, <1>6
      <4> QED BY <4>1, <2>2
    <3> QED BY <3>2, <3>3, <2>1, <2>2
  <2> DEFINE message == G[p].message
  <2>5. message \in Messages
    BY <2>3, RowFields
  <2>6. L[m + 1] = message
    BY <2>1, <2>4, <1>5
  <2>7. DOMAIN K = 1 .. m
    BY <1>3, LenProperties
  <2>8. ASSUME NEW i \in DOMAIN K
        PROVE  K[i].key # message.key
    <3>1. PICK q \in DOMAIN F : F[q].seq = i /\ K[i] = F[q].message
      BY <2>7, <1>3
    <3>2. q \in DOMAIN G /\ G[q] = F[q] /\ q # p
      BY <1>6, <2>1
    <3> QED BY <3>1, <3>2, <2>1, <2>3
  <2> HIDE DEF message
  <2>9. /\ Append(K, message) \in Seq(Messages) /\ Len(Append(K, message)) = m + 1
        /\ \A k \in 1 .. m : Append(K, message)[k] = K[k]
        /\ Append(K, message)[m + 1] = message
    BY <2>5, <1>3, AppendProperties
  <2>10. \A k \in 1 .. m + 1 : L[k] = Append(K, message)[k]
    <3>1. \A k \in 1 .. m + 1 : k = m + 1 \/ k \in 1 .. m
      OBVIOUS
    <3> QED BY <3>1, <2>6, <2>9, <1>7
  <2>11. L = Append(K, message)
    BY <2>2, <2>9, <2>10, <1>4, SeqEqual
  <2> QED BY <2>5, <2>8, <2>11 DEF K, L
<1> QED BY <1>9, <1>10

\* Segment by segment: one of them may have a row more that stands.
LEMMA StandingGrows ==
  ASSUME NEW old, NEW new, Sane(old), Sane(new), NEW l,
         \A i \in DOMAIN old :
           /\ i \in DOMAIN new
           /\ \A j \in 1 .. Standing(old[i]) : new[i].entries[j] = old[i].entries[j]
           /\ \/ Standing(new[i]) = Standing(old[i])
              \/ i = l /\ Standing(new[i]) = Standing(old[i]) + 1,
         \A i \in DOMAIN new : i \in DOMAIN old \/ Standing(new[i]) = 0
  PROVE  StandsMore(new, old)
<1>1. \A i \in DOMAIN old : Standing(old[i]) \in Nat
  BY SegmentTypes, StandingBounds
<1>2. ASSUME NEW q \in DOMAIN Stable(old)
      PROVE  q \in DOMAIN Stable(new) /\ Stable(new)[q] = Stable(old)[q]
  <2>1. /\ q = <<q[1], q[2]>> /\ q[1] \in DOMAIN old /\ q[2] \in 1 .. Standing(old[q[1]])
        /\ Stable(old)[q] = old[q[1]].entries[q[2]]
    BY StableAre
  <2>2. Standing(old[q[1]]) \in Nat
    BY <2>1, <1>1
  <2>3. q[1] \in DOMAIN new /\ q[2] \in 1 .. Standing(new[q[1]])
    BY <2>1, <2>2
  <2>4. q \in DOMAIN Stable(new)
    BY <2>1, <2>3, StableAre
  <2>5. Stable(new)[q] = new[q[1]].entries[q[2]]
    BY <2>4, StableAre
  <2> QED BY <2>1, <2>4, <2>5
<1> DEFINE p == <<l, Standing(old[l]) + 1>>
<1>3. ASSUME NEW q \in DOMAIN Stable(new)
      PROVE  q \in DOMAIN Stable(old) \/ q = p
  <2>1. q = <<q[1], q[2]>> /\ q[1] \in DOMAIN new /\ q[2] \in 1 .. Standing(new[q[1]])
    BY StableAre
  <2>2. q[1] \in DOMAIN old
    BY <2>1
  <2>3. Standing(old[q[1]]) \in Nat
    BY <2>2, <1>1
  <2>4. CASE q[2] \in 1 .. Standing(old[q[1]])
    BY <2>1, <2>2, <2>4, StableAre
  <2>5. CASE q[2] \notin 1 .. Standing(old[q[1]])
    <3>1. q[1] = l /\ Standing(new[q[1]]) = Standing(old[q[1]]) + 1
      BY <2>1, <2>2, <2>5
    <3>2. q[2] = Standing(old[q[1]]) + 1
      BY <2>1, <2>3, <2>5, <3>1
    <3> QED BY <2>1, <3>1, <3>2
  <2> QED BY <2>4, <2>5
<1> QED BY <1>2, <1>3 DEF StandsMore

\* Only a write, an fsync or what a crash leaves makes a row more stand.
LEMMA StandingStep ==
  ASSUME CleanFailures, ArchiveInv, BehindInv, [Next]_vars
  PROVE  StandsMore(segments', segments)
<1>1. BaseInv /\ Sane(segments)
  BY WholeSegments
<1>2. Sane(segments')
  BY <1>1, SegmentsStep
<1>3. /\ segments # <<>> => Len(segments) \in DOMAIN segments
      /\ "power" \in Faults /\ append.step # "written" =>
           \A i \in DOMAIN segments : segments[i].synced = Len(segments[i].entries)
      /\ "power" \in Faults => \A i \in DOMAIN segments :
           i # Len(segments) => segments[i].synced = Len(segments[i].entries)
  BY WholeSegments DEF ArchiveInv, SyncedInv
<1>4. \A i \in DOMAIN segments :
        /\ segments[i] \in Segments /\ segments[i].synced \in Nat
        /\ segments[i].synced <= Len(segments[i].entries)
        /\ Len(segments[i].entries) \in Nat
        /\ DOMAIN segments[i].entries = 1 .. Len(segments[i].entries)
        /\ 1 .. Standing(segments[i]) \subseteq DOMAIN segments[i].entries
  BY <1>1, SegmentTypes, StandingBounds
<1>5. CASE segments' = segments
  BY <1>1, <1>5, StandingGrows
<1>6. CASE segments' = WithRoom
  <2> DEFINE more == Append(segments, EmptySegment)
  <2>1. segments \in Seq(Segments) /\ (segments' = segments \/ segments' = more)
    BY <1>1, <1>6 DEF Sane, WithRoom
  <2>2. CASE segments' = more
    <3>1. /\ more \in Seq(Segments) /\ Len(more) = Len(segments) + 1
          /\ \A i \in 1 .. Len(segments) : more[i] = segments[i]
          /\ more[Len(segments) + 1] = EmptySegment
      BY <2>1, EmptyIsSegment, AppendProperties
    <3>2. DOMAIN segments = 1 .. Len(segments) /\ DOMAIN more = 1 .. (Len(segments) + 1)
          /\ Len(segments) \in Nat
      BY <2>1, <3>1, LenProperties
    <3>3. Standing(EmptySegment) = 0
      BY EmptyIsSegment DEF Standing
    <3> HIDE DEF more
    <3>4. \A i \in DOMAIN segments : i \in DOMAIN more /\ more[i] = segments[i]
      BY <3>1, <3>2
    <3>5. \A i \in DOMAIN more : i \in DOMAIN segments \/ Standing(more[i]) = 0
      BY <3>1, <3>2, <3>3
    <3> QED BY <3>4, <3>5, <2>2, <1>1, <1>2, StandingGrows
  <2> QED BY <2>1, <2>2, <1>5
<1>7. CASE WriteRecord
  <2> DEFINE segs == UpdateLast(Written(LastSegment, append.row))
             l == Len(segments)
  <2>1. segments' = segs /\ append.step = "ensured" /\ append.row \in Rows /\ segments # <<>>
    BY <1>1, <1>7, InProgress DEF WriteRecord, Steps
  <2>2. /\ DOMAIN segs = DOMAIN segments /\ l \in DOMAIN segments
        /\ \A i \in DOMAIN segments : i # l => segs[i] = segments[i]
    BY <2>1, <1>1, <1>3, WriteProperties
  <2> DEFINE s == LastSegment
             e == IF s.torn THEN Glued ELSE append.row
  <2>3. s = segments[l]
    BY DEF LastSegment
  <2>4. segs[l] = [[s EXCEPT !.entries = Append(s.entries, e)] EXCEPT !.torn = FALSE]
    BY <2>2 DEF UpdateLast, Written
  <2>5. s \in Segments /\ s.synced \in Nat /\ Len(s.entries) \in Nat
        /\ s.entries \in Seq(Rows \cup {Glued}) /\ e \in Rows \cup {Glued}
        /\ 1 .. Standing(s) \subseteq 1 .. Len(s.entries)
    BY <2>1, <2>2, <2>3, <1>4 DEF Segments
  <2>6. segs[l].entries = Append(s.entries, e) /\ segs[l].synced = s.synced
    BY <2>4, <2>5 DEF Segments
  <2> HIDE DEF segs, s, e
  <2>7. /\ Len(Append(s.entries, e)) = Len(s.entries) + 1
        /\ \A j \in 1 .. Len(s.entries) : Append(s.entries, e)[j] = s.entries[j]
    BY <2>5, AppendProperties
  <2>8. Standing(segs[l]) = Standing(s) \/ Standing(segs[l]) = Standing(s) + 1
    BY <2>6, <2>7 DEF Standing
  <2>9. \A j \in 1 .. Standing(s) : segs[l].entries[j] = s.entries[j]
    BY <2>5, <2>6, <2>7
  <2>10. ASSUME NEW i \in DOMAIN segments
         PROVE  /\ i \in DOMAIN segs
                /\ \A j \in 1 .. Standing(segments[i]) : segs[i].entries[j] = segments[i].entries[j]
                /\ \/ Standing(segs[i]) = Standing(segments[i])
                   \/ i = l /\ Standing(segs[i]) = Standing(segments[i]) + 1
    <3>1. CASE i = l
      BY <3>1, <2>2, <2>3, <2>8, <2>9
    <3>2. CASE i # l
      BY <3>2, <2>2
    <3> QED BY <3>1, <3>2
  <2> HIDE DEF l
  <2> QED BY <2>1, <2>2, <2>10, <1>1, <1>2, StandingGrows
<1>8. ASSUME segments # <<>>, NEW s, segments' = UpdateLast(s),
             \/ s = TornLast
             \/ s = SyncedLast /\ append.step = "written"
             \/ s = MendedLast /\ append.step # "written"
      PROVE  StandsMore(segments', segments)
  <2> DEFINE l == Len(segments)
  <2> s \in {TornLast, SyncedLast, MendedLast}
    BY <1>8
  <2>1. /\ s.entries = LastSegment.entries /\ DOMAIN segments' = DOMAIN segments
        /\ segments'[l] = s /\ l \in DOMAIN segments
        /\ \A i \in DOMAIN segments : i # l => segments'[i] = segments[i]
    BY <1>1, <1>3, <1>8, Marked
  <2>2. LastSegment = segments[l]
    BY DEF LastSegment
  <2>3. LastSegment \in Segments /\ LastSegment.synced \in Nat /\ Len(LastSegment.entries) \in Nat
    BY <2>1, <2>2, <1>4
  <2>4. "power" \in Faults =>
          s.synced = LastSegment.synced \/ s.synced = LastSegment.synced + 1
    <3>1. CASE s = TornLast
      BY <3>1, <2>3 DEF TornLast, Segments
    <3>2. CASE s = SyncedLast /\ append.step = "written"
      <4>1. s.synced = Len(LastSegment.entries)
        BY <3>2, <2>3 DEF SyncedLast, Segments
      <4> QED BY <4>1, <3>2, <1>8 DEF BehindInv
    <3>3. CASE s = MendedLast /\ append.step # "written"
      <4>1. s = [[LastSegment EXCEPT !.torn = FALSE] EXCEPT !.synced = Len(LastSegment.entries)]
        BY <3>3 DEF MendedLast
      <4>2. s.synced = Len(LastSegment.entries)
        BY <4>1, <2>3 DEF Segments
      <4> QED BY <4>2, <3>3, <2>1, <2>2, <1>3, <1>8
    <3> QED BY <1>8, <3>1, <3>2, <3>3
  <2>5. Standing(s) = Standing(LastSegment) \/ Standing(s) = Standing(LastSegment) + 1
    BY <2>1, <2>4 DEF Standing
  <2>6. ASSUME NEW i \in DOMAIN segments
        PROVE  /\ i \in DOMAIN segments'
               /\ \A j \in 1 .. Standing(segments[i]) :
                    segments'[i].entries[j] = segments[i].entries[j]
               /\ \/ Standing(segments'[i]) = Standing(segments[i])
                  \/ i = l /\ Standing(segments'[i]) = Standing(segments[i]) + 1
    <3>1. CASE i = l
      BY <3>1, <2>1, <2>2, <2>5
    <3>2. CASE i # l
      BY <3>2, <2>1
    <3> QED BY <3>1, <3>2
  <2> HIDE DEF l
  <2> QED BY <2>1, <2>6, <1>1, <1>2, StandingGrows
<1>9. CASE PowerLoss
  <2> DEFINE writing(i) == append.step = "ensured" /\ i = Len(segments)
             l == Len(segments)
  <2>1. /\ "power" \in Faults
        /\ segments' \in [DOMAIN segments ->
                            UNION {Survivors(segments[i], writing(i)) : i \in DOMAIN segments}]
        /\ \A i \in DOMAIN segments : segments'[i] \in Survivors(segments[i], writing(i))
    BY <1>9 DEF PowerLoss
  <2>2. DOMAIN segments' = DOMAIN segments
    BY <2>1
  <2>3. ASSUME NEW i \in DOMAIN segments
        PROVE  \E n \in segments[i].synced .. Len(segments[i].entries), torn \in BOOLEAN :
                 segments'[i] = Cut(segments[i], n, torn)
    <3> HIDE DEF writing
    <3>1. segments'[i] \in Survivors(segments[i], writing(i))
      BY <2>1
    <3> QED BY <3>1 DEF Survivors
  <2> HIDE DEF writing
  <2>4. ASSUME NEW i \in DOMAIN segments
        PROVE  /\ i \in DOMAIN segments'
               /\ \A j \in 1 .. Standing(segments[i]) :
                    segments'[i].entries[j] = segments[i].entries[j]
               /\ \/ Standing(segments'[i]) = Standing(segments[i])
                  \/ i = l /\ Standing(segments'[i]) = Standing(segments[i]) + 1
    <3>1. PICK n \in segments[i].synced .. Len(segments[i].entries), torn \in BOOLEAN :
            segments'[i] = Cut(segments[i], n, torn)
      BY <2>3
    <3>2. /\ segments'[i].synced = Len(segments'[i].entries)
          /\ segments[i].synced <= segments'[i].synced
          /\ segments'[i].synced <= Len(segments[i].entries)
          /\ \A j \in DOMAIN segments'[i].entries :
               segments'[i].entries[j] = segments[i].entries[j]
      BY <3>1, <1>4, CutProperties
    <3>3. DOMAIN segments'[i].entries = 1 .. Len(segments'[i].entries)
          /\ Len(segments'[i].entries) \in Nat
      BY <2>2, <1>2, SegmentTypes
    <3>4. Standing(segments'[i]) = segments'[i].synced /\ Standing(segments[i]) = segments[i].synced
      BY <2>1 DEF Standing
    <3>5. \A j \in 1 .. Standing(segments[i]) : segments'[i].entries[j] = segments[i].entries[j]
      BY <3>2, <3>3, <3>4, <1>4
    <3>6. \/ segments[i].synced = Len(segments[i].entries)
          \/ i = l /\ Len(segments[i].entries) = segments[i].synced + 1
      <4>1. CASE append.step = "written" /\ i = l
        BY <4>1, <2>1 DEF BehindInv, LastSegment
      <4>2. CASE ~(append.step = "written" /\ i = l)
        BY <4>2, <2>1, <1>3
      <4> QED BY <4>1, <4>2
    <3>7. \/ segments'[i].synced = segments[i].synced
          \/ i = l /\ segments'[i].synced = segments[i].synced + 1
      BY <3>2, <3>3, <3>6, <1>4
    <3> QED BY <2>2, <3>4, <3>5, <3>7
  <2> HIDE DEF l
  <2> QED BY <2>2, <2>4, <1>1, <1>2, StandingGrows
<1>10. CASE OpenSegments
  <2>1. segments # <<>> /\ append = Idle /\ (segments' = segments \/ segments' = UpdateLast(MendedLast))
    BY <1>1, <1>10, NotBusy DEF OpenSegments, Stopped, Quarantined, MendedLast
  <2>2. append.step # "written"
    BY <1>1, <2>1, InProgress DEF Steps
  <2>3. CASE segments' = UpdateLast(MendedLast)
    BY <2>1, <2>2, <2>3, <1>8
  <2> QED BY <2>1, <2>3, <1>5
<1>11. CASE WriteFails \/ Kill
  <2>1. segments' = segments \/ (segments' = UpdateLast(TornLast) /\ append.step = "ensured")
    BY <1>11 DEF WriteFails, Kill, TornLast
  <2>2. CASE segments' = UpdateLast(TornLast) /\ append.step = "ensured"
    <3>1. segments # <<>>
      BY <1>1, <2>2, InProgress DEF Steps
    <3> QED BY <3>1, <2>2, <1>8
  <2> QED BY <2>1, <2>2, <1>5
<1>12. CASE SyncRecord
  <2>1. segments # <<>> /\ segments' = UpdateLast(SyncedLast) /\ append.step = "written"
    BY <1>1, <1>12, InProgress DEF SyncRecord, SyncedLast, Steps
  <2> QED BY <2>1, <1>8
<1>13. CASE Next
  BY <1>13, <1>5, <1>6, <1>7, <1>9, <1>10, <1>11, <1>12
     DEF Next, Replayed, Insert, SyncFails, UpsertMessage, UpsertFails, Answer, OpenLegacy,
         Migrate, Migrated, Serve, Refuse, Close
<1>14. CASE UNCHANGED vars
  BY <1>14, <1>5 DEF vars
<1> QED BY <1>13, <1>14

\* A record is behind the fsync from its write to the end of its append.
LEMMA BehindStep == CleanFailures /\ ArchiveInv /\ BehindInv /\ [Next]_vars => BehindInv'
<1> SUFFICES ASSUME CleanFailures, ArchiveInv, BehindInv, [Next]_vars,
                    "power" \in Faults, append'.step = "written"
             PROVE  Len(LastSegment'.entries) = LastSegment'.synced + 1
  BY DEF BehindInv
<1>1. BaseInv /\ Sane(segments) /\ SyncedInv
  BY WholeSegments DEF ArchiveInv
<1>2. CASE UNCHANGED vars
  BY <1>2 DEF vars, BehindInv, LastSegment
<1>3. CASE WriteRecord
  <2> DEFINE s == LastSegment
             e == IF s.torn THEN Glued ELSE append.row
             segs == UpdateLast(Written(LastSegment, append.row))
             l == Len(segments)
  <2>1. segments' = segs /\ append.step = "ensured" /\ append.row \in Rows /\ segments # <<>>
    BY <1>1, <1>3, InProgress DEF WriteRecord, Steps
  <2>2. l \in DOMAIN segments /\ Len(segs) = l
    BY <2>1, <1>1, WriteProperties, WholeSegments
  <2>3. s = segments[l]
    BY DEF LastSegment
  <2>4. s \in Segments /\ s.synced \in Nat /\ s.synced = Len(s.entries)
    BY <2>1, <2>2, <2>3, <1>1, SegmentTypes DEF SyncedInv
  <2>5. segs[l] = [[s EXCEPT !.entries = Append(s.entries, e)] EXCEPT !.torn = FALSE]
    BY <2>2 DEF UpdateLast, Written
  <2>6. s.entries \in Seq(Rows \cup {Glued}) /\ e \in Rows \cup {Glued}
    BY <2>1, <2>4 DEF Segments
  <2> HIDE DEF segs, s, e, l
  <2>7. segs[l].entries = Append(s.entries, e) /\ segs[l].synced = s.synced
    BY <2>4, <2>5, <2>6 DEF Segments
  <2>8. Len(Append(s.entries, e)) = Len(s.entries) + 1
    BY <2>6, AppendProperties
  <2>9. LastSegment' = segs[l]
    BY <2>1, <2>2 DEF LastSegment
  <2> QED BY <2>4, <2>7, <2>8, <2>9
<1>4. "idle" # "written" /\ Idle.step = "idle"
  BY DEF Idle
<1>5. ASSUME append' = append PROVE append # Idle /\ append.step = "written"
  BY <1>4, <1>5
<1>6. ASSUME append # Idle, NEW s \in {"archived", "indexed"}, append' = [append EXCEPT !.step = s]
      PROVE  FALSE
  <2>1. append'.step = s
    BY <1>1, <1>6, MovedOn DEF Steps
  <2> QED BY <2>1, <1>6
<1>7. append' # Idle
  BY <1>4
<1>8. ~Close /\ ~Kill /\ ~PowerLoss /\ ~Answer /\ ~UpsertFails /\ ~WriteFails /\ ~SyncFails
  BY <1>7 DEF Close, Kill, PowerLoss, Answer, UpsertFails, WriteFails, SyncFails, AppendFailed,
              Undone, Ended
<1>9. ~SyncRecord /\ ~UpsertMessage
  <2>1. append.step \in Steps => append # Idle
    BY <1>1, InProgress
  <2> QED BY <1>6, <1>7, <2>1 DEF SyncRecord, UpsertMessage, Steps
<1>10. \A m \in Messages : ~Replayed(m) /\ ~Insert(m)
  <2>1. ASSUME NEW m \in Messages, Insert(m)
        PROVE  FALSE
    <3>1. PICK id \in Fresh : append' = Doing("ensured", NewRow(m, id))
      BY <2>1 DEF Insert
    <3> QED BY <3>1 DEF Doing
  <2>2. ASSUME NEW m \in Messages, Replayed(m)
        PROVE  FALSE
    BY <2>2, <1>5 DEF Replayed, Serving
  <2> QED BY <2>1, <2>2
<1>11. ~OpenSegments /\ ~OpenLegacy /\ ~Serve /\ ~Refuse
  <2>1. phase \notin {"up", "migrating"} => append = Idle
    BY <1>1, NotBusy
  <2> QED BY <2>1, <1>5 DEF OpenSegments, OpenLegacy, Serve, Refuse, Stopped
<1>12. ~Migrate /\ ~Migrated
  <2>1. ASSUME Migrate
        PROVE  FALSE
    <3>1. PICK r \in Unmigrated : append' = Doing("ensured", [r EXCEPT !.prev = lastID])
      BY <2>1 DEF Migrate
    <3> QED BY <3>1 DEF Doing
  <2>2. ~Migrated
    BY <1>5, <1>7 DEF Migrated, Ended
  <2> QED BY <2>1, <2>2
<1> QED BY <1>2, <1>3, <1>8, <1>9, <1>10, <1>11, <1>12 DEF Next

\* What stands is a chain at any time.
LogInv == Sane(segments) /\ \E m \in Nat : Chain(Stable(segments), m)

LEMMA StandingChain ==
  ASSUME CleanFailures, ArchiveInv, ChainInv
  PROVE  LogInv
<1>1. Sane(segments) /\ SyncedInv
  BY WholeSegments DEF ArchiveInv
<1>2. PICK n \in Nat : Chain(Filed(segments), n)
  BY SomeChain
<1>3. ASSUME NEW i \in DOMAIN segments
      PROVE  i = Len(segments) \/ Standing(segments[i]) = Len(segments[i].entries)
  BY <1>1 DEF SyncedInv, Standing
<1>4. \E m \in Nat : Chain(Stable(segments), m)
  BY <1>1, <1>2, <1>3, StableChain
<1> QED BY <1>1, <1>4 DEF LogInv

\* The archive is an append-only log in which a message has one place: what
\* stands in the segments is, in the order of its numbers, a sequence that only
\* grows, by a message of a key it does not have yet, when its record is fsynced
\* (or written, where only the process may die); no failed append, no crash, no
\* reopening and no migration takes a message out, moves it or adds it again.
THEOREM ArchiveIsLog ==
  ASSUME CleanFailures
  PROVE  Spec => ImplementsMessageLog
<1> DEFINE bar == [n \in 1 .. Cardinality(StandingPositions) |-> At(Nth(n)).message]
<1>1. bar = LogIn(segments)
  BY DEF StandingPositions, Positions, Nth, At, LogIn, NthIn, StandingIn, PositionsIn
<1>2. bar' = LogIn(segments')
  BY DEF StandingPositions, Positions, Nth, At, LogIn, NthIn, StandingIn, PositionsIn
<1>3. Init => bar = <<>>
  <2> SUFFICES ASSUME Init PROVE bar = <<>>
    OBVIOUS
  <2>1. segments = <<>> /\ Sane(segments)
    BY InitArchive, WholeSegments DEF Init
  <2>2. DOMAIN Stable(segments) = {}
    BY <2>1, StableAre
  <2>3. Chain(Stable(segments), 0)
    BY <2>2 DEF Chain
  <2>4. LogIn(segments) \in Seq(Messages) /\ Len(LogIn(segments)) = 0
    BY <2>1, <2>3, LogTypes
  <2> QED BY <2>4, <1>1, EmptySeq
<1>4. LogInv /\ LogInv' /\ ArchiveInv /\ BehindInv /\ [Next]_vars => [Log!Next]_bar
  <2> SUFFICES ASSUME LogInv, LogInv', ArchiveInv, BehindInv, [Next]_vars
               PROVE  Log!Next \/ bar' = bar
    OBVIOUS
  <2>1. PICK m \in Nat : Chain(Stable(segments), m)
    BY DEF LogInv
  <2>2. PICK n \in Nat : Chain(Stable(segments'), n)
    BY DEF LogInv
  <2>3. StandsMore(segments', segments)
    BY StandingStep
  <2>4. Sane(segments) /\ Sane(segments')
    BY DEF LogInv
  <2>5. \/ LogIn(segments') = LogIn(segments)
        \/ \E message \in Messages :
             /\ \A i \in DOMAIN LogIn(segments) : LogIn(segments)[i].key # message.key
             /\ LogIn(segments') = Append(LogIn(segments), message)
    BY <2>1, <2>2, <2>3, <2>4, LogStep
  <2> HIDE DEF bar
  <2>6. CASE LogIn(segments') = LogIn(segments)
    BY <2>6, <1>1, <1>2
  <2>7. CASE \E message \in Messages :
               /\ \A i \in DOMAIN LogIn(segments) : LogIn(segments)[i].key # message.key
               /\ LogIn(segments') = Append(LogIn(segments), message)
    <3>1. PICK message \in Messages :
            /\ \A i \in DOMAIN bar : bar[i].key # message.key
            /\ bar' = Append(bar, message)
      BY <2>7, <1>1, <1>2
    <3>2. Log!Archive(message)
      BY <3>1 DEF Log!Archive, Log!Archived, bar
    <3> QED BY <3>2 DEF Log!Next
  <2> QED BY <2>5, <2>6, <2>7
<1>5. Init => BehindInv
  BY DEF Init, BehindInv, Idle
<1>6. ArchiveInv /\ BehindInv /\ [Next]_vars => BehindInv'
  BY BehindStep
<1>7. ArchiveInv /\ ChainInv => LogInv
  BY StandingChain
<1>8. Spec => [](ArchiveInv /\ ChainInv)
  BY ChainAlways
<1> HIDE DEF bar
<1> QED BY <1>3, <1>4, <1>5, <1>6, <1>7, <1>8, PTL DEF Spec, Log!Spec, Log!Init, ImplementsMessageLog, bar
=============================================================================
