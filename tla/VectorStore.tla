---------------------------- MODULE VectorStore ----------------------------
(***************************************************************************)
(* One generation of the persistent vector projection                      *)
(* (internal/lite/vectorstore): what its directory holds, what an open     *)
(* Store remembers of it, and what Append, recovery, Verify and Search     *)
(* make of the two.  Operators on values only; VectorSync makes steps of   *)
(* them.                                                                   *)
(*                                                                         *)
(* A directory is vectors.bin (a header with the committed count, then one *)
(* record per ordinal), vector-map.jsonl (one line per ordinal) and        *)
(* manifest.json.  A record is represented by the source whose vector it   *)
(* holds: an embedding is a function of the model and the text, and the    *)
(* text of a source never changes, so the source stands for its checksum   *)
(* and its input hash too.  Every write is followed by its fsync before    *)
(* the next one begins; a crash therefore keeps or drops the last write.   *)
(***************************************************************************)
EXTENDS Naturals, Sequences

CONSTANTS
  Sources,     \* memory ids
  NoSource     \* what the unreadable part of a map line names

(***************************************************************************)
(* A line of the map, and the fragment a write that stopped half way       *)
(* leaves: it has no newline, so the next line is glued to it.             *)
(***************************************************************************)
Line(ordinal, source) == [ordinal |-> ordinal, source |-> source]
Fragment == Line(0, NoSource)

Lines == [ordinal : Nat, source : Sources]

NewGeneration(model, dimensions, state) ==
  [model |-> model, dimensions |-> dimensions, state |-> state,
   count |-> 0, records |-> <<>>, map |-> <<>>]

\* What recovery reads of the map: everything before the first bad line.
Parsed(map) ==
  LET bad == {i \in DOMAIN map : map[i] = Fragment}
  IN  IF bad = {} THEN map
      ELSE SubSeq(map, 1, (CHOOSE i \in bad : \A j \in bad : i <= j) - 1)

\* recoverLocked refuses a map or a record file shorter than the committed
\* count, a line out of its place and a source that is mapped twice.
Opens(g) ==
  LET lines == Parsed(g.map)
  IN  /\ Len(lines) >= g.count
      /\ Len(g.records) >= g.count
      /\ \A i \in 1 .. g.count : lines[i].ordinal = i - 1
      /\ \A i, j \in 1 .. g.count : lines[i].source = lines[j].source => i = j

\* Mutant of Recovered: the files keep what was never committed.
RecoveredUncut(g) == g

\* What it leaves behind: both files cut back to the committed count.
Recovered(g) ==
  [g EXCEPT !.records = SubSeq(@, 1, g.count),
            !.map = SubSeq(Parsed(@), 1, g.count)]

\* The open Store: header.CommittedCount and refs.
EmptyHandle == [count |-> 0, refs |-> <<>>]
HandleOf(g) == [count |-> g.count, refs |-> SubSeq(Parsed(g.map), 1, g.count)]

HasVector(h, s) == \E i \in DOMAIN h.refs : h.refs[i].source = s

\* bySource gives the ordinal of the ref, and Append answers refs[ordinal]:
\* beyond the end of refs when the count has run ahead of it.
AnswersExisting(h, s) ==
  \A i \in DOMAIN h.refs : h.refs[i].source = s => h.refs[i].ordinal < Len(h.refs)

-----------------------------------------------------------------------------
(***************************************************************************)
(* Append: the record, the map line, the committed count.                  *)
(***************************************************************************)
WithRecord(g, h, s) ==
  [g EXCEPT !.records = IF h.count < Len(@) THEN [@ EXCEPT ![h.count + 1] = s]
                                            ELSE Append(@, s)]

Glue(map, line) ==
  IF map # <<>> /\ map[Len(map)] = Fragment THEN map ELSE Append(map, line)

WithFragment(g, h, s) == [WithRecord(g, h, s) EXCEPT !.map = Glue(@, Fragment)]
WithLine(g, h, s) == [WithRecord(g, h, s) EXCEPT !.map = Glue(@, Line(h.count, s))]
WithCount(g, h, s) == [WithLine(g, h, s) EXCEPT !.count = h.count + 1]

Ahead(h) == [h EXCEPT !.count = @ + 1]
Extended(h, s) == [count |-> h.count + 1, refs |-> Append(h.refs, Line(h.count, s))]

Outcome(g, h, ok) == [disk |-> g, handle |-> h, ok |-> ok]

(***************************************************************************)
(* How an Append of a new source can return.  The errors, in the order of  *)
(* the code: the record or its fsync; a part of the map line, or all of it *)
(* and no fsync; the count, which memory has already raised; the fsync of  *)
(* the count; the manifest or the mapping, after everything is committed.  *)
(***************************************************************************)
AppendOutcomes(g, h, s, faults) ==
     {Outcome(WithCount(g, h, s), Extended(h, s), TRUE)}
  \cup IF "record" \in faults THEN {Outcome(WithRecord(g, h, s), h, FALSE)} ELSE {}
  \cup IF "map" \in faults THEN {Outcome(WithFragment(g, h, s), h, FALSE),
                                 Outcome(WithLine(g, h, s), h, FALSE)} ELSE {}
  \cup IF "count" \in faults THEN {Outcome(WithLine(g, h, s), Ahead(h), FALSE),
                                   Outcome(WithCount(g, h, s), Ahead(h), FALSE)} ELSE {}
  \cup IF "manifest" \in faults
         THEN {Outcome(WithCount(g, h, s), Extended(h, s), FALSE)} ELSE {}

\* What is on the disk when the process or the machine dies inside Append.
AppendCrashes(g, h, s) ==
  {WithRecord(g, h, s), WithFragment(g, h, s), WithLine(g, h, s), WithCount(g, h, s)}

-----------------------------------------------------------------------------
\* Verify compares each ref it looks at with the checksum of the record its
\* place in refs names.  The short form looks at the first, the middle and
\* the last one.
OwnRecord(g, h, i) == i <= Len(g.records) /\ g.records[i] = h.refs[i].source

VerifyAll(g, h) == \A i \in DOMAIN h.refs : OwnRecord(g, h, i)

VerifySample(g, h) ==
  \A i \in {1, (Len(h.refs) \div 2) + 1, Len(h.refs)} \cap DOMAIN h.refs : OwnRecord(g, h, i)

\* Search scores the record at each place of refs and names the ref's source.
Candidates(g, h) ==
  {[source |-> h.refs[i].source, vector |-> g.records[i]] :
     i \in DOMAIN h.refs \cap DOMAIN g.records}
=============================================================================
