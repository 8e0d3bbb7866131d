-------------------------- MODULE VectorSyncProofs --------------------------
(***************************************************************************)
(* What a client of the vector projection relies on, for every set of      *)
(* memories, models and faults and without the bounds of the runs: CURRENT *)
(* opens again, the open store and vector_refs name the same vectors, and  *)
(* a hit scores the vector of the memory it names.                         *)
(*                                                                         *)
(* The argument has three layers.  Below, what the files of one generation *)
(* look like, whatever failed while it was appended to (Laid, Kept,        *)
(* Sound): a record that is out of step with its line can only be the last *)
(* one, or the ordinals after it are out of their places.  That is why     *)
(* opening may look at three records and know of all (SampleSuffices).     *)
(* Above, which generation is whose: the one being served, the ones being  *)
(* built, and the one CURRENT names (ServingInv, SyncInv, RefsInv).  And a *)
(* query, which takes no mutex, holds what was true of some generation when *)
(* it looked (QueryInv).                                                   *)
(***************************************************************************)
EXTENDS VectorSync, FiniteSetTheorems, SequenceTheorems, TLAPS

-----------------------------------------------------------------------------
(***************************************************************************)
(* One generation.                                                         *)
(***************************************************************************)
GenerationType ==
  [model : Models, dimensions : Dims \cup {0}, state : {"READY", "BUILDING"},
   count : Nat, records : Seq(Sources), map : Seq(Lines \cup {Fragment})]

Handles == [count : Nat, refs : Seq(Lines)]

\* A fragment never ends: what is written next is glued to it.
FragmentLast(map) == \A i \in DOMAIN map : map[i] = Fragment => i = Len(map)

Whole(map) == \A i \in DOMAIN map : map[i] # Fragment

\* The record at i belongs to the line at i if the next line is in its place.
LineUp(g, n) ==
  \A i \in 1 .. n : i + 1 \in DOMAIN Parsed(g.map) /\ Parsed(g.map)[i + 1].ordinal = i
                      => g.records[i] = Parsed(g.map)[i].source

\* The files of any generation, after any failures.
Laid(g) ==
  /\ g \in GenerationType /\ FragmentLast(g.map)
  /\ g.count <= Len(g.records)
  /\ LineUp(g, g.count - 1)

\* The files of a generation that is appended to at n, after any failures.
Kept(g, n) ==
  /\ g \in GenerationType /\ FragmentLast(g.map)
  /\ g.count <= n /\ n <= Len(g.records)
  /\ \A i \in DOMAIN Parsed(g.map) : Parsed(g.map)[i].ordinal <= n
  /\ LineUp(g, n)
  /\ Whole(g.map) => /\ n <= Len(g.map)
                     /\ n > 0 /\ n = Len(g.map) => g.records[n] = g.map[n].source

\* Files and memory after no failure but a record that has no line.
Sound(g, h) ==
  /\ g \in GenerationType /\ g.map \in Seq(Lines)
  /\ Len(g.map) = g.count /\ g.count <= Len(g.records)
  /\ h = [count |-> g.count, refs |-> g.map]
  /\ \A i \in 1 .. g.count : g.map[i].ordinal = i - 1 /\ g.map[i].source = g.records[i]
  /\ \A i, j \in 1 .. g.count : g.map[i].source = g.map[j].source => i = j

\* What CurrentReopens says of a generation.
Reopens(g) == Opens(g) /\ g.state = "READY" /\ VerifyAll(Recovered(g), HandleOf(g))

-----------------------------------------------------------------------------
(***************************************************************************)
(* The inductive invariant.                                                *)
(***************************************************************************)
Quiet == glitches \cap {"map", "count"} = {}
Tidy == glitches \cap {"index", "manifest", "count"} = {}

Steps == {"idle", "entered", "embedding", "answered", "appending", "done"}

SyncType ==
  [at : Steps, queue : Seq(Sources), next : Nat \ {0}, dimensions : Dims \cup {0},
   target : [generation : Nat, handle : Handles], fresh : BOOLEAN, failed : BOOLEAN]

Typed ==
  /\ generations \in Seq(GenerationType)
  /\ current \in 0 .. Len(generations)
  /\ legacy \in Seq(Sources)
  /\ phase \in {"down", "opening", "up"}
  /\ serving \in [generation : 0 .. Len(generations), handle : Handles]
  /\ issue \in BOOLEAN /\ blocked \in BOOLEAN
  /\ refs \subseteq [generation : Nat, line : Lines]
  /\ provider \in [model : Models, dimensions : Dims]
  /\ mu \in Routes \cup {"free"}
  /\ sync \in [Syncs -> SyncType]
  /\ glitches \subseteq Faults

FilesInv == \A x \in DOMAIN generations : Laid(generations[x])

\* Who holds Store.mu appends; a build is of a generation nobody else knows.
Building(r) ==
  LET t == Target(r) IN
  /\ t.generation \in DOMAIN generations \ {current, serving.generation}
  /\ Sound(generations[t.generation], t.handle)
  /\ generations[t.generation].model = provider.model
  /\ \A row \in refs : row.generation # t.generation

RouteInv(r) ==
  /\ sync[r].at = "appending" <=> mu = r
  /\ phase # "up" => sync[r].at = "idle"
  /\ sync[r].at \notin {"appending", "done"} => ~sync[r].fresh
  /\ mu = r => IF sync[r].fresh THEN Building(r)
                                ELSE Target(r) = serving /\ serving.generation # 0

\* The import appends to the generation it has made CURRENT.
ImportInv ==
  /\ ~sync["import"].fresh
  /\ sync["import"].at \in {"idle", "appending", "done"}
  /\ sync["import"].at # "idle" => phase = "opening" /\ serving = NoStore
  /\ phase = "down" => serving = NoStore
  /\ sync["import"].at = "appending" =>
       /\ current # 0 /\ Target("import").generation = current
       /\ Sound(generations[current], Target("import").handle)
       /\ generations[current].state = "READY"

SyncInv == (\A r \in Routes : RouteInv(r)) /\ ImportInv

\* The rows of vector_refs that belong to an open generation.
SameRows(table, g, h) ==
  \A s \in Sources : HasVector(h, s) <=> \E row \in table : row.line.source = s /\ row.generation = g

SameVectors(store) == SameRows(refs, store.generation, store.handle)

ServingInv ==
  serving.generation # 0 =>
    LET g == generations[serving.generation]
        h == serving.handle
    IN  /\ Kept(g, h.count)
        /\ Quiet => Sound(g, h)
        /\ "count" \notin glitches => h.count = Len(h.refs) /\ VerifyAll(g, h)
        /\ Tidy => SameVectors(serving)

RefsInv ==
  /\ \A row \in refs : /\ row.generation \in DOMAIN generations
                       /\ generations[row.generation].count > 0
  /\ sync["import"].at = "appending" /\ Tidy => SameVectors(Target("import"))

CurrentInv == current # 0 /\ Quiet => Reopens(generations[current])

\* A sync's queue is finite, for it is of active memories.
RowsInv ==
  /\ rows \in [Sources -> {"none", "ACTIVE", "RETIRED"}]
  /\ IsFiniteSet({s \in Sources : Eligible(s)})

\* Without a generation nothing is open.
StoreInv == serving.generation = 0 => serving = NoStore

VectorInv == Typed /\ FilesInv /\ SyncInv /\ ServingInv /\ RefsInv /\ CurrentInv

(***************************************************************************)
(* The models of what is served, cached and asked for.                     *)
(***************************************************************************)
Texts == Queries \cup {"none"}

VectorsOf(m) == [model : {m}, dimensions : Dims]

CacheOf(m) == [generation : Nat, entries : Seq([text : Texts, vector : VectorsOf(m)])]

QueryType ==
  [at : {"idle", "embedding", "searching", "resolving"}, text : Texts, generation : Nat,
   vector : [model : Models \cup {"none"}, dimensions : Dims \cup {0}],
   candidates : SUBSET [source : Sources, vector : Sources]]

\* A search that is under way is of the model that is being served.
QueryInv ==
  /\ query \in QueryType /\ cache \in CacheOf(provider.model)
  /\ phase # "up" => query = NoQuery /\ cache = EmptyCache
  /\ query.at # "idle" => serving.generation # 0
  /\ phase = "up" /\ serving.generation # 0 /\ (~blocked \/ query.at # "idle") => SameModel
  /\ query.at \in {"searching", "resolving"} => query.vector.model = provider.model
  /\ query.at = "resolving" =>
       /\ query.generation \in DOMAIN generations
       /\ generations[query.generation].model = provider.model
       /\ "count" \notin glitches => \A c \in query.candidates : c.vector = c.source

-----------------------------------------------------------------------------
(***************************************************************************)
(* Sequences.                                                              *)
(***************************************************************************)
LEMMA Prefixes ==
  ASSUME NEW S, NEW s \in Seq(S), NEW n \in 0 .. Len(s)
  PROVE  /\ SubSeq(s, 1, n) \in Seq(S) /\ Len(SubSeq(s, 1, n)) = n
         /\ \A i \in 1 .. n : SubSeq(s, 1, n)[i] = s[i]
<1>1. Len(s) \in Nat /\ \A i \in 1 .. n : s[i] \in S
  OBVIOUS
<1>2. n \in Int /\ 1 \in Int /\ n - 1 + 1 = n /\ (n = 0 \/ 1 <= n)
  BY <1>1
<1>3. SubSeq(s, 1, n) \in Seq(S) /\ Len(SubSeq(s, 1, n)) = n
  BY <1>1, <1>2, SubSeqProperties
<1>4. \A i \in 1 .. n : SubSeq(s, 1, n)[i] = s[i]
  BY <1>1, <1>2, SubSeqProperties
<1> QED BY <1>3, <1>4

LEMMA Appends ==
  ASSUME NEW S, NEW s \in Seq(S), NEW x \in S
  PROVE  /\ Append(s, x) \in Seq(S) /\ Len(Append(s, x)) = Len(s) + 1 /\ Len(s) \in Nat
         /\ Append(s, x)[Len(s) + 1] = x
         /\ \A i \in 1 .. Len(s) : Append(s, x)[i] = s[i]
BY AppendProperties

-----------------------------------------------------------------------------
(***************************************************************************)
(* The map, with a fragment at its end or without.                         *)
(***************************************************************************)
LEMMA FragmentIsNoLine == Fragment \notin Lines
BY VectorAssumption DEF Fragment, Line, Lines

LEMMA LineTyped ==
  ASSUME NEW n \in Nat, NEW s \in Sources
  PROVE  Line(n, s) \in Lines /\ Line(n, s).ordinal = n /\ Line(n, s).source = s
BY DEF Line, Lines

LEMMA ParsedFacts ==
  ASSUME NEW map \in Seq(Lines \cup {Fragment}), FragmentLast(map)
  PROVE  /\ Parsed(map) \in Seq(Lines) /\ Len(Parsed(map)) \in Nat /\ Len(map) \in Nat
         /\ Len(Parsed(map)) <= Len(map)
         /\ \A i \in 1 .. Len(Parsed(map)) : Parsed(map)[i] = map[i]
         /\ Whole(map) => Parsed(map) = map
         /\ ~Whole(map) => Len(map) # 0 /\ map[Len(map)] = Fragment /\ Len(Parsed(map)) = Len(map) - 1
<1> DEFINE bad == {i \in DOMAIN map : map[i] = Fragment}
<1>1. Len(map) \in Nat /\ DOMAIN map = 1 .. Len(map)
  BY LenProperties
<1>2. CASE Whole(map)
  <2>1. bad = {}
    BY <1>2 DEF Whole
  <2>2. Parsed(map) = map
    BY <2>1 DEF Parsed
  <2>3. \A i \in 1 .. Len(map) : map[i] \in Lines
    BY <1>1, <1>2 DEF Whole
  <2>4. map \in Seq(Lines)
    BY <1>1, <2>3, SeqDef
  <2> QED BY <1>1, <1>2, <2>2, <2>4
<1>3. CASE ~Whole(map)
  <2>1. Len(map) \in bad /\ bad \subseteq {Len(map)}
    BY <1>3 DEF Whole, FragmentLast
  <2>2. (CHOOSE i \in bad : \A j \in bad : i <= j) = Len(map)
    <3>1. \E i \in bad : \A j \in bad : i <= j
      BY <1>1, <2>1
    <3> QED BY <2>1, <3>1
  <2>3. Parsed(map) = SubSeq(map, 1, Len(map) - 1)
    BY <2>1, <2>2 DEF Parsed
  <2>4. Len(map) # 0 /\ Len(map) - 1 \in 0 .. Len(map)
    BY <1>1, <2>1
  <2> DEFINE p == Len(map) - 1
  <2>5a. /\ SubSeq(map, 1, p) \in Seq(Lines \cup {Fragment}) /\ Len(SubSeq(map, 1, p)) = p
         /\ \A i \in 1 .. p : SubSeq(map, 1, p)[i] = map[i]
    <3> HIDE DEF p
    <3>1. p \in 0 .. Len(map)
      BY <2>4 DEF p
    <3> QED BY <3>1, Prefixes
  <2>5. /\ Parsed(map) \in Seq(Lines \cup {Fragment}) /\ Len(Parsed(map)) = Len(map) - 1
        /\ \A i \in 1 .. Len(map) - 1 : Parsed(map)[i] = map[i]
    BY <2>3, <2>5a
  <2>6. \A i \in 1 .. Len(map) - 1 : Parsed(map)[i] \in Lines
    BY <1>1, <2>1, <2>5
  <2>7. Parsed(map) \in Seq(Lines)
    BY <1>1, <2>4, <2>5, <2>6, SeqDef, LenProperties
  <2> QED BY <1>1, <1>3, <2>1, <2>4, <2>5, <2>7
<1> QED BY <1>2, <1>3

LEMMA GlueLine ==
  ASSUME NEW map \in Seq(Lines \cup {Fragment}), FragmentLast(map), NEW line \in Lines
  PROVE  /\ Glue(map, line) \in Seq(Lines \cup {Fragment}) /\ FragmentLast(Glue(map, line))
         /\ Whole(map) => Whole(Glue(map, line)) /\ Glue(map, line) = Append(map, line)
         /\ ~Whole(map) => Glue(map, line) = map
<1>1. Len(map) \in Nat /\ DOMAIN map = 1 .. Len(map) /\ (map # <<>> <=> Len(map) # 0)
  BY LenProperties, EmptySeq
<1>2. CASE Whole(map)
  <2>1. Glue(map, line) = Append(map, line)
    <3>1. map # <<>> => Len(map) \in DOMAIN map
      BY <1>1
    <3>2. map # <<>> => map[Len(map)] # Fragment
      BY <1>2, <3>1 DEF Whole
    <3> QED BY <3>2 DEF Glue
  <2>2. /\ Append(map, line) \in Seq(Lines \cup {Fragment}) /\ DOMAIN Append(map, line) = 1 .. Len(map) + 1
        /\ Append(map, line)[Len(map) + 1] = line
        /\ \A i \in 1 .. Len(map) : Append(map, line)[i] = map[i]
    BY <1>1, Appends, LenProperties
  <2>3. Whole(Append(map, line))
    BY <1>1, <1>2, <2>2, FragmentIsNoLine DEF Whole
  <2> QED BY <1>2, <2>1, <2>2, <2>3 DEF FragmentLast, Whole
<1>3. CASE ~Whole(map)
  BY <1>1, <1>3, ParsedFacts DEF Glue
<1> QED BY <1>2, <1>3

LEMMA GlueFragment ==
  ASSUME NEW map \in Seq(Lines \cup {Fragment}), FragmentLast(map)
  PROVE  /\ Glue(map, Fragment) \in Seq(Lines \cup {Fragment}) /\ FragmentLast(Glue(map, Fragment))
         /\ ~Whole(Glue(map, Fragment))
         /\ Parsed(Glue(map, Fragment)) = Parsed(map)
<1> DEFINE m == Append(map, Fragment)
<1>1. Len(map) \in Nat /\ DOMAIN map = 1 .. Len(map) /\ (map # <<>> <=> Len(map) # 0)
  BY LenProperties, EmptySeq
<1>2. CASE Whole(map)
  <2>1. Glue(map, Fragment) = m
    <3>1. map # <<>> => Len(map) \in DOMAIN map
      BY <1>1
    <3>2. map # <<>> => map[Len(map)] # Fragment
      BY <1>2, <3>1 DEF Whole
    <3> QED BY <3>2 DEF Glue
  <2>2. /\ m \in Seq(Lines \cup {Fragment}) /\ Len(m) = Len(map) + 1 /\ DOMAIN m = 1 .. Len(map) + 1
        /\ m[Len(map) + 1] = Fragment
        /\ \A i \in 1 .. Len(map) : m[i] = map[i]
    BY <1>1, Appends, LenProperties
  <2>3. FragmentLast(m) /\ ~Whole(m)
    BY <1>1, <1>2, <2>2 DEF FragmentLast, Whole
  <2>4. Parsed(map) = map /\ map \in Seq(Lines)
    BY <1>2, ParsedFacts
  <2> HIDE DEF m
  <2>5. Parsed(m) \in Seq(Lines) /\ Len(Parsed(m)) = Len(map) /\ \A i \in 1 .. Len(map) : Parsed(m)[i] = map[i]
    BY <1>1, <2>2, <2>3, ParsedFacts
  <2>6. Parsed(m) = map
    BY <2>4, <2>5, SeqEqual
  <2> QED BY <2>1, <2>2, <2>3, <2>4, <2>6
<1>3. CASE ~Whole(map)
  <2>1. Glue(map, Fragment) = map
    BY <1>1, <1>3, ParsedFacts DEF Glue
  <2> QED BY <1>3, <2>1
<1> QED BY <1>2, <1>3

-----------------------------------------------------------------------------
(***************************************************************************)
(* What an Append writes, one file at a time.                              *)
(***************************************************************************)
\* Everything but the records, the map and the count.
SameKind(g1, g) == g1.model = g.model /\ g1.dimensions = g.dimensions /\ g1.state = g.state

\* The record at n + 1 is s's; the ones before it are as they were.
RecordsOf(g1, g, n, s) ==
  /\ g1.records \in Seq(Sources) /\ Len(g1.records) \in Nat /\ n + 1 <= Len(g1.records)
  /\ g1.records[n + 1] = s
  /\ \A i \in 1 .. n : g1.records[i] = g.records[i]

LEMMA RecordWritten ==
  ASSUME NEW g \in GenerationType, NEW h \in Handles, h.count <= Len(g.records), NEW s \in Sources
  PROVE  /\ WithRecord(g, h, s) \in GenerationType
         /\ SameKind(WithRecord(g, h, s), g)
         /\ WithRecord(g, h, s).count = g.count /\ WithRecord(g, h, s).map = g.map
         /\ RecordsOf(WithRecord(g, h, s), g, h.count, s)
<1> DEFINE n == h.count
           recs == IF n < Len(g.records) THEN [g.records EXCEPT ![n + 1] = s] ELSE Append(g.records, s)
<1>1. n \in Nat /\ g.records \in Seq(Sources) /\ Len(g.records) \in Nat
  BY DEF Handles, GenerationType
<1>2. /\ recs \in Seq(Sources) /\ Len(recs) \in Nat /\ n + 1 <= Len(recs) /\ recs[n + 1] = s
      /\ \A i \in 1 .. n : recs[i] = g.records[i]
  <2>1. CASE n < Len(g.records)
    <3>1. n + 1 \in 1 .. Len(g.records)
      BY <1>1, <2>1
    <3> QED BY <1>1, <2>1, <3>1, ExceptSeq
  <2>2. CASE ~(n < Len(g.records))
    BY <1>1, <2>2, Appends
  <2> QED BY <2>1, <2>2
<1>3. WithRecord(g, h, s) = [g EXCEPT !.records = recs]
  BY DEF WithRecord
<1> HIDE DEF recs
<1> QED BY <1>2, <1>3 DEF GenerationType, SameKind, RecordsOf

LEMMA FragmentWritten ==
  ASSUME NEW g \in GenerationType, FragmentLast(g.map), NEW h \in Handles, h.count <= Len(g.records),
         NEW s \in Sources
  PROVE  LET g1 == WithFragment(g, h, s) IN
         /\ g1 \in GenerationType /\ FragmentLast(g1.map)
         /\ SameKind(g1, g) /\ g1.count = g.count
         /\ ~Whole(g1.map) /\ Parsed(g1.map) = Parsed(g.map)
         /\ RecordsOf(g1, g, h.count, s)
<1> DEFINE w == WithRecord(g, h, s)
           m == Glue(g.map, Fragment)
<1>1. w \in GenerationType /\ SameKind(w, g) /\ w.count = g.count /\ w.map = g.map /\ RecordsOf(w, g, h.count, s)
  BY RecordWritten
<1>2. g.map \in Seq(Lines \cup {Fragment})
  BY DEF GenerationType
<1>3. m \in Seq(Lines \cup {Fragment}) /\ FragmentLast(m) /\ ~Whole(m) /\ Parsed(m) = Parsed(g.map)
  BY <1>2, GlueFragment
<1>4. WithFragment(g, h, s) = [w EXCEPT !.map = m]
  BY <1>1 DEF WithFragment
<1> HIDE DEF w, m
<1> QED BY <1>1, <1>3, <1>4 DEF GenerationType, SameKind, RecordsOf

LEMMA LineWritten ==
  ASSUME NEW g \in GenerationType, FragmentLast(g.map), NEW h \in Handles, h.count <= Len(g.records),
         NEW s \in Sources
  PROVE  LET g1 == WithLine(g, h, s) IN
         /\ g1 \in GenerationType /\ FragmentLast(g1.map)
         /\ SameKind(g1, g) /\ g1.count = g.count
         /\ Whole(g.map) => Whole(g1.map) /\ g1.map = Append(g.map, Line(h.count, s))
         /\ ~Whole(g.map) => g1.map = g.map
         /\ RecordsOf(g1, g, h.count, s)
<1> DEFINE w == WithRecord(g, h, s)
           m == Glue(g.map, Line(h.count, s))
<1>1. w \in GenerationType /\ SameKind(w, g) /\ w.count = g.count /\ w.map = g.map /\ RecordsOf(w, g, h.count, s)
  BY RecordWritten
<1>2. g.map \in Seq(Lines \cup {Fragment}) /\ Line(h.count, s) \in Lines
  BY LineTyped DEF GenerationType, Handles
<1>3. /\ m \in Seq(Lines \cup {Fragment}) /\ FragmentLast(m)
      /\ Whole(g.map) => Whole(m) /\ m = Append(g.map, Line(h.count, s))
      /\ ~Whole(g.map) => m = g.map
  BY <1>2, GlueLine
<1>4. WithLine(g, h, s) = [w EXCEPT !.map = m]
  BY <1>1 DEF WithLine
<1> HIDE DEF w, m
<1> QED BY <1>1, <1>3, <1>4 DEF GenerationType, SameKind, RecordsOf

LEMMA CountWritten ==
  ASSUME NEW g \in GenerationType, FragmentLast(g.map), NEW h \in Handles, h.count <= Len(g.records),
         NEW s \in Sources
  PROVE  LET g1 == WithCount(g, h, s)
             w == WithLine(g, h, s)
         IN  /\ g1 \in GenerationType /\ SameKind(g1, g)
             /\ g1.count = h.count + 1 /\ g1.map = w.map /\ g1.records = w.records
<1> DEFINE w == WithLine(g, h, s)
<1>1. w \in GenerationType /\ SameKind(w, g) /\ h.count + 1 \in Nat
  BY LineWritten DEF Handles
<1>2. WithCount(g, h, s) = [w EXCEPT !.count = h.count + 1]
  BY DEF WithCount
<1> HIDE DEF w
<1>3. WithCount(g, h, s) \in GenerationType /\ SameKind(WithCount(g, h, s), g)
      /\ WithCount(g, h, s).count = h.count + 1
      /\ WithCount(g, h, s).map = w.map /\ WithCount(g, h, s).records = w.records
  BY <1>1, <1>2 DEF GenerationType, SameKind
<1> QED BY <1>3 DEF w

-----------------------------------------------------------------------------
(***************************************************************************)
(* Whatever an Append leaves of a generation that was kept, it is kept.    *)
(***************************************************************************)
\* A record or a fragment more.
LEMMA KeptWithoutLine ==
  ASSUME NEW g, NEW n \in Nat, NEW s, Kept(g, n),
         NEW g1 \in GenerationType, g1.count = g.count, RecordsOf(g1, g, n, s), FragmentLast(g1.map),
         Parsed(g1.map) = Parsed(g.map), Whole(g1.map) => g1.map = g.map
  PROVE  Kept(g1, n)
<1>1. g.count \in Nat /\ g.count <= n /\ n <= Len(g1.records)
  BY DEF Kept, RecordsOf, GenerationType
<1>2. LineUp(g1, n)
  BY DEF Kept, LineUp, RecordsOf
<1>3. Whole(g1.map) => /\ n <= Len(g1.map)
                       /\ n > 0 /\ n = Len(g1.map) => g1.records[n] = g1.map[n].source
  BY DEF Kept, RecordsOf
<1> QED BY <1>1, <1>2, <1>3 DEF Kept

\* A line more, or a fragment that swallowed it; the handle is at n or at n + 1.
LEMMA KeptWithLine ==
  ASSUME NEW g, NEW n \in Nat, NEW s \in Sources, Kept(g, n),
         NEW g1 \in GenerationType, RecordsOf(g1, g, n, s), FragmentLast(g1.map),
         Whole(g.map) => Whole(g1.map) /\ g1.map = Append(g.map, Line(n, s)),
         ~Whole(g.map) => g1.map = g.map,
         NEW k \in {n, n + 1}, g1.count <= k
  PROVE  Kept(g1, k)
<1> DEFINE P == Parsed(g.map)
           Q == Parsed(g1.map)
<1>1. /\ g.map \in Seq(Lines \cup {Fragment}) /\ g1.map \in Seq(Lines \cup {Fragment})
      /\ g1.count \in Nat /\ n + 1 <= Len(g1.records) /\ Len(g1.records) \in Nat
  BY DEF GenerationType, Kept, RecordsOf
<1>2. /\ P \in Seq(Lines) /\ Len(P) \in Nat /\ DOMAIN P = 1 .. Len(P)
      /\ Q \in Seq(Lines) /\ Len(Q) \in Nat /\ DOMAIN Q = 1 .. Len(Q)
      /\ \A i \in DOMAIN P : P[i] \in Lines
  BY <1>1, ParsedFacts, LenProperties DEF Kept
<1>3. /\ \A i \in DOMAIN P : P[i].ordinal \in Nat /\ P[i].ordinal <= n
      /\ \A i \in 1 .. n : i + 1 \in DOMAIN P /\ P[i + 1].ordinal = i => g.records[i] = P[i].source
      /\ \A i \in 1 .. n : g1.records[i] = g.records[i]
      /\ g1.records[n + 1] = s
  BY <1>2 DEF Kept, LineUp, RecordsOf, Lines
<1>4. CASE Whole(g.map)
  <2>1. P = g.map /\ Q = g1.map /\ Q = Append(P, Line(n, s))
    BY <1>1, <1>4, ParsedFacts DEF Kept
  <2>2. Line(n, s) \in Lines /\ Line(n, s).ordinal = n /\ Line(n, s).source = s
    BY LineTyped
  <2>3. /\ Len(Q) = Len(P) + 1 /\ Q[Len(P) + 1] = Line(n, s)
        /\ \A i \in 1 .. Len(P) : Q[i] = P[i]
    BY <1>2, <2>1, <2>2, Appends
  <2>4. n <= Len(P) /\ (n > 0 /\ n = Len(P) => g.records[n] = P[n].source)
    BY <1>4, <2>1 DEF Kept
  <2> HIDE DEF P, Q
  <2>5. /\ Len(P) \in Nat /\ DOMAIN P = 1 .. Len(P) /\ DOMAIN Q = 1 .. Len(P) + 1
        /\ n \in Nat /\ k \in Nat /\ k <= n + 1 /\ n <= Len(P)
        /\ Q[Len(P) + 1].ordinal = n
        /\ \A i \in 1 .. Len(P) : Q[i].ordinal = P[i].ordinal
    <3>1. Len(P) \in Nat /\ DOMAIN P = 1 .. Len(P) /\ DOMAIN Q = 1 .. Len(P) + 1
      BY <1>2, <2>3
    <3>2. n \in Nat /\ k \in Nat /\ k <= n + 1 /\ n <= Len(P)
      BY <2>4
    <3>3. Q[Len(P) + 1].ordinal = n
      BY <2>2, <2>3
    <3>4. \A i \in 1 .. Len(P) : Q[i].ordinal = P[i].ordinal
      BY <2>3
    <3> QED BY <3>1, <3>2, <3>3, <3>4
  <2>6. \A i \in DOMAIN Q : Q[i].ordinal <= n /\ n <= k
    BY <1>3, <2>5
  <2>7. ASSUME NEW i \in 1 .. k, i + 1 \in DOMAIN Q, Q[i + 1].ordinal = i
        PROVE  g1.records[i] = Q[i].source
    <3> DEFINE lp == Len(P)
    <3>0. /\ i + 1 \in 1 .. lp + 1 /\ lp \in Nat /\ k \in Nat /\ n \in Nat /\ n <= lp
          /\ Q[i + 1].ordinal <= n /\ Q[i + 1].ordinal = i
          /\ DOMAIN P = 1 .. lp
      BY <2>5, <2>6, <2>7
    <3> HIDE DEF lp
    <3>1. i \in 1 .. n /\ i \in 1 .. lp
      BY <3>0
    <3>2. CASE i + 1 \in DOMAIN P
      BY <1>3, <2>3, <2>5, <3>0, <3>1, <3>2 DEF lp
    <3>3. CASE i + 1 \notin DOMAIN P
      <4>1. i = lp
        BY <3>0, <3>1, <3>3
      <4>2. i = n
        BY <3>0, <3>1, <4>1
      <4>3. Q[i] = P[i] /\ n > 0
        BY <2>3, <3>1 DEF lp
      <4> QED BY <1>3, <2>4, <3>1, <4>1, <4>2, <4>3 DEF lp
    <3> QED BY <3>2, <3>3
  <2>8. k <= Len(Q)
    BY <2>3, <2>5
  <2>9. k > 0 /\ k = Len(Q) => g1.records[k] = Q[k].source
    <3>1. k = Len(Q) => k = Len(P) + 1 /\ k = n + 1
      BY <2>3, <2>5
    <3> QED BY <1>3, <2>2, <2>3, <3>1
  <2>10. LineUp(g1, k)
    BY <2>7 DEF LineUp, Q
  <2>11. \A i \in DOMAIN Parsed(g1.map) : Parsed(g1.map)[i].ordinal <= k
    <3> SUFFICES ASSUME NEW i \in DOMAIN Q PROVE Q[i].ordinal <= k
      BY DEF Q
    <3>1. Q[i] \in Lines
      BY <1>2, ElementOfSeq
    <3>2. Q[i].ordinal \in Nat
      BY <3>1 DEF Lines
    <3>3. Q[i].ordinal <= n /\ n <= k
      BY <2>6
    <3> QED BY <2>5, <3>2, <3>3
  <2>12. k <= Len(g1.records)
    BY <1>1, <2>5
  <2>13. k <= Len(g1.map) /\ (k > 0 /\ k = Len(g1.map) => g1.records[k] = g1.map[k].source)
    BY <2>1, <2>8, <2>9
  <2> QED BY <1>1, <2>10, <2>11, <2>12, <2>13 DEF Kept
<1>5. CASE ~Whole(g.map)
  <2>1. Q = P /\ ~Whole(g1.map)
    BY <1>5
  <2> HIDE DEF P, Q
  <2>2. \A i \in DOMAIN Q : Q[i].ordinal <= k
    BY <1>2, <1>3, <2>1
  <2>3. ASSUME NEW i \in 1 .. k, i + 1 \in DOMAIN Q, Q[i + 1].ordinal = i
        PROVE  g1.records[i] = Q[i].source
    <3>1. i \in 1 .. n
      BY <1>2, <1>3, <2>1, <2>3
    <3> QED BY <1>3, <2>1, <2>3, <3>1
  <2> QED BY <1>1, <2>1, <2>2, <2>3 DEF Kept, LineUp, P, Q
<1> QED BY <1>4, <1>5

LEMMA KeptAfterAppend ==
  ASSUME NEW g, NEW h \in Handles, Kept(g, h.count), NEW s \in Sources
  PROVE  /\ Kept(WithRecord(g, h, s), h.count)
         /\ Kept(WithFragment(g, h, s), h.count)
         /\ Kept(WithLine(g, h, s), h.count) /\ Kept(WithLine(g, h, s), h.count + 1)
         /\ Kept(WithCount(g, h, s), h.count + 1)
<1>1. g \in GenerationType /\ FragmentLast(g.map) /\ h.count <= Len(g.records) /\ g.count <= h.count
  BY DEF Kept
<1>2. h.count \in Nat /\ g.count \in Nat
  BY <1>1 DEF Handles, GenerationType
<1>3. Kept(WithRecord(g, h, s), h.count)
  <2> DEFINE g1 == WithRecord(g, h, s)
  <2>1. g1 \in GenerationType /\ g1.count = g.count /\ g1.map = g.map /\ RecordsOf(g1, g, h.count, s)
    BY <1>1, RecordWritten
  <2> HIDE DEF g1
  <2>2. Kept(g1, h.count)
    BY <1>1, <1>2, <2>1, KeptWithoutLine
  <2> QED BY <2>2 DEF g1
<1>4. Kept(WithFragment(g, h, s), h.count)
  <2> DEFINE g1 == WithFragment(g, h, s)
  <2>1. /\ g1 \in GenerationType /\ FragmentLast(g1.map) /\ g1.count = g.count
        /\ ~Whole(g1.map) /\ Parsed(g1.map) = Parsed(g.map) /\ RecordsOf(g1, g, h.count, s)
    BY <1>1, FragmentWritten
  <2> HIDE DEF g1
  <2>2. Kept(g1, h.count)
    BY <1>2, <2>1, KeptWithoutLine
  <2> QED BY <2>2 DEF g1
<1>5. ASSUME NEW g1 \in {WithLine(g, h, s), WithCount(g, h, s)}
      PROVE  /\ g1 \in GenerationType /\ RecordsOf(g1, g, h.count, s) /\ FragmentLast(g1.map)
             /\ Whole(g.map) => Whole(g1.map) /\ g1.map = Append(g.map, Line(h.count, s))
             /\ ~Whole(g.map) => g1.map = g.map
  BY <1>1, LineWritten, CountWritten DEF RecordsOf
<1>6. WithLine(g, h, s).count = g.count /\ WithCount(g, h, s).count = h.count + 1
  BY <1>1, LineWritten, CountWritten
<1>7. ASSUME NEW k \in {h.count, h.count + 1} PROVE Kept(WithLine(g, h, s), k)
  <2> DEFINE g1 == WithLine(g, h, s)
  <2>1. g1.count <= k
    BY <1>1, <1>2, <1>6
  <2>2. /\ g1 \in GenerationType /\ RecordsOf(g1, g, h.count, s) /\ FragmentLast(g1.map)
        /\ Whole(g.map) => Whole(g1.map) /\ g1.map = Append(g.map, Line(h.count, s))
        /\ ~Whole(g.map) => g1.map = g.map
    BY <1>5
  <2> HIDE DEF g1
  <2>3. Kept(g1, k)
    BY <1>2, <2>1, <2>2, KeptWithLine
  <2> QED BY <2>3 DEF g1
<1>8. Kept(WithCount(g, h, s), h.count + 1)
  <2> DEFINE g1 == WithCount(g, h, s)
             k == h.count + 1
  <2>1. g1.count <= k /\ k \in {h.count, h.count + 1}
    BY <1>2, <1>6
  <2>2. /\ g1 \in GenerationType /\ RecordsOf(g1, g, h.count, s) /\ FragmentLast(g1.map)
        /\ Whole(g.map) => Whole(g1.map) /\ g1.map = Append(g.map, Line(h.count, s))
        /\ ~Whole(g.map) => g1.map = g.map
    BY <1>5
  <2> HIDE DEF g1
  <2>3. Kept(g1, k)
    BY <1>2, <2>1, <2>2, KeptWithLine
  <2> QED BY <2>3 DEF g1, k
<1> QED BY <1>3, <1>4, <1>7, <1>8

LEMMA KeptIsLaid ==
  ASSUME NEW g, NEW n \in Nat, Kept(g, n)
  PROVE  Laid(g)
<1>1. g \in GenerationType /\ g.count \in Nat /\ g.count <= n /\ n <= Len(g.records) /\ Len(g.records) \in Nat
  BY DEF Kept, GenerationType
<1>2. 1 .. g.count - 1 \subseteq 1 .. n
  BY <1>1
<1>3. LineUp(g, g.count - 1)
  BY <1>2 DEF Kept, LineUp
<1> QED BY <1>1, <1>3 DEF Kept, Laid

-----------------------------------------------------------------------------
(***************************************************************************)
(* A generation that is sound.                                             *)
(***************************************************************************)
LEMMA SoundFacts ==
  ASSUME NEW g, NEW h, Sound(g, h)
  PROVE  /\ g \in GenerationType /\ g.map \in Seq(Lines) /\ g.map \in Seq(Lines \cup {Fragment})
         /\ Whole(g.map) /\ FragmentLast(g.map) /\ Parsed(g.map) = g.map
         /\ h \in Handles /\ h.count = g.count /\ h.refs = g.map
         /\ g.count \in Nat /\ Len(g.map) = g.count /\ DOMAIN g.map = 1 .. g.count
         /\ Len(g.records) \in Nat /\ g.count <= Len(g.records)
<1>1. g \in GenerationType /\ g.map \in Seq(Lines) /\ Len(g.map) = g.count /\ DOMAIN g.map = 1 .. g.count
  BY LenProperties DEF Sound
<1>2. Whole(g.map)
  BY <1>1, FragmentIsNoLine DEF Whole
<1>3. FragmentLast(g.map) /\ g.map \in Seq(Lines \cup {Fragment})
  BY <1>1, <1>2 DEF Whole, FragmentLast, GenerationType
<1>4. Parsed(g.map) = g.map
  BY <1>2, <1>3, ParsedFacts
<1>5. g.count \in Nat /\ Len(g.records) \in Nat /\ g.count <= Len(g.records)
  BY <1>1 DEF GenerationType, Sound
<1>6. h \in Handles /\ h.count = g.count /\ h.refs = g.map
  BY <1>1, <1>5 DEF Sound, Handles
<1> QED BY <1>1, <1>2, <1>3, <1>4, <1>5, <1>6

LEMMA SoundIsKept ==
  ASSUME NEW g, NEW h, Sound(g, h)
  PROVE  Kept(g, h.count)
<1> DEFINE n == g.count
<1>1. /\ Whole(g.map) /\ FragmentLast(g.map) /\ Parsed(g.map) = g.map /\ h.count = n
      /\ n \in Nat /\ Len(g.map) = n /\ DOMAIN g.map = 1 .. n /\ n <= Len(g.records)
      /\ \A i \in 1 .. n : g.map[i].ordinal = i - 1 /\ g.map[i].source = g.records[i]
      /\ g \in GenerationType
  BY SoundFacts DEF Sound
<1> HIDE DEF n
<1>2. \A i \in 1 .. n : g.map[i].ordinal <= n
  BY <1>1
<1>3. LineUp(g, n)
  BY <1>1 DEF LineUp
<1> QED BY <1>1, <1>2, <1>3 DEF Kept, n

\* What opening makes of files whose committed lines are in their places.
LEMMA ReopensWhen ==
  ASSUME NEW g \in GenerationType, FragmentLast(g.map), g.state = "READY",
         g.count <= Len(Parsed(g.map)), g.count <= Len(g.records),
         \A i \in 1 .. g.count :
           Parsed(g.map)[i].ordinal = i - 1 /\ Parsed(g.map)[i].source = g.records[i],
         \A i, j \in 1 .. g.count : Parsed(g.map)[i].source = Parsed(g.map)[j].source => i = j
  PROVE  Reopens(g)
<1> DEFINE P == Parsed(g.map)
           n == g.count
           refs1 == SubSeq(P, 1, n)
           recs1 == SubSeq(g.records, 1, n)
<1>1. /\ P \in Seq(Lines) /\ Len(P) \in Nat /\ n \in Nat /\ g.records \in Seq(Sources) /\ Len(g.records) \in Nat
      /\ n \in 0 .. Len(P) /\ n \in 0 .. Len(g.records)
  BY ParsedFacts DEF GenerationType
<1>2. Opens(g)
  BY DEF Opens
<1>3. /\ refs1 \in Seq(Lines) /\ Len(refs1) = n /\ \A i \in 1 .. n : refs1[i] = P[i]
      /\ recs1 \in Seq(Sources) /\ Len(recs1) = n /\ \A i \in 1 .. n : recs1[i] = g.records[i]
  BY <1>1, Prefixes
<1>4. DOMAIN refs1 = 1 .. n
  BY <1>3, LenProperties
<1>5. HandleOf(g).refs = refs1 /\ Recovered(g).records = recs1
  BY DEF HandleOf, Recovered, GenerationType
<1>6. \A i \in 1 .. n : P[i].source = g.records[i]
  OBVIOUS
<1> HIDE DEF P, n, refs1, recs1
<1>7. \A i \in DOMAIN refs1 : i <= Len(recs1) /\ recs1[i] = refs1[i].source
  BY <1>1, <1>3, <1>4, <1>6
<1>8. VerifyAll(Recovered(g), HandleOf(g))
  BY <1>5, <1>7 DEF VerifyAll, OwnRecord
<1> QED BY <1>2, <1>8 DEF Reopens

LEMMA SoundReopens ==
  ASSUME NEW g, NEW h, Sound(g, h), g.state = "READY"
  PROVE  Reopens(g)
<1>1. /\ g \in GenerationType /\ FragmentLast(g.map) /\ Parsed(g.map) = g.map /\ g.count \in Nat
      /\ Len(g.map) = g.count /\ g.count <= Len(g.records)
  BY SoundFacts
<1>2. \A i \in 1 .. g.count : g.map[i].ordinal = i - 1 /\ g.map[i].source = g.records[i]
  BY DEF Sound
<1>3. \A i, j \in 1 .. g.count : g.map[i].source = g.map[j].source => i = j
  BY DEF Sound
<1>4. g.count <= Len(g.map)
  BY <1>1
<1> QED BY <1>1, <1>2, <1>3, <1>4, ReopensWhen

LEMMA SoundAfterRecord ==
  ASSUME NEW g, NEW h, Sound(g, h), NEW s \in Sources
  PROVE  Sound(WithRecord(g, h, s), h)
<1> DEFINE g1 == WithRecord(g, h, s)
           n == g.count
<1>1. g \in GenerationType /\ h \in Handles /\ h.count = n /\ n \in Nat /\ n <= Len(g.records)
  BY SoundFacts
<1>2. g1 \in GenerationType /\ g1.count = n /\ g1.map = g.map /\ RecordsOf(g1, g, n, s)
  BY <1>1, RecordWritten
<1> HIDE DEF g1
<1>3. n <= Len(g1.records) /\ \A i \in 1 .. n : g1.records[i] = g.records[i]
  BY <1>1, <1>2 DEF RecordsOf
<1>4. Sound(g1, h)
  BY <1>2, <1>3 DEF Sound
<1> QED BY <1>4 DEF g1

LEMMA SoundAfterCount ==
  ASSUME NEW g, NEW h, Sound(g, h), NEW s \in Sources, ~HasVector(h, s)
  PROVE  Sound(WithCount(g, h, s), Extended(h, s))
<1> DEFINE g1 == WithCount(g, h, s)
           w == WithLine(g, h, s)
           n == g.count
           line == Line(n, s)
<1>1. /\ g \in GenerationType /\ h \in Handles /\ h.count = n /\ n \in Nat /\ n <= Len(g.records)
      /\ FragmentLast(g.map) /\ Whole(g.map) /\ g.map \in Seq(Lines) /\ Len(g.map) = n /\ h.refs = g.map
      /\ DOMAIN g.map = 1 .. n
  BY SoundFacts
<1>2. /\ g1 \in GenerationType /\ g1.count = n + 1 /\ g1.map = w.map /\ g1.records = w.records
      /\ w.map = Append(g.map, line) /\ RecordsOf(w, g, n, s)
  BY <1>1, LineWritten, CountWritten
<1>3. line \in Lines /\ line.ordinal = n /\ line.source = s
  BY <1>1, LineTyped
<1>4. /\ g1.map \in Seq(Lines) /\ Len(g1.map) = n + 1 /\ g1.map[n + 1] = line
      /\ \A i \in 1 .. n : g1.map[i] = g.map[i]
  BY <1>1, <1>2, <1>3, Appends
<1>5. /\ n + 1 <= Len(g1.records) /\ g1.records[n + 1] = s
      /\ \A i \in 1 .. n : g1.records[i] = g.records[i]
  BY <1>2 DEF RecordsOf
<1>6. Extended(h, s) = [count |-> g1.count, refs |-> g1.map]
  BY <1>1, <1>2 DEF Extended
<1>7. /\ \A i \in 1 .. n : g.map[i].ordinal = i - 1 /\ g.map[i].source = g.records[i]
      /\ \A i, j \in 1 .. n : g.map[i].source = g.map[j].source => i = j
      /\ \A i \in 1 .. n : g.map[i].source # s
  BY <1>1 DEF Sound, HasVector
<1> HIDE DEF g1, w, n, line
<1>8. ASSUME NEW i \in 1 .. n + 1
      PROVE  g1.map[i].ordinal = i - 1 /\ g1.map[i].source = g1.records[i]
  <2>1. CASE i = n + 1
    BY <1>1, <1>3, <1>4, <1>5, <2>1
  <2>2. CASE i # n + 1
    <3>1. i \in 1 .. n
      BY <1>1, <2>2
    <3> QED BY <1>4, <1>5, <1>7, <3>1
  <2> QED BY <2>1, <2>2
<1>9. ASSUME NEW i \in 1 .. n + 1, NEW j \in 1 .. n + 1, g1.map[i].source = g1.map[j].source
      PROVE  i = j
  <2>1. CASE i = n + 1 /\ j = n + 1
    BY <2>1
  <2>2. CASE i \in 1 .. n /\ j \in 1 .. n
    BY <1>4, <1>7, <1>9, <2>2
  <2>3. CASE i = n + 1 /\ j \in 1 .. n
    BY <1>3, <1>4, <1>7, <1>9, <2>3
  <2>4. CASE i \in 1 .. n /\ j = n + 1
    BY <1>3, <1>4, <1>7, <1>9, <2>4
  <2> QED BY <1>1, <2>1, <2>2, <2>3, <2>4
<1>10. Sound(g1, Extended(h, s))
  BY <1>2, <1>4, <1>5, <1>6, <1>8, <1>9 DEF Sound
<1> QED BY <1>10 DEF g1

\* Wherever the process dies inside an Append to a sound generation.
LEMMA ReopensAfterCrash ==
  ASSUME NEW g, NEW h, Sound(g, h), g.state = "READY", NEW s \in Sources, ~HasVector(h, s),
         NEW g1 \in AppendCrashes(g, h, s)
  PROVE  Reopens(g1)
<1> DEFINE n == g.count
<1>1. /\ g \in GenerationType /\ h \in Handles /\ h.count = n /\ n \in Nat /\ n <= Len(g.records)
      /\ FragmentLast(g.map) /\ Whole(g.map) /\ g.map \in Seq(Lines) /\ Len(g.map) = n
      /\ Parsed(g.map) = g.map
  BY SoundFacts
<1>2. CASE g1 = WithRecord(g, h, s)
  <2>1. Sound(g1, h) /\ g1.state = "READY"
    BY <1>1, <1>2, SoundAfterRecord, RecordWritten DEF SameKind
  <2> QED BY <2>1, SoundReopens
<1>3. CASE g1 = WithCount(g, h, s)
  <2>1. Sound(g1, Extended(h, s)) /\ g1.state = "READY"
    BY <1>1, <1>3, SoundAfterCount, CountWritten DEF SameKind
  <2> QED BY <2>1, SoundReopens
<1>4. CASE g1 \in {WithFragment(g, h, s), WithLine(g, h, s)}
  <2>1. /\ g1 \in GenerationType /\ FragmentLast(g1.map) /\ g1.state = "READY" /\ g1.count = n
        /\ RecordsOf(g1, g, n, s)
    BY <1>1, <1>4, FragmentWritten, LineWritten DEF SameKind
  <2>2. n <= Len(Parsed(g1.map)) /\ \A i \in 1 .. n : Parsed(g1.map)[i] = g.map[i]
    <3>1. CASE g1 = WithFragment(g, h, s)
      BY <1>1, <3>1, FragmentWritten
    <3>2. CASE g1 = WithLine(g, h, s)
      <4>1. Whole(g1.map) /\ g1.map = Append(g.map, Line(n, s)) /\ g1.map \in Seq(Lines \cup {Fragment})
        BY <1>1, <2>1, <3>2, LineWritten DEF GenerationType
      <4>2. Parsed(g1.map) = g1.map
        BY <2>1, <4>1, ParsedFacts
      <4>3. Line(n, s) \in Lines
        BY <1>1, LineTyped
      <4>4. Len(Append(g.map, Line(n, s))) = n + 1 /\ \A i \in 1 .. n : Append(g.map, Line(n, s))[i] = g.map[i]
        BY <1>1, <4>3, Appends
      <4> QED BY <1>1, <4>1, <4>2, <4>4
    <3> QED BY <1>4, <3>1, <3>2
  <2>3. n <= Len(g1.records) /\ \A i \in 1 .. n : g1.records[i] = g.records[i]
    BY <1>1, <2>1 DEF RecordsOf
  <2>4. /\ \A i \in 1 .. n : g.map[i].ordinal = i - 1 /\ g.map[i].source = g.records[i]
        /\ \A i, j \in 1 .. n : g.map[i].source = g.map[j].source => i = j
    BY DEF Sound
  <2> HIDE DEF n
  <2>5. \A i \in 1 .. n : Parsed(g1.map)[i].ordinal = i - 1 /\ Parsed(g1.map)[i].source = g1.records[i]
    BY <2>2, <2>3, <2>4
  <2>6. \A i, j \in 1 .. n : Parsed(g1.map)[i].source = Parsed(g1.map)[j].source => i = j
    BY <2>2, <2>4
  <2> QED BY <2>1, <2>2, <2>3, <2>5, <2>6, ReopensWhen
<1> QED BY <1>2, <1>3, <1>4 DEF AppendCrashes

-----------------------------------------------------------------------------
(***************************************************************************)
(* Opening a generation: recoverLocked, then the short form of Verify.     *)
(***************************************************************************)
LEMMA RecoveredFacts ==
  ASSUME NEW g, Laid(g), Opens(g)
  PROVE  LET n == g.count
             r == Recovered(g)
         IN  /\ r \in GenerationType /\ SameKind(r, g) /\ r.count = n /\ n \in Nat
             /\ r.map \in Seq(Lines) /\ Len(r.map) = n /\ Whole(r.map) /\ FragmentLast(r.map)
             /\ Len(r.records) = n
             /\ \A i \in 1 .. n : r.map[i] = Parsed(g.map)[i] /\ r.records[i] = g.records[i]
             /\ \A i \in 1 .. n : r.map[i].ordinal = i - 1
             /\ \A i, j \in 1 .. n : r.map[i].source = r.map[j].source => i = j
             /\ HandleOf(g) = [count |-> n, refs |-> r.map]
             /\ \A i \in 1 .. n - 1 : r.records[i] = r.map[i].source
             /\ Laid(r)
<1> DEFINE n == g.count
           P == Parsed(g.map)
           refs1 == SubSeq(P, 1, n)
           recs1 == SubSeq(g.records, 1, n)
           r == Recovered(g)
<1>1. /\ g \in GenerationType /\ g.map \in Seq(Lines \cup {Fragment}) /\ FragmentLast(g.map)
      /\ n \in Nat /\ g.records \in Seq(Sources) /\ Len(g.records) \in Nat
  BY DEF Laid, GenerationType
<1>2. P \in Seq(Lines) /\ Len(P) \in Nat /\ DOMAIN P = 1 .. Len(P)
  BY <1>1, ParsedFacts, LenProperties
<1>3. /\ n \in 0 .. Len(P) /\ n \in 0 .. Len(g.records)
      /\ \A i \in 1 .. n : P[i].ordinal = i - 1
      /\ \A i, j \in 1 .. n : P[i].source = P[j].source => i = j
  BY <1>1, <1>2 DEF Opens
<1>4. /\ refs1 \in Seq(Lines) /\ Len(refs1) = n /\ \A i \in 1 .. n : refs1[i] = P[i]
      /\ recs1 \in Seq(Sources) /\ Len(recs1) = n /\ \A i \in 1 .. n : recs1[i] = g.records[i]
  BY <1>1, <1>2, <1>3, Prefixes
<1>5. r = [[g EXCEPT !.records = recs1] EXCEPT !.map = refs1]
  BY DEF Recovered
<1>6. HandleOf(g) = [count |-> n, refs |-> refs1]
  BY DEF HandleOf
<1>7. \A i \in 1 .. n - 1 : i + 1 \in DOMAIN P /\ P[i + 1].ordinal = i => g.records[i] = P[i].source
  BY DEF Laid, LineUp
<1> HIDE DEF P, refs1, recs1, r
<1>8. /\ r \in GenerationType /\ r.map = refs1 /\ r.records = recs1 /\ r.count = n
      /\ SameKind(r, g)
  <2>1. refs1 \in Seq(Lines \cup {Fragment})
    BY <1>4, SeqMonotonic
  <2> QED BY <1>1, <1>4, <1>5, <2>1 DEF GenerationType, SameKind
<1>9. \A i \in 1 .. n : refs1[i] \in Lines
  BY <1>4
<1>10. Whole(r.map) /\ FragmentLast(r.map)
  <2>1. DOMAIN refs1 = 1 .. n
    BY <1>4, LenProperties
  <2> QED BY <1>8, <1>9, <2>1, FragmentIsNoLine DEF Whole, FragmentLast
<1>11. \A i \in 1 .. n - 1 : r.records[i] = r.map[i].source
  <2> SUFFICES ASSUME NEW i \in 1 .. n - 1 PROVE recs1[i] = refs1[i].source
    BY <1>8
  <2>1. i \in 1 .. n /\ i + 1 \in 1 .. n /\ i + 1 \in DOMAIN P /\ (i + 1) - 1 = i
    BY <1>1, <1>2, <1>3
  <2>2. P[i + 1].ordinal = i
    BY <1>3, <2>1
  <2> QED BY <1>4, <1>7, <2>1, <2>2
<1>12. Laid(r)
  <2>1. Parsed(r.map) = r.map
    BY <1>8, <1>10, ParsedFacts DEF GenerationType
  <2>2. r.count <= Len(r.records)
    BY <1>1, <1>4, <1>8
  <2>3. LineUp(r, n - 1)
    BY <1>11, <2>1 DEF LineUp
  <2> QED BY <1>8, <1>10, <2>2, <2>3 DEF Laid
<1>13. /\ \A i \in 1 .. n : r.map[i] = P[i] /\ r.records[i] = g.records[i]
       /\ \A i \in 1 .. n : r.map[i].ordinal = i - 1
       /\ \A i, j \in 1 .. n : r.map[i].source = r.map[j].source => i = j
  BY <1>3, <1>4, <1>8
<1>14. r.map \in Seq(Lines) /\ Len(r.map) = n /\ Len(r.records) = n /\ HandleOf(g) = [count |-> n, refs |-> r.map]
  BY <1>4, <1>6, <1>8
<1> QED BY <1>1, <1>8, <1>10, <1>11, <1>12, <1>13, <1>14 DEF r, P

(***************************************************************************)
(* Why three records are enough: of the files a process can have left, the *)
(* ones whose committed lines are in their places hold at most one record  *)
(* that is not its line's, the last.                                       *)
(***************************************************************************)
LEMMA SampleSuffices ==
  ASSUME NEW g, Laid(g), Opens(g), VerifySample(Recovered(g), HandleOf(g))
  PROVE  Sound(Recovered(g), HandleOf(g))
<1> DEFINE n == g.count
           r == Recovered(g)
           h == HandleOf(g)
<1>1. /\ r \in GenerationType /\ r.count = n /\ n \in Nat
      /\ r.map \in Seq(Lines) /\ Len(r.map) = n /\ Len(r.records) = n
      /\ \A i \in 1 .. n : r.map[i].ordinal = i - 1
      /\ \A i, j \in 1 .. n : r.map[i].source = r.map[j].source => i = j
      /\ h = [count |-> n, refs |-> r.map]
      /\ \A i \in 1 .. n - 1 : r.records[i] = r.map[i].source
  BY RecoveredFacts
<1>2. VerifySample(r, h)
  OBVIOUS
<1> HIDE DEF n, r, h
<1>3. n # 0 => r.records[n] = r.map[n].source
  <2> SUFFICES ASSUME n # 0 PROVE r.records[n] = r.map[n].source
    OBVIOUS
  <2>1. h.refs = r.map /\ Len(h.refs) = n /\ n \in DOMAIN h.refs
    BY <1>1, LenProperties
  <2>2. OwnRecord(r, h, n)
    BY <1>2, <2>1 DEF VerifySample
  <2> QED BY <2>1, <2>2 DEF OwnRecord
<1>4. \A i \in 1 .. n : r.map[i].source = r.records[i]
  <2> SUFFICES ASSUME NEW i \in 1 .. n PROVE r.map[i].source = r.records[i]
    OBVIOUS
  <2>1. i = n \/ i \in 1 .. n - 1
    BY <1>1
  <2>2. n # 0
    BY <1>1
  <2> QED BY <1>1, <1>3, <2>1, <2>2
<1>5. Sound(r, h)
  BY <1>1, <1>4 DEF Sound
<1> QED BY <1>5 DEF r, h

-----------------------------------------------------------------------------
(***************************************************************************)
(* What Append returns.                                                    *)
(***************************************************************************)
OwnRefs(g, h) == h.count = Len(h.refs) /\ VerifyAll(g, h)

LEMMA HandleMoves ==
  ASSUME NEW h \in Handles, NEW s \in Sources
  PROVE  /\ h.count \in Nat /\ h.refs \in Seq(Lines)
         /\ Ahead(h) \in Handles /\ Ahead(h).count = h.count + 1 /\ Ahead(h).refs = h.refs
         /\ Extended(h, s) \in Handles /\ Extended(h, s).count = h.count + 1
         /\ Len(Extended(h, s).refs) = Len(h.refs) + 1 /\ Len(h.refs) \in Nat
         /\ Extended(h, s).refs[Len(h.refs) + 1] = Line(h.count, s)
         /\ \A i \in 1 .. Len(h.refs) : Extended(h, s).refs[i] = h.refs[i]
         /\ Line(h.count, s) \in Lines /\ Line(h.count, s).source = s
<1>1. h.count \in Nat /\ h.refs \in Seq(Lines)
  BY DEF Handles
<1>2. Line(h.count, s) \in Lines /\ Line(h.count, s).source = s
  BY <1>1, LineTyped
<1>3. Ahead(h) \in Handles /\ Ahead(h).count = h.count + 1 /\ Ahead(h).refs = h.refs
  BY <1>1 DEF Ahead, Handles
<1>4. /\ Append(h.refs, Line(h.count, s)) \in Seq(Lines) /\ Len(h.refs) \in Nat
      /\ Len(Append(h.refs, Line(h.count, s))) = Len(h.refs) + 1
      /\ Append(h.refs, Line(h.count, s))[Len(h.refs) + 1] = Line(h.count, s)
      /\ \A i \in 1 .. Len(h.refs) : Append(h.refs, Line(h.count, s))[i] = h.refs[i]
  BY <1>1, <1>2, Appends
<1>5. Extended(h, s) = [count |-> h.count + 1, refs |-> Append(h.refs, Line(h.count, s))]
  BY DEF Extended
<1>6. Extended(h, s) \in Handles
  BY <1>1, <1>4, <1>5 DEF Handles
<1>7. Extended(h, s).count = h.count + 1 /\ Extended(h, s).refs = Append(h.refs, Line(h.count, s))
  BY <1>5
<1> QED BY <1>1, <1>2, <1>3, <1>4, <1>6, <1>7

LEMMA VectorsOfExtended ==
  ASSUME NEW h \in Handles, NEW s \in Sources, NEW x
  PROVE  HasVector(Extended(h, s), x) <=> HasVector(h, x) \/ x = s
<1> DEFINE e == Extended(h, s).refs
           n == Len(h.refs)
<1>1. /\ n \in Nat /\ DOMAIN h.refs = 1 .. n /\ DOMAIN e = 1 .. n + 1 /\ e[n + 1].source = s
      /\ \A i \in 1 .. n : e[i] = h.refs[i]
  <2>1. e \in Seq(Lines) /\ h.refs \in Seq(Lines)
    BY HandleMoves DEF Handles
  <2> QED BY <2>1, HandleMoves, LenProperties
<1>2. HasVector(Extended(h, s), x) <=> \E i \in 1 .. n + 1 : e[i].source = x
  BY <1>1 DEF HasVector
<1>3. HasVector(h, x) <=> \E i \in 1 .. n : h.refs[i].source = x
  BY <1>1 DEF HasVector
<1> HIDE DEF e, n
<1>4. 1 .. n + 1 = (1 .. n) \cup {n + 1}
  BY <1>1
<1> QED BY <1>1, <1>2, <1>3, <1>4

LEMMA OwnAfterAppend ==
  ASSUME NEW g, NEW h \in Handles, Kept(g, h.count), OwnRefs(g, h), NEW s \in Sources
  PROVE  /\ OwnRefs(WithRecord(g, h, s), h)
         /\ OwnRefs(WithFragment(g, h, s), h)
         /\ OwnRefs(WithLine(g, h, s), h)
         /\ OwnRefs(WithCount(g, h, s), Extended(h, s))
<1> DEFINE n == h.count
<1>1. g \in GenerationType /\ FragmentLast(g.map) /\ n <= Len(g.records) /\ n \in Nat
  BY DEF Kept, Handles
<1>2. /\ h.refs \in Seq(Lines) /\ DOMAIN h.refs = 1 .. n /\ n = Len(h.refs)
      /\ \A i \in 1 .. n : g.records[i] = h.refs[i].source
  <2>1. h.refs \in Seq(Lines) /\ n = Len(h.refs)
    BY DEF Handles, OwnRefs
  <2>2. DOMAIN h.refs = 1 .. n
    BY <2>1, LenProperties
  <2> QED BY <2>1, <2>2 DEF OwnRefs, VerifyAll, OwnRecord
<1>3. ASSUME NEW g1, RecordsOf(g1, g, n, s)
      PROVE  OwnRefs(g1, h) /\ OwnRefs(g1, Extended(h, s))
  <2>1. /\ n + 1 <= Len(g1.records) /\ g1.records[n + 1] = s /\ Len(g1.records) \in Nat
        /\ \A i \in 1 .. n : g1.records[i] = g.records[i]
    BY <1>3 DEF RecordsOf
  <2>2. OwnRefs(g1, h)
    BY <1>1, <1>2, <2>1 DEF OwnRefs, VerifyAll, OwnRecord
  <2> DEFINE e == Extended(h, s).refs
  <2>3. /\ e \in Seq(Lines) /\ Len(e) = n + 1 /\ Extended(h, s).count = n + 1
        /\ e[n + 1].source = s /\ \A i \in 1 .. n : e[i] = h.refs[i]
    <3>1. /\ Extended(h, s) \in Handles /\ Len(e) = Len(h.refs) + 1 /\ Extended(h, s).count = n + 1
          /\ e[Len(h.refs) + 1] = Line(n, s) /\ \A i \in 1 .. Len(h.refs) : e[i] = h.refs[i]
          /\ Line(n, s).source = s
      BY HandleMoves
    <3>2. e \in Seq(Lines)
      BY <3>1 DEF Handles
    <3> QED BY <1>2, <3>1, <3>2
  <2>4. DOMAIN e = 1 .. n + 1
    BY <2>3, LenProperties
  <2> HIDE DEF e
  <2>5. ASSUME NEW i \in 1 .. n + 1 PROVE i <= Len(g1.records) /\ g1.records[i] = e[i].source
    <3>1. CASE i = n + 1
      BY <1>1, <2>1, <2>3, <3>1
    <3>2. CASE i # n + 1
      <4>1. i \in 1 .. n
        BY <1>1, <3>2
      <4>2. e[i] = h.refs[i] /\ g1.records[i] = g.records[i]
        BY <2>1, <2>3, <4>1
      <4>3. g.records[i] = h.refs[i].source
        BY <1>2, <4>1
      <4>4. i <= Len(g1.records)
        BY <1>1, <2>1, <4>1
      <4> QED BY <4>2, <4>3, <4>4
    <3> QED BY <3>1, <3>2
  <2>6. OwnRefs(g1, Extended(h, s))
    BY <2>3, <2>4, <2>5 DEF OwnRefs, VerifyAll, OwnRecord, e
  <2> QED BY <2>2, <2>6
<1>4. RecordsOf(WithRecord(g, h, s), g, n, s)
  BY <1>1, RecordWritten
<1>5. RecordsOf(WithFragment(g, h, s), g, n, s)
  BY <1>1, FragmentWritten
<1>6. RecordsOf(WithLine(g, h, s), g, n, s)
  BY <1>1, LineWritten
<1>7. RecordsOf(WithCount(g, h, s), g, n, s)
  BY <1>1, <1>6, CountWritten DEF RecordsOf
<1> QED BY <1>3, <1>4, <1>5, <1>6, <1>7

LEMMA WrittenTyped ==
  ASSUME NEW g, NEW h \in Handles, Kept(g, h.count), NEW s \in Sources,
         NEW g1 \in AppendCrashes(g, h, s)
  PROVE  /\ g1 \in GenerationType /\ SameKind(g1, g) /\ Laid(g1)
         /\ g1.count \in Nat /\ g.count \in Nat /\ g.count <= g1.count
<1>1. /\ g \in GenerationType /\ FragmentLast(g.map) /\ h.count <= Len(g.records)
      /\ h.count \in Nat /\ g.count \in Nat /\ g.count <= h.count
  BY DEF Kept, Handles, GenerationType
<1>2. /\ g1 \in GenerationType /\ SameKind(g1, g)
      /\ g1.count = g.count \/ g1.count = h.count + 1
  BY <1>1, RecordWritten, FragmentWritten, LineWritten, CountWritten DEF AppendCrashes
<1>3. Kept(g1, h.count) \/ Kept(g1, h.count + 1)
  BY KeptAfterAppend DEF AppendCrashes
<1>4. Laid(g1)
  <2>1. h.count + 1 \in Nat
    BY <1>1
  <2> QED BY <1>1, <1>3, <2>1, KeptIsLaid
<1> QED BY <1>1, <1>2, <1>4

LEMMA OutcomeCases ==
  ASSUME NEW g, NEW h, NEW s, NEW faults, NEW o \in AppendOutcomes(g, h, s, faults)
  PROVE  \/ o = Outcome(WithCount(g, h, s), Extended(h, s), TRUE)
         \/ "record" \in faults /\ o = Outcome(WithRecord(g, h, s), h, FALSE)
         \/ "map" \in faults /\ o = Outcome(WithFragment(g, h, s), h, FALSE)
         \/ "map" \in faults /\ o = Outcome(WithLine(g, h, s), h, FALSE)
         \/ "count" \in faults /\ o = Outcome(WithLine(g, h, s), Ahead(h), FALSE)
         \/ "count" \in faults /\ o = Outcome(WithCount(g, h, s), Ahead(h), FALSE)
         \/ "manifest" \in faults /\ o = Outcome(WithCount(g, h, s), Extended(h, s), FALSE)
BY DEF AppendOutcomes

LEMMA OutcomeFacts ==
  ASSUME NEW g, NEW h \in Handles, Kept(g, h.count), NEW s \in Sources, NEW faults,
         NEW o \in AppendOutcomes(g, h, s, faults)
  PROVE  /\ o.disk \in AppendCrashes(g, h, s) /\ o.handle \in Handles
         /\ Kept(o.disk, o.handle.count)
         /\ o.ok => o.disk = WithCount(g, h, s) /\ o.handle = Extended(h, s)
         /\ faults = {} => o.ok
         /\ faults \cap {"map", "count"} = {} /\ Sound(g, h) /\ ~HasVector(h, s) => Sound(o.disk, o.handle)
         /\ "count" \notin faults /\ OwnRefs(g, h) => OwnRefs(o.disk, o.handle)
         /\ faults \cap {"manifest", "count"} = {} /\ ~o.ok => o.handle = h
<1>1. ASSUME NEW d, NEW k, NEW b, o = Outcome(d, k, b)
      PROVE  o.disk = d /\ o.handle = k /\ (o.ok <=> b = TRUE)
  BY <1>1 DEF Outcome
<1>2. /\ o.disk \in AppendCrashes(g, h, s) /\ o.handle \in {h, Ahead(h), Extended(h, s)}
      /\ o.ok => o.disk = WithCount(g, h, s) /\ o.handle = Extended(h, s)
      /\ faults = {} => o.ok
      /\ faults \cap {"manifest", "count"} = {} /\ ~o.ok => o.handle = h
  BY OutcomeCases DEF Outcome, AppendCrashes
<1>3. o.handle \in Handles
  BY <1>2, HandleMoves
<1>4. Kept(o.disk, o.handle.count)
  BY OutcomeCases, KeptAfterAppend, HandleMoves DEF Outcome
<1>5. ASSUME faults \cap {"map", "count"} = {}, Sound(g, h), ~HasVector(h, s) PROVE Sound(o.disk, o.handle)
  BY <1>5, OutcomeCases, SoundAfterCount, SoundAfterRecord DEF Outcome
<1>6. ASSUME "count" \notin faults, OwnRefs(g, h) PROVE OwnRefs(o.disk, o.handle)
  BY <1>6, OutcomeCases, OwnAfterAppend DEF Outcome
<1> QED BY <1>2, <1>3, <1>4, <1>5, <1>6

\* What a failure f leaves, of the files and of the memory.
Fails(g, h, f, d, k) ==
  /\ k \in Handles /\ Kept(d, k.count)
  /\ f \notin {"map", "count"} /\ Sound(g, h) => Sound(d, k)
  /\ f # "count" /\ OwnRefs(g, h) => OwnRefs(d, k)
  /\ f \notin {"manifest", "count"} => k = h

LEMMA FailedFacts ==
  ASSUME NEW g, NEW h \in Handles, Kept(g, h.count), NEW s \in Sources, ~HasVector(h, s), NEW f,
         NEW o \in AppendOutcomes(g, h, s, {f}), ~o.ok
  PROVE  o.disk \in AppendCrashes(g, h, s) /\ Fails(g, h, f, o.disk, o.handle)
<1>1. \A S : f \notin S => {f} \cap S = {}
  OBVIOUS
<1>2. /\ o.disk \in AppendCrashes(g, h, s) /\ o.handle \in Handles /\ Kept(o.disk, o.handle.count)
  BY OutcomeFacts
<1>3. f \notin {"map", "count"} /\ Sound(g, h) => Sound(o.disk, o.handle)
  BY <1>1, OutcomeFacts
<1>4. f # "count" /\ OwnRefs(g, h) => OwnRefs(o.disk, o.handle)
  BY OutcomeFacts
<1>5. f \notin {"manifest", "count"} => o.handle = h
  BY <1>1, OutcomeFacts
<1> QED BY <1>2, <1>3, <1>4, <1>5 DEF Fails

-----------------------------------------------------------------------------
(***************************************************************************)
(* Steps of the syncs.                                                     *)
(***************************************************************************)
LEMMA SyncTyped ==
  ASSUME Typed, NEW r \in Syncs
  PROVE  /\ sync[r] \in SyncType /\ sync[r].at \in Steps /\ sync[r].queue \in Seq(Sources)
         /\ sync[r].next \in Nat \ {0} /\ sync[r].dimensions \in Dims \cup {0}
         /\ sync[r].target \in [generation : Nat, handle : Handles]
         /\ sync[r].target.handle \in Handles /\ sync[r].target.generation \in Nat
         /\ sync[r].fresh \in BOOLEAN /\ sync[r].failed \in BOOLEAN
<1>1. sync[r] \in SyncType
  BY DEF Typed
<1>2. sync[r].target \in [generation : Nat, handle : Handles]
  BY <1>1 DEF SyncType
<1> QED BY <1>1, <1>2 DEF SyncType

\* Only the sync of r moves, to x.
SyncMoves(r, x) ==
  /\ sync' \in [Syncs -> SyncType] /\ sync'[r] = x
  /\ \A q \in Syncs \ {r} : sync'[q] = sync[q]

LEMMA Moves ==
  ASSUME Typed, NEW r \in Syncs, NEW x \in SyncType, sync' = [sync EXCEPT ![r] = x]
  PROVE  SyncMoves(r, x)
BY DEF Typed, SyncMoves

LEMMA ItemTyped ==
  ASSUME Typed, NEW r \in Syncs, Appending(r)
  PROVE  Item(r) \in Sources /\ sync[r].at = "appending"
<1>1. sync[r].queue \in Seq(Sources) /\ sync[r].next \in Nat \ {0} /\ sync[r].next <= Len(sync[r].queue)
  BY SyncTyped DEF Appending
<1>2. sync[r].next \in 1 .. Len(sync[r].queue)
  BY <1>1
<1>3. sync[r].queue[sync[r].next] \in Sources
  BY <1>1, <1>2, ElementOfSeq
<1> QED BY <1>3 DEF Item, Appending

LEMMA GivesUp ==
  ASSUME Typed, NEW r \in Syncs, GiveUp(r)
  PROVE  /\ SyncMoves(r, [sync[r] EXCEPT !.at = "done", !.failed = TRUE])
         /\ sync'[r].at = "done" /\ sync'[r].fresh = sync[r].fresh
         /\ mu' = "free"
<1> DEFINE x == [sync[r] EXCEPT !.at = "done", !.failed = TRUE]
<1>1. sync' = [sync EXCEPT ![r] = x]
  BY DEF GiveUp, Typed
<1>2. x \in SyncType /\ x.at = "done" /\ x.fresh = sync[r].fresh
  BY SyncTyped DEF SyncType, Steps
<1> HIDE DEF x
<1>3. SyncMoves(r, x)
  BY <1>1, <1>2, Moves
<1>4. sync'[r] = x
  BY <1>3 DEF SyncMoves
<1> QED BY <1>2, <1>3, <1>4 DEF x, GiveUp

LEMMA Continues ==
  ASSUME Typed, NEW r \in Syncs, NEW handle \in Handles, NEW failed \in BOOLEAN,
         Continue(r, handle, failed)
  PROVE  /\ \E x \in SyncType : SyncMoves(r, x)
         /\ sync'[r].at = sync[r].at /\ sync'[r].fresh = sync[r].fresh
         /\ sync'[r].target = [generation |-> sync[r].target.generation, handle |-> handle]
         /\ mu' = mu
<1> DEFINE t == [sync[r].target EXCEPT !.handle = handle]
           x == [sync[r] EXCEPT !.next = @ + 1, !.target = t, !.failed = @ \/ failed]
<1>1. sync' = [sync EXCEPT ![r] = x]
  BY DEF Continue
<1>2. t = [generation |-> sync[r].target.generation, handle |-> handle]
      /\ t \in [generation : Nat, handle : Handles]
  BY SyncTyped
<1>3. sync[r].next + 1 \in Nat \ {0} /\ (sync[r].failed \/ failed) \in BOOLEAN
  BY SyncTyped
<1> HIDE DEF t
<1>4. sync[r] \in SyncType
  BY SyncTyped
<1> DEFINE n == sync[r].next + 1
           f == sync[r].failed \/ failed
<1>5. x \in SyncType /\ x.at = sync[r].at /\ x.fresh = sync[r].fresh /\ x.target = t
  <2>1. n \in Nat \ {0} /\ f \in BOOLEAN /\ t \in [generation : Nat, handle : Handles]
    BY <1>2, <1>3
  <2>2. x = [sync[r] EXCEPT !.next = n, !.target = t, !.failed = f]
    OBVIOUS
  <2> HIDE DEF n, f, x
  <2> QED BY <1>4, <2>1, <2>2 DEF SyncType
<1> HIDE DEF x
<1>6. SyncMoves(r, x)
  BY <1>1, <1>5, Moves
<1>7. sync'[r] = x
  BY <1>6 DEF SyncMoves
<1> QED BY <1>2, <1>5, <1>6, <1>7 DEF Continue

LEMMA IdleTyped == Idle \in SyncType /\ NoStore \in [generation : {0}, handle : Handles]
                   /\ EmptyHandle \in Handles /\ EmptyHandle.refs = <<>> /\ EmptyHandle.count = 0
<1>1. <<>> \in Seq(Sources) /\ <<>> \in Seq(Lines)
  BY EmptySeq
<1>2. EmptyHandle \in Handles /\ EmptyHandle.refs = <<>> /\ EmptyHandle.count = 0
  BY <1>1 DEF EmptyHandle, Handles
<1>3. NoStore \in [generation : {0}, handle : Handles]
  BY <1>2 DEF NoStore
<1>4. NoStore \in [generation : Nat, handle : Handles]
  BY <1>3
<1>5. Idle \in SyncType
  BY <1>1, <1>4 DEF Idle, SyncType, Steps
<1> QED BY <1>2, <1>3, <1>5

\* A route that does not hold Store.mu.
LEMMA RouteRests ==
  ASSUME NEW q \in Routes, RouteInv(q), sync'[q] = sync[q], mu # q, mu' # q,
         phase' = phase \/ sync[q].at = "idle"
  PROVE  RouteInv(q)'
BY DEF RouteInv

LEMMA ImportRests ==
  ASSUME ImportInv, sync'["import"] = sync["import"], sync["import"].at = "idle",
         phase' = "down" => serving' = NoStore
  PROVE  ImportInv'
BY DEF ImportInv

\* Who else may be appending, when one sync is.
LEMMA OnlyOne ==
  ASSUME VectorInv, NEW r \in Syncs, sync[r].at = "appending"
  PROVE  /\ r \in Routes => /\ mu = r /\ phase = "up" /\ sync["import"].at = "idle"
                            /\ \A q \in Routes \ {r} : mu # q
         /\ r = "import" => /\ phase = "opening" /\ serving = NoStore
                            /\ \A q \in Routes : mu # q /\ sync[q].at = "idle"
<1>1. \A q \in Routes : RouteInv(q)
  BY DEF VectorInv, SyncInv
<1>2. ImportInv
  BY DEF VectorInv, SyncInv
<1>3. ASSUME r \in Routes PROVE mu = r /\ phase = "up"
  BY <1>1, <1>3 DEF RouteInv
<1>4. ASSUME phase = "up" PROVE sync["import"].at = "idle"
  BY <1>2, <1>4 DEF ImportInv
<1>5. ASSUME r = "import" PROVE phase = "opening" /\ serving = NoStore
  BY <1>2, <1>5 DEF ImportInv
<1>6. ASSUME phase = "opening", NEW q \in Routes PROVE mu # q /\ sync[q].at = "idle"
  BY <1>1, <1>6 DEF RouteInv
<1> QED BY <1>3, <1>4, <1>5, <1>6

LEMMA OwnWhenSound ==
  ASSUME NEW g, NEW h, Sound(g, h)
  PROVE  OwnRefs(g, h)
<1>1. /\ h.count = g.count /\ h.refs = g.map /\ DOMAIN g.map = 1 .. g.count /\ Len(g.map) = g.count
      /\ g.count \in Nat /\ Len(g.records) \in Nat /\ g.count <= Len(g.records)
  BY SoundFacts
<1>2. \A i \in 1 .. g.count : g.map[i].source = g.records[i]
  BY DEF Sound
<1> QED BY <1>1, <1>2 DEF OwnRefs, VerifyAll, OwnRecord

-----------------------------------------------------------------------------
(***************************************************************************)
(* Steps that leave the generations, what is served and vector_refs alone. *)
(***************************************************************************)
LEMMA Frame ==
  ASSUME VectorInv, Typed', SyncInv', UNCHANGED <<generations, current, serving, refs, glitches>>,
         sync'["import"].at = "appending" =>
           sync["import"].at = "appending" /\ sync'["import"].target = sync["import"].target
  PROVE  VectorInv'
<1>1. FilesInv' /\ CurrentInv'
  BY DEF VectorInv, FilesInv, CurrentInv, Quiet
<1>2. ServingInv'
  BY DEF VectorInv, ServingInv, Quiet, Tidy, SameVectors
<1>3. RefsInv'
  BY DEF VectorInv, RefsInv, Tidy, SameVectors, Target
<1> QED BY <1>1, <1>2, <1>3 DEF VectorInv

\* One route moves, and neither appends nor begins to.
LEMMA RouteMoves ==
  ASSUME VectorInv, NEW r \in Routes, NEW x \in SyncType, SyncMoves(r, x),
         UNCHANGED <<generations, current, legacy, serving, issue, refs, provider, glitches, phase>>,
         blocked' \in BOOLEAN,
         (mu' = mu /\ mu # r) \/ (mu = r /\ mu' = "free"),
         x.at # "appending", phase = "up", x.at # "done" => ~x.fresh
  PROVE  VectorInv'
<1>1. Typed'
  BY DEF VectorInv, Typed, SyncMoves, Routes
<1>2. ASSUME NEW q \in Routes, q # r PROVE RouteInv(q)'
  <2>1. sync'[q] = sync[q] /\ RouteInv(q) /\ (mu' = q <=> mu = q)
    BY <1>2 DEF SyncMoves, VectorInv, SyncInv, Syncs, Routes
  <2> QED BY <2>1 DEF RouteInv, Building, Target
<1>3. RouteInv(r)'
  <2>1. sync'[r] = x /\ mu' # r
    BY DEF SyncMoves, Routes
  <2> QED BY <2>1 DEF RouteInv
<1>4. sync'["import"] = sync["import"]
  BY DEF SyncMoves, Syncs, Routes
<1>5. ImportInv'
  BY <1>4 DEF ImportInv, VectorInv, SyncInv, Target
<1>6. SyncInv'
  BY <1>2, <1>3, <1>5 DEF SyncInv
<1> QED BY <1>1, <1>4, <1>6, Frame

\* No sync moves at all.
LEMMA Untouched ==
  ASSUME VectorInv,
         UNCHANGED <<generations, current, legacy, serving, issue, refs, glitches, mu, sync>>,
         blocked' \in BOOLEAN, provider' \in [model : Models, dimensions : Dims],
         provider'.model = provider.model,
         phase' = phase \/ (phase = "opening" /\ phase' = "up" /\ sync["import"].at = "idle")
  PROVE  VectorInv'
<1>1. Typed'
  BY DEF VectorInv, Typed
<1>2. ASSUME NEW q \in Routes PROVE RouteInv(q)'
  BY DEF VectorInv, SyncInv, RouteInv, Building, Target
<1>3. ImportInv'
  BY DEF VectorInv, SyncInv, ImportInv, Target
<1>4. SyncInv'
  BY <1>2, <1>3 DEF SyncInv
<1> QED BY <1>1, <1>4, Frame

LEMMA RefreshTyped ==
  ASSUME Refresh
  PROVE  blocked' \in BOOLEAN
BY DEF Refresh

LEMMA ServeStep == ASSUME VectorInv, Serve PROVE VectorInv'
<1>1. blocked' \in BOOLEAN
  BY RefreshTyped DEF Serve
<1>2. provider' \in [model : Models, dimensions : Dims]
  BY DEF Serve, VectorInv, Typed
<1> QED BY <1>1, <1>2, Untouched DEF Serve, disk, history

LEMMA RememberStep == ASSUME VectorInv, NEW s \in Sources, Remember(s) PROVE VectorInv'
<1>1. blocked' \in BOOLEAN /\ provider' \in [model : Models, dimensions : Dims]
  BY DEF Remember, VectorInv, Typed, server
<1>2. UNCHANGED <<generations, current, legacy, serving, issue, refs, glitches, mu, sync, provider, phase>>
  BY DEF Remember, disk
<1> QED BY <1>1, <1>2, Untouched

LEMMA DriftStep == ASSUME VectorInv, Drift PROVE VectorInv'
<1>1. blocked' \in BOOLEAN
  BY DEF Drift, VectorInv, Typed, server
<1>2. provider' \in [model : Models, dimensions : Dims] /\ provider'.model = provider.model
  BY DEF Drift, VectorInv, Typed
<1>3. UNCHANGED <<generations, current, legacy, serving, issue, refs, glitches, mu, sync, phase>>
  BY DEF Drift, disk
<1> QED BY <1>1, <1>2, <1>3, Untouched

LEMMA QueryStep == ASSUME VectorInv, InQuery PROVE VectorInv'
<1>1. blocked' \in BOOLEAN /\ provider' \in [model : Models, dimensions : Dims]
  BY DEF InQuery, VectorInv, Typed, server
<1>2. UNCHANGED <<generations, current, legacy, serving, issue, refs, glitches, mu, sync, provider, phase>>
  BY DEF InQuery, disk, history
<1> QED BY <1>1, <1>2, Untouched

LEMMA AdmitStep == ASSUME VectorInv, Admit PROVE VectorInv'
<1>1. blocked' \in BOOLEAN /\ provider' \in [model : Models, dimensions : Dims]
  BY DEF Admit, VectorInv, Typed
<1>2. UNCHANGED <<generations, current, legacy, serving, issue, refs, glitches, mu, sync, provider, phase>>
  BY DEF Admit, disk, history
<1> QED BY <1>1, <1>2, Untouched

LEMMA RebuildStep == ASSUME VectorInv, Rebuild PROVE VectorInv'
<1> DEFINE r == "rebuild"
           x == [sync[r] EXCEPT !.at = "entered"]
<1>1. sync' = [sync EXCEPT ![r] = x] /\ r \in Routes /\ r \in Syncs
  BY DEF Rebuild, VectorInv, Typed, Routes, Syncs
<1>2. x \in SyncType /\ x.at = "entered" /\ x.fresh = sync[r].fresh
  BY <1>1, SyncTyped DEF SyncType, Steps, VectorInv
<1>3. ~sync[r].fresh /\ mu # r
  <2>1. sync[r].at = "idle" /\ RouteInv(r)
    BY <1>1 DEF Rebuild, VectorInv, SyncInv
  <2> QED BY <2>1 DEF RouteInv
<1> HIDE DEF x, r
<1>4. SyncMoves(r, x)
  BY <1>1, <1>2, Moves DEF VectorInv
<1>5. blocked' \in BOOLEAN /\ phase = "up" /\ mu' = mu
  BY DEF Rebuild
<1>6. UNCHANGED <<generations, current, legacy, serving, issue, refs, provider, glitches, phase>>
  BY DEF Rebuild, disk, history
<1>7. x.at # "appending" /\ ~x.fresh
  BY <1>2, <1>3
<1> QED BY <1>1, <1>2, <1>3, <1>4, <1>5, <1>6, <1>7, RouteMoves

LEMMA PlanStep == ASSUME VectorInv, RowsInv, NEW r \in Routes, Plan(r) PROVE VectorInv'
<1> DEFINE wanted == {s \in Sources : Eligible(s) /\ ~(SameModel /\ HasVector(serving.handle, s))}
<1>1. PICK q \in [1 .. Cardinality(wanted) -> wanted] :
        sync' = [sync EXCEPT ![r].queue = q, ![r].at = IF q = <<>> THEN "done" ELSE "embedding"]
  BY DEF Plan
<1>2. r \in Syncs /\ sync[r].at \in {"entered", "idle"} /\ mu = "free" /\ phase = "up"
  BY DEF Plan, Syncs
<1>3. ~sync[r].fresh
  BY <1>2 DEF VectorInv, SyncInv, RouteInv
<1>4. q \in Seq(Sources)
  <2>1. wanted \subseteq {s \in Sources : Eligible(s)}
    OBVIOUS
  <2>2. Cardinality(wanted) \in Nat
    BY <2>1, FS_Subset, FS_CardinalityType DEF RowsInv
  <2>3. q \in Seq(wanted)
    BY <2>2, SeqDef
  <2> QED BY <2>3, SeqMonotonic
<1> DEFINE x == [sync[r] EXCEPT !.queue = q, !.at = IF q = <<>> THEN "done" ELSE "embedding"]
<1> HIDE DEF wanted
<1>5. sync' = [sync EXCEPT ![r] = x]
  BY <1>1, <1>2 DEF VectorInv, Typed
<1>6. x \in SyncType /\ x.at \in {"done", "embedding"} /\ x.fresh = sync[r].fresh
  BY <1>2, <1>4, SyncTyped DEF SyncType, Steps, VectorInv
<1> HIDE DEF x
<1>7. SyncMoves(r, x)
  BY <1>2, <1>5, <1>6, Moves DEF VectorInv
<1>8. blocked' \in BOOLEAN /\ mu' = mu /\ mu # r
  BY <1>2 DEF Plan, server, VectorInv, Typed, Routes
<1> QED BY <1>2, <1>3, <1>6, <1>7, <1>8, RouteMoves DEF Plan, InSync, disk, history

LEMMA EmbeddedStep == ASSUME VectorInv, NEW r \in Routes, Embedded(r) PROVE VectorInv'
<1>1. r \in Syncs /\ sync[r].at = "embedding" /\ phase = "up" /\ mu # r /\ ~sync[r].fresh
  BY DEF Embedded, Syncs, VectorInv, SyncInv, RouteInv
<1> DEFINE x == [sync[r] EXCEPT !.at = "answered", !.dimensions = provider.dimensions]
           y == [sync[r] EXCEPT !.at = "done", !.failed = TRUE]
<1>2. sync' = [sync EXCEPT ![r] = x] \/ sync' = [sync EXCEPT ![r] = y]
  BY <1>1 DEF Embedded, VectorInv, Typed
<1>3. provider.dimensions \in Dims
  BY DEF VectorInv, Typed
<1>4. /\ x \in SyncType /\ x.at = "answered" /\ x.fresh = sync[r].fresh
      /\ y \in SyncType /\ y.at = "done" /\ y.fresh = sync[r].fresh
  BY <1>1, <1>3, SyncTyped DEF SyncType, Steps, VectorInv
<1> HIDE DEF x, y
<1>5. SyncMoves(r, x) \/ SyncMoves(r, y)
  BY <1>1, <1>2, <1>4, Moves DEF VectorInv
<1>6. blocked' \in BOOLEAN /\ mu' = mu
  BY DEF Embedded, server, VectorInv, Typed
<1>7. UNCHANGED <<generations, current, legacy, serving, issue, refs, provider, glitches, phase>>
  BY DEF Embedded, InSync, disk, history
<1>8. x.at # "appending" /\ ~x.fresh /\ y.at # "appending" /\ y.at = "done"
  BY <1>1, <1>4
<1>9. ASSUME SyncMoves(r, x) PROVE VectorInv'
  BY <1>1, <1>4, <1>6, <1>7, <1>8, <1>9, RouteMoves
<1>10. ASSUME SyncMoves(r, y) PROVE VectorInv'
  BY <1>1, <1>4, <1>6, <1>7, <1>8, <1>10, RouteMoves
<1> QED BY <1>5, <1>9, <1>10

LEMMA SyncedStep == ASSUME VectorInv, NEW r \in Routes, Synced(r) PROVE VectorInv'
<1>1. r \in Syncs /\ sync[r].at = "appending" /\ phase = "up" /\ mu = r /\ mu' = "free"
  BY DEF Synced, Appended, Syncs, VectorInv, SyncInv, RouteInv
<1> DEFINE x == [sync[r] EXCEPT !.at = "done"]
<1>2. sync' = [sync EXCEPT ![r] = x]
  BY <1>1 DEF Synced, VectorInv, Typed
<1>3. x \in SyncType /\ x.at = "done"
  BY <1>1, SyncTyped DEF SyncType, Steps, VectorInv
<1> HIDE DEF x
<1>4. SyncMoves(r, x)
  BY <1>1, <1>2, <1>3, Moves DEF VectorInv
<1>5. blocked' \in BOOLEAN
  BY DEF Synced, server, VectorInv, Typed
<1> QED BY <1>1, <1>3, <1>4, <1>5, RouteMoves DEF Synced, InSync, disk, history

LEMMA ReturnStep == ASSUME VectorInv, NEW r \in Routes, Return(r) PROVE VectorInv'
<1>1. r \in Syncs /\ sync[r].at = "done" /\ phase = "up" /\ mu = "free" /\ mu # r /\ mu' = mu
  BY DEF Return, Syncs, Routes, VectorInv, SyncInv, RouteInv
<1>2. sync' = [sync EXCEPT ![r] = Idle]
  BY <1>1 DEF Return, VectorInv, Typed
<1>3. Idle \in SyncType /\ Idle.at = "idle" /\ ~Idle.fresh
  BY IdleTyped DEF Idle
<1>4. SyncMoves(r, Idle)
  BY <1>1, <1>2, <1>3, Moves DEF VectorInv
<1>5. blocked' \in BOOLEAN
  BY RefreshTyped DEF Return, server, VectorInv, Typed
<1> QED BY <1>1, <1>3, <1>4, <1>5, RouteMoves DEF Return, InSync, disk, history

\* The rest of a queue is passed over, or its build is given up.
LEMMA PassStep ==
  ASSUME VectorInv, NEW r \in Syncs, sync[r].at = "appending", NEW failed \in BOOLEAN,
         Continue(r, Target(r).handle, failed),
         UNCHANGED <<generations, current, legacy, serving, issue, refs, provider, glitches, phase, blocked>>
  PROVE  VectorInv'
<1>1. Target(r).handle \in Handles /\ Typed
  BY SyncTyped DEF VectorInv, Target
<1> DEFINE h == Target(r).handle
<1>2. /\ \E x \in SyncType : SyncMoves(r, x)
      /\ sync'[r].at = sync[r].at /\ sync'[r].fresh = sync[r].fresh
      /\ sync'[r].target = [generation |-> sync[r].target.generation, handle |-> h]
      /\ mu' = mu
  <2>1. h \in Handles /\ Continue(r, h, failed)
    BY <1>1
  <2> HIDE DEF h
  <2> QED BY <1>1, <2>1, Continues
<1>3. sync'[r].target = sync[r].target
  <2>1. sync[r].target \in [generation : Nat, handle : Handles]
    BY <1>1, SyncTyped
  <2>2. [generation |-> sync[r].target.generation, handle |-> sync[r].target.handle] = sync[r].target
    BY <2>1
  <2> QED BY <1>2, <2>2 DEF Target
<1>4. sync' \in [Syncs -> SyncType] /\ \A q \in Syncs \ {r} : sync'[q] = sync[q]
  BY <1>2 DEF SyncMoves
<1>5. Typed'
  BY <1>1, <1>2, <1>4 DEF Typed
<1>6. \A q \in Syncs : /\ sync'[q].at = sync[q].at /\ sync'[q].fresh = sync[q].fresh
                       /\ sync'[q].target = sync[q].target
  BY <1>2, <1>3, <1>4
<1>7. ASSUME NEW q \in Routes PROVE RouteInv(q)'
  <2>1. q \in Syncs
    BY DEF Syncs
  <2> QED BY <1>2, <1>6, <2>1 DEF VectorInv, SyncInv, RouteInv, Building, Target
<1>8. ImportInv'
  <2>1. "import" \in Syncs
    BY DEF Syncs
  <2> QED BY <1>6, <2>1 DEF VectorInv, SyncInv, ImportInv, Target
<1>9. SyncInv'
  BY <1>7, <1>8 DEF SyncInv
<1>10. sync'["import"].at = sync["import"].at /\ sync'["import"].target = sync["import"].target
  BY <1>6 DEF Syncs
<1> QED BY <1>5, <1>9, <1>10, Frame

LEMMA RowSkippedStep == ASSUME VectorInv, RowSkipped PROVE VectorInv'
<1>1. "import" \in Syncs /\ sync["import"].at = "appending"
  BY DEF Syncs, RowSkipped, Appending
<1>2. Continue("import", Target("import").handle, FALSE)
  BY DEF RowSkipped
<1>3. UNCHANGED <<generations, current, legacy, serving, issue, refs, provider, glitches, phase, blocked>>
  BY DEF RowSkipped, InSync, disk, server, history
<1> QED BY <1>1, <1>2, <1>3, PassStep

LEMMA RowChangedStep == ASSUME VectorInv, NEW r \in Routes, RowChanged(r) PROVE VectorInv'
<1>1. r \in Syncs /\ sync[r].at = "appending" /\ Typed
  BY DEF Syncs, RowChanged, Appending, VectorInv
<1>2. mu = r /\ phase = "up"
  BY <1>1, OnlyOne
<1>3. UNCHANGED <<generations, current, legacy, serving, issue, refs, provider, glitches, phase, blocked>>
  BY DEF RowChanged, InSync, disk, server, history
<1>4. CASE GiveUp(r)
  <2> DEFINE x == [sync[r] EXCEPT !.at = "done", !.failed = TRUE]
  <2>1. SyncMoves(r, x) /\ mu' = "free" /\ sync'[r].at = "done"
    BY <1>1, <1>4, GivesUp
  <2> HIDE DEF x
  <2>2. sync'[r] = x /\ x \in SyncType
    BY <1>1, <2>1 DEF SyncMoves
  <2>3. x.at = "done" /\ blocked' \in BOOLEAN
    BY <1>3, <2>1, <2>2 DEF VectorInv, Typed
  <2> QED BY <1>2, <1>3, <2>1, <2>2, <2>3, RouteMoves
<1>5. CASE Continue(r, Target(r).handle, TRUE)
  BY <1>1, <1>3, <1>5, PassStep
<1> QED BY <1>4, <1>5 DEF RowChanged

LEMMA AppendKnownStep == ASSUME VectorInv, NEW r \in Routes, AppendKnown(r) PROVE VectorInv'
<1>1. r \in Syncs /\ sync[r].at = "appending" /\ Typed
  BY DEF Syncs, AppendKnown, Appending, VectorInv
<1>2. mu = r /\ phase = "up"
  BY <1>1, OnlyOne
<1>3. UNCHANGED <<generations, current, legacy, serving, issue, refs, provider, glitches, phase, blocked>>
  BY DEF AppendKnown, InSync, disk, server, history
<1>4. CASE sync' = [sync EXCEPT ![r] = Idle] /\ mu' = "free"
  <2>1. Idle \in SyncType /\ Idle.at = "idle" /\ ~Idle.fresh
    BY IdleTyped DEF Idle
  <2>2. SyncMoves(r, Idle)
    BY <1>1, <1>4, <2>1, Moves
  <2>3. blocked' \in BOOLEAN
    BY <1>3 DEF VectorInv, Typed
  <2> QED BY <1>2, <1>3, <1>4, <2>1, <2>2, <2>3, RouteMoves
<1>5. CASE Continue(r, Target(r).handle, FALSE)
  BY <1>1, <1>3, <1>5, PassStep
<1> QED BY <1>4, <1>5 DEF AppendKnown

-----------------------------------------------------------------------------
(***************************************************************************)
(* Steps that write to a generation, or add one.                           *)
(***************************************************************************)
LEMMA GenerationsTyped ==
  ASSUME Typed
  PROVE  /\ Len(generations) \in Nat /\ DOMAIN generations = 1 .. Len(generations)
         /\ \A x \in DOMAIN generations : generations[x] \in GenerationType
         /\ current \in Nat /\ (current # 0 => current \in DOMAIN generations)
         /\ serving.generation \in Nat
         /\ (serving.generation # 0 => serving.generation \in DOMAIN generations)
         /\ serving.handle \in Handles
         /\ serving = [generation |-> serving.generation, handle |-> serving.handle]
<1>1. generations \in Seq(GenerationType) /\ current \in 0 .. Len(generations)
      /\ serving \in [generation : 0 .. Len(generations), handle : Handles]
  BY DEF Typed
<1>2. Len(generations) \in Nat /\ DOMAIN generations = 1 .. Len(generations)
      /\ \A x \in DOMAIN generations : generations[x] \in GenerationType
  BY <1>1, LenProperties
<1>3. /\ serving.generation \in 0 .. Len(generations) /\ serving.handle \in Handles
      /\ serving = [generation |-> serving.generation, handle |-> serving.handle]
  BY <1>1
<1> QED BY <1>1, <1>2, <1>3

\* Generation x becomes d.
Rewrites(x, d) ==
  /\ generations' \in Seq(GenerationType) /\ Len(generations') = Len(generations)
  /\ DOMAIN generations' = DOMAIN generations
  /\ generations'[x] = d
  /\ \A y \in DOMAIN generations \ {x} : generations'[y] = generations[y]

LEMMA Rewriting ==
  ASSUME Typed, NEW x \in DOMAIN generations, NEW d \in GenerationType,
         generations' = [generations EXCEPT ![x] = d]
  PROVE  Rewrites(x, d)
<1>1. x \in 1 .. Len(generations) /\ DOMAIN generations = 1 .. Len(generations)
  BY GenerationsTyped
<1>2. generations \in Seq(GenerationType)
  BY DEF Typed
<1>3. /\ generations' \in Seq(GenerationType) /\ Len(generations') = Len(generations)
      /\ \A y \in 1 .. Len(generations) : generations'[y] = IF y = x THEN d ELSE generations[y]
  BY <1>1, <1>2, ExceptSeq
<1>4. DOMAIN generations' = 1 .. Len(generations)
  BY <1>3, LenProperties
<1> QED BY <1>1, <1>3, <1>4 DEF Rewrites

\* Generation g is added.
Adds(g) ==
  /\ generations' \in Seq(GenerationType) /\ Len(generations') = Len(generations) + 1
  /\ DOMAIN generations' = DOMAIN generations \cup {Len(generations')}
  /\ Len(generations') \notin DOMAIN generations
  /\ generations'[Len(generations')] = g
  /\ \A y \in DOMAIN generations : generations'[y] = generations[y]

LEMMA Adding ==
  ASSUME Typed, NEW g \in GenerationType, generations' = Append(generations, g)
  PROVE  Adds(g)
<1>1. /\ generations' \in Seq(GenerationType) /\ Len(generations') = Len(generations) + 1
      /\ Len(generations) \in Nat /\ generations'[Len(generations) + 1] = g
      /\ \A y \in 1 .. Len(generations) : generations'[y] = generations[y]
  BY Appends DEF Typed
<1>2. DOMAIN generations = 1 .. Len(generations) /\ DOMAIN generations' = 1 .. Len(generations) + 1
  BY <1>1, LenProperties DEF Typed
<1> QED BY <1>1, <1>2 DEF Adds

LEMMA FreshGeneration ==
  ASSUME NEW model \in Models, NEW dimensions \in Dims \cup {0}, NEW state \in {"READY", "BUILDING"}
  PROVE  LET g == NewGeneration(model, dimensions, state) IN
         /\ g \in GenerationType /\ g.model = model /\ g.state = state /\ g.count = 0
         /\ Sound(g, EmptyHandle) /\ Laid(g)
<1> DEFINE g == NewGeneration(model, dimensions, state)
<1>1. <<>> \in Seq(Sources) /\ <<>> \in Seq(Lines) /\ <<>> \in Seq(Lines \cup {Fragment}) /\ Len(<<>>) = 0
  BY EmptySeq
<1>2. /\ g \in GenerationType /\ g.model = model /\ g.state = state /\ g.count = 0
      /\ g.records = <<>> /\ g.map = <<>>
  BY <1>1 DEF NewGeneration, GenerationType
<1> HIDE DEF g
<1>3. Sound(g, EmptyHandle)
  BY <1>1, <1>2 DEF Sound, EmptyHandle
<1>4. Laid(g)
  BY <1>2, <1>3, SoundIsKept, KeptIsLaid, IdleTyped
<1> QED BY <1>2, <1>3, <1>4 DEF g

LEMMA BeginStep == ASSUME VectorInv, NEW r \in Routes, Begin(r) PROVE VectorInv'
<1>1. r \in Syncs /\ sync[r].at = "answered" /\ mu = "free" /\ phase = "up" /\ Typed
  BY DEF Begin, Syncs, VectorInv, SyncInv, RouteInv
<1>2. ~sync[r].fresh /\ sync["import"].at = "idle" /\ "import" \in Syncs
  BY <1>1 DEF VectorInv, SyncInv, RouteInv, ImportInv, Syncs
<1>3. UNCHANGED <<current, serving, issue, refs, blocked, glitches, legacy, phase, provider>>
  BY DEF Begin, InSync, server, history
<1>4. provider.model \in Models /\ blocked' \in BOOLEAN
  BY <1>1, <1>3 DEF Typed
\* A generation of its own.
<1>5. ASSUME NeedsGeneration(r),
             generations' = Append(generations, NewGeneration(provider.model, sync[r].dimensions, "BUILDING")),
             mu' = r,
             sync' = [sync EXCEPT ![r].at = "appending", ![r].fresh = TRUE,
                        ![r].target = [generation |-> Len(generations'), handle |-> EmptyHandle]]
      PROVE  VectorInv'
  <2> DEFINE g == NewGeneration(provider.model, sync[r].dimensions, "BUILDING")
             t == [generation |-> Len(generations'), handle |-> EmptyHandle]
             x == [sync[r] EXCEPT !.at = "appending", !.fresh = TRUE, !.target = t]
  <2>1. /\ g \in GenerationType /\ g.model = provider.model /\ g.count = 0
        /\ Sound(g, EmptyHandle) /\ Laid(g)
    BY <1>1, <1>4, SyncTyped, FreshGeneration
  <2>2. generations' = Append(generations, g)
    BY <1>5
  <2>3. sync' = [sync EXCEPT ![r] = x]
    BY <1>1, <1>5 DEF Typed
  <2> HIDE DEF g
  <2>4. Adds(g)
    BY <1>1, <2>1, <2>2, Adding
  <2>5. t \in [generation : Nat, handle : Handles]
    BY <2>4, IdleTyped, LenProperties DEF Adds
  <2> HIDE DEF t
  <2>6. x \in SyncType /\ x.at = "appending" /\ x.fresh /\ x.target = t
    BY <1>1, <2>5, SyncTyped DEF SyncType, Steps
  <2> HIDE DEF x
  <2>7. SyncMoves(r, x)
    BY <1>1, <2>3, <2>6, Moves
  <2>8. sync'[r] = x /\ sync'["import"] = sync["import"]
        /\ \A q \in Routes \ {r} : sync'[q] = sync[q] /\ mu # q /\ mu' # q
    BY <1>1, <1>5, <2>7 DEF SyncMoves, Syncs, Routes
  <2>9. /\ DOMAIN generations \subseteq DOMAIN generations'
        /\ current # 0 => current \in DOMAIN generations
        /\ serving.generation # 0 => serving.generation \in DOMAIN generations
        /\ Len(generations') \in DOMAIN generations' \ DOMAIN generations /\ Len(generations') # 0
        /\ Len(generations) \in Nat
    BY <1>1, <2>4, GenerationsTyped DEF Adds
  <2>10. Typed'
    BY <1>1, <1>3, <1>4, <1>5, <2>4, <2>7, <2>9 DEF Typed, Adds, SyncMoves
  <2>11. FilesInv'
    BY <2>1, <2>4 DEF FilesInv, VectorInv, Adds
  <2>12. RouteInv(r)'
    <3>1. t.generation = Len(generations') /\ t.handle = EmptyHandle
      BY DEF t
    <3>2. Building(r)'
      <4>1. t.generation \in DOMAIN generations' \ {current', serving'.generation}
        BY <1>3, <2>9, <3>1
      <4>2. Sound(generations'[t.generation], t.handle) /\ generations'[t.generation].model = provider'.model
        BY <1>3, <2>1, <2>4, <3>1 DEF Adds
      <4>3. \A row \in refs' : row.generation # t.generation
        BY <1>3, <2>9, <3>1 DEF VectorInv, RefsInv
      <4> QED BY <2>6, <2>8, <4>1, <4>2, <4>3 DEF Building, Target
    <3> QED BY <1>1, <1>3, <1>5, <2>6, <2>8, <3>2 DEF RouteInv
  <2>13. ASSUME NEW q \in Routes, q # r PROVE RouteInv(q)'
    BY <1>3, <2>8, <2>13, RouteRests DEF VectorInv, SyncInv
  <2>14. ImportInv'
    BY <1>1, <1>2, <1>3, <2>8, ImportRests DEF VectorInv, SyncInv
  <2>15. ServingInv'
    BY <1>3, <2>4, <2>9 DEF VectorInv, ServingInv, Adds, Quiet, Tidy, SameVectors
  <2>16. RefsInv'
    BY <1>2, <1>3, <2>4, <2>8, <2>9 DEF VectorInv, RefsInv, Adds
  <2>17. CurrentInv'
    BY <1>3, <2>4, <2>9 DEF VectorInv, CurrentInv, Adds, Quiet
  <2> QED BY <2>10, <2>11, <2>12, <2>13, <2>14, <2>15, <2>16, <2>17 DEF VectorInv, SyncInv
\* No generation can be created.
<1>6. ASSUME sync' = [sync EXCEPT ![r].at = "done", ![r].failed = TRUE], UNCHANGED <<generations, mu>>
      PROVE  VectorInv'
  <2> DEFINE x == [sync[r] EXCEPT !.at = "done", !.failed = TRUE]
  <2>1. sync' = [sync EXCEPT ![r] = x]
    BY <1>1, <1>6 DEF Typed
  <2>2. x \in SyncType /\ x.at = "done"
    BY <1>1, SyncTyped DEF SyncType, Steps
  <2> HIDE DEF x
  <2>3. SyncMoves(r, x)
    BY <1>1, <2>1, <2>2, Moves
  <2>4. mu' = mu /\ mu # r
    BY <1>1, <1>6 DEF Routes
  <2> QED BY <1>1, <1>3, <1>4, <1>6, <2>2, <2>3, <2>4, RouteMoves
\* The generation that is being served.
<1>7. ASSUME ~NeedsGeneration(r), mu' = r, UNCHANGED generations,
             sync' = [sync EXCEPT ![r].at = "appending", ![r].target = serving]
      PROVE  VectorInv'
  <2> DEFINE x == [sync[r] EXCEPT !.at = "appending", !.target = serving]
  <2>1. serving \in [generation : Nat, handle : Handles] /\ serving.generation # 0
    BY <1>1, <1>7, GenerationsTyped DEF NeedsGeneration, SameModel
  <2>2. sync' = [sync EXCEPT ![r] = x]
    BY <1>1, <1>7 DEF Typed
  <2>3. x \in SyncType /\ x.at = "appending" /\ x.fresh = sync[r].fresh /\ x.target = serving
    BY <1>1, <2>1, SyncTyped DEF SyncType, Steps
  <2> HIDE DEF x
  <2>4. SyncMoves(r, x)
    BY <1>1, <2>2, <2>3, Moves
  <2>5. sync'[r] = x /\ sync'["import"] = sync["import"]
        /\ \A q \in Routes \ {r} : sync'[q] = sync[q] /\ mu # q /\ mu' # q
    BY <1>1, <1>7, <2>4 DEF SyncMoves, Syncs, Routes
  <2>6. Typed'
    BY <1>1, <1>3, <1>4, <1>7, <2>4 DEF Typed, SyncMoves
  <2>7. RouteInv(r)'
    BY <1>1, <1>2, <1>3, <1>7, <2>1, <2>3, <2>5 DEF RouteInv, Target
  <2>8. ASSUME NEW q \in Routes, q # r PROVE RouteInv(q)'
    BY <1>3, <2>5, <2>8, RouteRests DEF VectorInv, SyncInv
  <2>9. ImportInv'
    BY <1>1, <1>2, <1>3, <2>5, ImportRests DEF VectorInv, SyncInv
  <2>10. SyncInv'
    BY <2>7, <2>8, <2>9 DEF SyncInv
  <2>11. sync'["import"].at # "appending"
    BY <1>2, <2>5
  <2> QED BY <1>3, <1>7, <2>6, <2>10, <2>11, Frame
<1>8. \/ /\ NeedsGeneration(r)
         /\ generations' = Append(generations, NewGeneration(provider.model, sync[r].dimensions, "BUILDING"))
         /\ mu' = r
         /\ sync' = [sync EXCEPT ![r].at = "appending", ![r].fresh = TRUE,
                        ![r].target = [generation |-> Len(generations'), handle |-> EmptyHandle]]
      \/ sync' = [sync EXCEPT ![r].at = "done", ![r].failed = TRUE] /\ UNCHANGED <<generations, mu>>
      \/ /\ ~NeedsGeneration(r) /\ mu' = r /\ UNCHANGED generations
         /\ sync' = [sync EXCEPT ![r].at = "appending", ![r].target = serving]
  BY DEF Begin
<1> QED BY <1>5, <1>6, <1>7, <1>8

-----------------------------------------------------------------------------
(***************************************************************************)
(* AppendOne: to a build nobody knows, to the generation that is being     *)
(* served, and to the one the import has selected.                         *)
(***************************************************************************)
LEMMA TargetFacts ==
  ASSUME VectorInv, NEW r \in Syncs, sync[r].at = "appending"
  PROVE  LET t == Target(r) IN
         /\ t.generation \in DOMAIN generations /\ t.handle \in Handles
         /\ t = [generation |-> t.generation, handle |-> t.handle]
         /\ generations[t.generation] \in GenerationType
         /\ Kept(generations[t.generation], t.handle.count)
         /\ r \in Routes /\ sync[r].fresh => Building(r)
         /\ r \in Routes /\ ~sync[r].fresh => t = serving /\ serving.generation # 0
         /\ r = "import" => /\ current # 0 /\ t.generation = current /\ serving = NoStore
                            /\ Sound(generations[t.generation], t.handle)
                            /\ generations[t.generation].state = "READY"
<1>1. Typed /\ Target(r).handle \in Handles
      /\ Target(r) = [generation |-> Target(r).generation, handle |-> Target(r).handle]
  BY SyncTyped DEF VectorInv, Target
<1>2. CASE r \in Routes
  <2>1. mu = r /\ r # "import"
    BY <1>2, OnlyOne DEF Routes
  <2>2. IF sync[r].fresh THEN Building(r) ELSE Target(r) = serving /\ serving.generation # 0
    BY <1>2, <2>1 DEF VectorInv, SyncInv, RouteInv
  <2>3. CASE sync[r].fresh
    BY <1>1, <2>1, <2>2, <2>3, SoundIsKept, SoundFacts DEF Building
  <2>4. CASE ~sync[r].fresh
    BY <1>1, <2>1, <2>2, <2>4, GenerationsTyped DEF VectorInv, ServingInv
  <2> QED BY <2>3, <2>4
<1>3. CASE r = "import"
  <2>1. /\ current # 0 /\ Target(r).generation = current /\ serving = NoStore
        /\ Sound(generations[current], Target(r).handle) /\ generations[current].state = "READY"
    BY <1>3 DEF VectorInv, SyncInv, ImportInv
  <2>2. r \notin Routes
    BY <1>3 DEF Routes
  <2> QED BY <1>1, <2>1, <2>2, SoundIsKept, SoundFacts, GenerationsTyped
<1> QED BY <1>2, <1>3 DEF Syncs

\* The generations are as they were, or grew.
Grown ==
  /\ DOMAIN generations \subseteq DOMAIN generations'
  /\ \A y \in DOMAIN generations :
       /\ SameKind(generations'[y], generations[y])
       /\ generations[y].count > 0 => generations'[y].count > 0

LEMMA Writing ==
  ASSUME VectorInv, NEW r \in Syncs, Appending(r),
         NEW d \in AppendCrashes(generations[Target(r).generation], Target(r).handle, Item(r)),
         generations' = [generations EXCEPT ![Target(r).generation] = d]
  PROVE  /\ Rewrites(Target(r).generation, d) /\ FilesInv' /\ Grown
         /\ SameKind(d, generations[Target(r).generation])
<1> DEFINE x == Target(r).generation
           h == Target(r).handle
           g == generations[x]
<1>1. Typed /\ Item(r) \in Sources /\ sync[r].at = "appending"
  BY ItemTyped DEF VectorInv
<1>2. x \in DOMAIN generations /\ h \in Handles /\ Kept(g, h.count)
  BY <1>1, TargetFacts
<1>3. d \in GenerationType /\ SameKind(d, g) /\ Laid(d) /\ d.count \in Nat /\ g.count \in Nat /\ g.count <= d.count
  <2> HIDE DEF h, x
  <2>1. d \in AppendCrashes(g, h, Item(r))
    BY DEF h, x
  <2> HIDE DEF g
  <2> QED BY <1>1, <1>2, <2>1, WrittenTyped
<1> HIDE DEF x, h
<1>4. Rewrites(x, d)
  BY <1>1, <1>2, <1>3, Rewriting DEF x
<1>5. FilesInv'
  BY <1>3, <1>4 DEF FilesInv, VectorInv, Rewrites
<1>6. Grown
  BY <1>3, <1>4 DEF Grown, Rewrites, SameKind
<1> QED BY <1>3, <1>4, <1>5, <1>6 DEF x

\* What an append does to the rest of the state.
Quietly ==
  /\ UNCHANGED <<current, issue, blocked, legacy, phase, provider>>
  /\ glitches \subseteq glitches' /\ glitches' \subseteq Faults

LEMMA AppendTyped ==
  ASSUME VectorInv, Quietly, NEW r \in Syncs, NEW x \in SyncType, SyncMoves(r, x),
         NEW g \in DOMAIN generations, NEW d, Rewrites(g, d),
         serving' \in [generation : 0 .. Len(generations), handle : Handles],
         refs' \subseteq [generation : Nat, line : Lines],
         mu' \in {mu, "free"}
  PROVE  Typed'
BY DEF Typed, VectorInv, Quietly, SyncMoves, Rewrites

LEMMA AppendToBuild ==
  ASSUME VectorInv, NEW r \in Routes, Appending(r), sync[r].fresh, Quietly,
         UNCHANGED <<serving, refs>>,
         NEW d, Rewrites(Target(r).generation, d), FilesInv', Grown,
         SameKind(d, generations[Target(r).generation]),
         NEW x \in SyncType, SyncMoves(r, x), x.fresh,
         \/ /\ mu' = mu /\ x.at = "appending" /\ x.target.generation = Target(r).generation
            /\ Sound(d, x.target.handle)
         \/ mu' = "free" /\ x.at = "done"
  PROVE  VectorInv'
<1>1. r \in Syncs /\ Typed /\ sync[r].at = "appending"
  BY DEF Syncs, VectorInv, Appending
<1>2. mu = r /\ phase = "up" /\ sync["import"].at = "idle" /\ \A q \in Routes \ {r} : mu # q
  BY <1>1, OnlyOne
<1> DEFINE t == Target(r)
<1>3. Building(r) /\ t.generation \in DOMAIN generations
  BY <1>1, TargetFacts
<1>4. /\ t.generation \notin {current, serving.generation}
      /\ generations[t.generation].model = provider.model
      /\ \A row \in refs : row.generation # t.generation
  BY <1>3 DEF Building
<1>5. sync'[r] = x /\ sync'["import"] = sync["import"]
      /\ \A q \in Routes \ {r} : sync'[q] = sync[q] /\ mu' # q
  BY <1>2 DEF SyncMoves, Syncs, Routes
<1> HIDE DEF t
<1>6. /\ current # 0 => current \in DOMAIN generations /\ generations'[current] = generations[current]
      /\ serving.generation # 0 => /\ serving.generation \in DOMAIN generations
                                   /\ generations'[serving.generation] = generations[serving.generation]
  BY <1>1, <1>4, GenerationsTyped DEF Rewrites, t
<1>7. Typed'
  <2>1. serving' \in [generation : 0 .. Len(generations), handle : Handles]
        /\ refs' \subseteq [generation : Nat, line : Lines]
    BY <1>1 DEF Typed
  <2> QED BY <1>1, <1>3, <2>1, AppendTyped DEF t
<1>8. RouteInv(r)'
  <2>1. CASE mu' = "free" /\ x.at = "done"
    BY <1>2, <1>5, <2>1 DEF RouteInv, Quietly, Routes
  <2>2. CASE mu' = mu /\ x.at = "appending" /\ x.target.generation = Target(r).generation
             /\ Sound(d, x.target.handle)
    <3>1. Building(r)'
      <4>1. x.target.generation = t.generation /\ generations'[t.generation] = d
        BY <2>2 DEF Rewrites, t
      <4>2. x.target.generation \in DOMAIN generations' \ {current', serving'.generation}
        BY <1>3, <1>4, <4>1 DEF Quietly, Rewrites
      <4>3. generations'[x.target.generation].model = provider'.model
        BY <1>4, <4>1 DEF SameKind, Quietly, t
      <4>4. \A row \in refs' : row.generation # x.target.generation
        BY <1>4, <4>1
      <4> QED BY <1>5, <2>2, <4>1, <4>2, <4>3, <4>4 DEF Building, Target
    <3> QED BY <1>2, <1>5, <2>2, <3>1 DEF RouteInv, Quietly
  <2> QED BY <2>1, <2>2
<1>9. ASSUME NEW q \in Routes, q # r PROVE RouteInv(q)'
  BY <1>2, <1>5, <1>9, RouteRests DEF VectorInv, SyncInv, Quietly
<1>10. ImportInv'
  BY <1>2, <1>5, ImportRests DEF VectorInv, SyncInv, Quietly
<1>11. ServingInv'
  BY <1>6 DEF VectorInv, ServingInv, Quiet, Tidy, SameVectors, Quietly
<1>12. RefsInv'
  BY <1>2, <1>5 DEF VectorInv, RefsInv, Grown
<1>13. CurrentInv'
  BY <1>6 DEF VectorInv, CurrentInv, Quiet, Quietly
<1> QED BY <1>7, <1>8, <1>9, <1>10, <1>11, <1>12, <1>13 DEF VectorInv, SyncInv

\* vector_refs after an append to a generation whose rows it had.
LEMMA SameRowsGrow ==
  ASSUME NEW g, NEW h \in Handles, NEW s \in Sources, NEW table, SameRows(table, g, h)
  PROVE  SameRows(table \cup {[generation |-> g, line |-> Extended(h, s).refs[Len(Extended(h, s).refs)]]},
                  g, Extended(h, s))
<1> DEFINE row == [generation |-> g, line |-> Extended(h, s).refs[Len(Extended(h, s).refs)]]
<1>0. /\ Len(Extended(h, s).refs) = Len(h.refs) + 1
      /\ Extended(h, s).refs[Len(h.refs) + 1] = Line(h.count, s)
      /\ Line(h.count, s).source = s
  BY HandleMoves
<1>1. row.generation = g /\ row.line.source = s
  BY <1>0
<1> HIDE DEF row
<1>2. ASSUME NEW y \in Sources
      PROVE  HasVector(Extended(h, s), y) <=>
               \E w \in table \cup {row} : w.line.source = y /\ w.generation = g
  <2>1. HasVector(h, y) <=> \E w \in table : w.line.source = y /\ w.generation = g
    BY DEF SameRows
  <2>2. HasVector(Extended(h, s), y) <=> HasVector(h, y) \/ y = s
    BY VectorsOfExtended
  <2> QED BY <1>1, <2>1, <2>2
<1> QED BY <1>2 DEF SameRows, row

\* Either the row follows the record into vector_refs, or nothing does.
RowFollows(g, h, k, s) ==
  \/ k = Extended(h, s) /\ refs' = refs \cup {[generation |-> g, line |-> k.refs[Len(k.refs)]]}
  \/ UNCHANGED refs /\ (k = h \/ ~Tidy')

LEMMA RowFollowsTyped ==
  ASSUME Typed, NEW g \in DOMAIN generations, NEW h \in Handles, NEW s \in Sources, NEW k,
         RowFollows(g, h, k, s)
  PROVE  /\ refs' \subseteq [generation : Nat, line : Lines]
         /\ \A row \in refs' \ refs : row.generation = g /\ k = Extended(h, s)
<1>1. refs \subseteq [generation : Nat, line : Lines] /\ g \in Nat
  BY GenerationsTyped DEF Typed
<1>2. CASE UNCHANGED refs
  BY <1>1, <1>2
<1>3. CASE k = Extended(h, s) /\ refs' = refs \cup {[generation |-> g, line |-> k.refs[Len(k.refs)]]}
  <2>1. k.refs[Len(k.refs)] \in Lines
    BY <1>3, HandleMoves
  <2> QED BY <1>1, <1>3, <2>1
<1> QED BY <1>2, <1>3 DEF RowFollows

LEMMA SameRowsFollow ==
  ASSUME NEW g, NEW h \in Handles, NEW s \in Sources, NEW k, RowFollows(g, h, k, s), Tidy',
         SameRows(refs, g, h)
  PROVE  SameRows(refs', g, k)
<1>1. CASE k = Extended(h, s) /\ refs' = refs \cup {[generation |-> g, line |-> k.refs[Len(k.refs)]]}
  BY <1>1, SameRowsGrow
<1>2. CASE UNCHANGED refs /\ k = h
  BY <1>2
<1> QED BY <1>1, <1>2 DEF RowFollows

LEMMA AppendToServing ==
  ASSUME VectorInv, NEW r \in Routes, Appending(r), ~sync[r].fresh, Quietly,
         NEW d, Rewrites(serving.generation, d), FilesInv', Grown,
         SameKind(d, generations[serving.generation]),
         NEW k \in Handles, serving' = [serving EXCEPT !.handle = k],
         Kept(d, k.count), Quiet' => Sound(d, k), "count" \notin glitches' => OwnRefs(d, k),
         RowFollows(serving.generation, serving.handle, k, Item(r)),
         k = Extended(serving.handle, Item(r)) => d.count > 0,
         NEW x \in SyncType, SyncMoves(r, x), ~x.fresh, x.at = "appending", mu' = mu,
         x.target = [generation |-> serving.generation, handle |-> k]
  PROVE  VectorInv'
<1> DEFINE sg == serving.generation
           store == [generation |-> sg, handle |-> k]
<1>1. r \in Syncs /\ Typed /\ sync[r].at = "appending" /\ Item(r) \in Sources
  BY ItemTyped DEF Syncs, VectorInv, Appending
<1>2. mu = r /\ phase = "up" /\ sync["import"].at = "idle" /\ \A q \in Routes \ {r} : mu # q
  BY <1>1, OnlyOne
<1>3. sg # 0 /\ sg \in DOMAIN generations /\ serving.handle \in Handles
      /\ serving = [generation |-> sg, handle |-> serving.handle]
  BY <1>1, TargetFacts, GenerationsTyped
<1>4. serving' = store
  BY <1>3
<1>5. sync'[r] = x /\ sync'["import"] = sync["import"]
      /\ \A q \in Routes \ {r} : sync'[q] = sync[q] /\ mu' # q
  BY <1>2 DEF SyncMoves, Syncs, Routes
<1>6. /\ refs' \subseteq [generation : Nat, line : Lines]
      /\ \A row \in refs' \ refs : row.generation = sg /\ d.count > 0
  BY <1>1, <1>3, RowFollowsTyped
<1>7. store.generation = sg /\ store.handle = k
  OBVIOUS
<1> HIDE DEF sg, store
<1>8. Typed'
  <2>1. serving' \in [generation : 0 .. Len(generations), handle : Handles]
    BY <1>1, <1>4 DEF Typed, store, sg
  <2> QED BY <1>1, <1>3, <1>6, <2>1, AppendTyped DEF sg
<1>9. RouteInv(r)'
  <2>1. sync'[r].target = serving' /\ serving'.generation # 0
    BY <1>3, <1>4, <1>5, <1>7 DEF store, sg
  <2> QED BY <1>2, <1>5, <2>1 DEF RouteInv, Quietly, Target
<1>10. ASSUME NEW q \in Routes, q # r PROVE RouteInv(q)'
  BY <1>2, <1>5, <1>10, RouteRests DEF VectorInv, SyncInv, Quietly
<1>11. ImportInv'
  BY <1>2, <1>5, ImportRests DEF VectorInv, SyncInv, Quietly
<1>12. ServingInv'
  <2>1. generations'[sg] = d
    BY DEF Rewrites, sg
  <2>2. ASSUME Tidy' PROVE SameRows(refs', sg, k)
    <3>1. Tidy
      BY <2>2 DEF Tidy, Quietly
    <3>2. SameRows(refs, sg, serving.handle)
      BY <1>3, <3>1 DEF VectorInv, ServingInv, SameVectors, sg
    <3>3. RowFollows(sg, serving.handle, k, Item(r))
      BY DEF sg
    <3> QED BY <1>1, <1>3, <2>2, <3>2, <3>3, SameRowsFollow
  <2>3. Tidy' => SameVectors(serving)'
    BY <1>4, <1>7, <2>2 DEF SameVectors
  <2>4. serving'.generation = sg /\ serving'.handle = k
    BY <1>4, <1>7
  <2> QED BY <2>1, <2>3, <2>4 DEF ServingInv, OwnRefs
<1>13. RefsInv'
  <2>1. ASSUME NEW row \in refs'
        PROVE  row.generation \in DOMAIN generations' /\ generations'[row.generation].count > 0
    <3>1. CASE row \in refs
      BY <3>1 DEF VectorInv, RefsInv, Grown
    <3>2. CASE row \notin refs
      BY <1>3, <1>6, <3>2 DEF Rewrites, sg
    <3> QED BY <3>1, <3>2
  <2> QED BY <1>2, <1>5, <2>1 DEF RefsInv
<1>14. CurrentInv'
  <2> SUFFICES ASSUME current # 0, Quiet' PROVE Reopens(generations'[current])
    BY DEF CurrentInv, Quietly
  <2>1. Quiet /\ current \in DOMAIN generations
    BY <1>1, GenerationsTyped DEF Quiet, Quietly
  <2>2. Reopens(generations[current])
    BY <2>1 DEF VectorInv, CurrentInv
  <2>3. CASE current = sg
    <3>1. generations'[current] = d /\ d.state = "READY" /\ Sound(d, k)
      BY <2>2, <2>3 DEF Rewrites, SameKind, Reopens, sg
    <3> QED BY <3>1, SoundReopens
  <2>4. CASE current # sg
    BY <2>1, <2>2, <2>4 DEF Rewrites, sg
  <2> QED BY <2>3, <2>4
<1> QED BY <1>8, <1>9, <1>10, <1>11, <1>12, <1>13, <1>14 DEF VectorInv, SyncInv

LEMMA AppendToImport ==
  ASSUME VectorInv, Appending("import"), Quietly, UNCHANGED serving,
         NEW d, Rewrites(current, d), FilesInv', Grown, SameKind(d, generations[current]),
         NEW k \in Handles, Quiet' => Sound(d, k),
         RowFollows(current, Target("import").handle, k, Item("import")),
         k = Extended(Target("import").handle, Item("import")) /\ refs' # refs => d.count > 0,
         NEW x \in SyncType, SyncMoves("import", x), ~x.fresh,
         \/ /\ mu' = mu /\ x.at = "appending" /\ Sound(d, k)
            /\ x.target = [generation |-> current, handle |-> k]
         \/ mu' = "free" /\ x.at = "done"
  PROVE  VectorInv'
<1> DEFINE t == Target("import")
<1>1. "import" \in Syncs /\ Typed /\ sync["import"].at = "appending" /\ Item("import") \in Sources
  BY ItemTyped DEF Syncs, VectorInv, Appending
<1>2. phase = "opening" /\ serving = NoStore /\ \A q \in Routes : mu # q /\ sync[q].at = "idle"
  BY <1>1, OnlyOne
<1>3. /\ current # 0 /\ current \in DOMAIN generations /\ t.handle \in Handles
      /\ t = [generation |-> current, handle |-> t.handle]
      /\ generations[current].state = "READY"
  BY <1>1, TargetFacts
<1>4. sync'["import"] = x /\ \A q \in Routes : sync'[q] = sync[q] /\ mu' # q
  BY <1>2 DEF SyncMoves, Syncs, Routes
<1>5. /\ refs' \subseteq [generation : Nat, line : Lines]
      /\ \A row \in refs' \ refs : row.generation = current /\ d.count > 0
  BY <1>1, <1>3, RowFollowsTyped
<1>6. d.state = "READY" /\ generations'[current] = d /\ serving.generation = 0
  BY <1>2, <1>3 DEF SameKind, Rewrites, NoStore
<1>7. Typed'
  <2>1. serving' \in [generation : 0 .. Len(generations), handle : Handles]
    BY <1>1 DEF Typed
  <2> QED BY <1>1, <1>3, <1>5, <2>1, AppendTyped
<1>8. ASSUME NEW q \in Routes PROVE RouteInv(q)'
  BY <1>2, <1>4, <1>8, RouteRests DEF VectorInv, SyncInv, Quietly
<1>9. ImportInv'
  BY <1>2, <1>3, <1>4, <1>6 DEF ImportInv, Quietly, Target
<1>10. ServingInv'
  BY <1>6 DEF ServingInv
<1>11. RefsInv'
  <2>1. ASSUME NEW row \in refs'
        PROVE  row.generation \in DOMAIN generations' /\ generations'[row.generation].count > 0
    <3>1. CASE row \in refs
      BY <3>1 DEF VectorInv, RefsInv, Grown
    <3>2. CASE row \notin refs
      BY <1>3, <1>5, <1>6, <3>2 DEF Rewrites
    <3> QED BY <3>1, <3>2
  <2>2. ASSUME x.at = "appending", Tidy' PROVE SameRows(refs', current, k)
    <3>1. Tidy
      BY <2>2 DEF Tidy, Quietly
    <3>2. SameRows(refs, current, t.handle)
      BY <1>1, <1>3, <3>1 DEF VectorInv, RefsInv, SameVectors
    <3> QED BY <1>1, <1>3, <2>2, <3>2, SameRowsFollow
  <2>3. ASSUME x.at = "appending", Tidy' PROVE SameVectors(Target("import"))'
    <3>1. Target("import")' = [generation |-> current, handle |-> k]
      BY <1>4, <2>3 DEF Target
    <3>2. SameRows(refs', current, k)
      BY <2>2, <2>3
    <3> QED BY <3>1, <3>2 DEF SameVectors
  <2> QED BY <1>4, <2>1, <2>3 DEF RefsInv
<1>12. CurrentInv'
  <2> SUFFICES ASSUME Quiet' PROVE Reopens(generations'[current])
    BY DEF CurrentInv, Quietly
  <2> QED BY <1>6, SoundReopens
<1> QED BY <1>7, <1>8, <1>9, <1>10, <1>11, <1>12 DEF VectorInv, SyncInv

LEMMA AppendOneStep == ASSUME VectorInv, NEW r \in Syncs, AppendOne(r) PROVE VectorInv'
<1> DEFINE t == Target(r)
           g == generations[t.generation]
           h == t.handle
           s == Item(r)
<1>1. /\ Typed /\ Appending(r) /\ sync[r].at = "appending" /\ s \in Sources /\ ~HasVector(h, s)
      /\ sync[r].fresh \in BOOLEAN
  BY ItemTyped, SyncTyped DEF AppendOne, VectorInv
<1>2. /\ t.generation \in DOMAIN generations /\ h \in Handles
      /\ t = [generation |-> t.generation, handle |-> h]
      /\ g \in GenerationType /\ Kept(g, h.count)
      /\ r \in Routes /\ sync[r].fresh => Building(r)
      /\ r \in Routes /\ ~sync[r].fresh => t = serving /\ serving.generation # 0
      /\ r = "import" => /\ current # 0 /\ t.generation = current /\ serving = NoStore
                         /\ Sound(g, h) /\ g.state = "READY"
  BY <1>1, TargetFacts
<1>3. /\ UNCHANGED <<current, issue, blocked, legacy, phase, provider>>
  BY DEF AppendOne, InSync, server
<1>4. r \in Routes \/ (r = "import" /\ r \notin Routes /\ ~sync[r].fresh)
  <2>1. ~sync["import"].fresh
    BY DEF VectorInv, SyncInv, ImportInv
  <2>2. CASE r \in Routes
    BY <2>2
  <2>3. CASE r \notin Routes
    BY <2>1, <2>3 DEF Syncs
  <2> QED BY <2>2, <2>3
<1>5. h.count \in Nat /\ g.count \in Nat
  BY <1>2 DEF Handles, GenerationType
<1>6. WithCount(g, h, s).count > 0
  BY <1>1, <1>2, <1>5, CountWritten DEF Kept
\* The append succeeds.
<1>7. ASSUME NEW o \in AppendOutcomes(g, h, s, {}),
             generations' = [generations EXCEPT ![t.generation] = o.disk],
             Continue(r, o.handle, FALSE), Shared(r, o.handle),
             IF sync[r].fresh THEN UNCHANGED <<refs, history>> ELSE UpsertRef(r, o.handle)
      PROVE  VectorInv'
  <2> DEFINE d == o.disk
             k == o.handle
  <2>1. /\ d \in AppendCrashes(g, h, s) /\ k \in Handles /\ Kept(d, k.count)
        /\ d = WithCount(g, h, s) /\ k = Extended(h, s)
        /\ Sound(g, h) => Sound(d, k)
        /\ OwnRefs(g, h) => OwnRefs(d, k)
    BY <1>1, <1>2, OutcomeFacts
  <2>2. /\ Rewrites(t.generation, d) /\ FilesInv' /\ Grown /\ SameKind(d, g)
    BY <1>1, <1>7, <2>1, Writing
  <2>3. /\ \E x \in SyncType : SyncMoves(r, x)
        /\ sync'[r].at = sync[r].at /\ sync'[r].fresh = sync[r].fresh
        /\ sync'[r].target = [generation |-> sync[r].target.generation, handle |-> k]
        /\ mu' = mu
    BY <1>1, <1>7, <2>1, Continues
  <2>4. PICK x \in SyncType : SyncMoves(r, x)
    BY <2>3
  <2>5. /\ x.at = "appending" /\ x.fresh = sync[r].fresh
        /\ x.target = [generation |-> t.generation, handle |-> k] /\ mu' = mu
        /\ x.target.generation = t.generation /\ x.target.handle = k
    BY <1>1, <2>3, <2>4 DEF SyncMoves, Target
  <2>6. /\ glitches \subseteq glitches' /\ glitches' \subseteq Faults
        /\ ~sync[r].fresh => RowFollows(t.generation, h, k, s)
        /\ sync[r].fresh => UNCHANGED refs
    <3>1. CASE sync[r].fresh
      BY <1>1, <1>7, <3>1 DEF history, Typed
    <3>2. CASE ~sync[r].fresh
      <4>1. UpsertRef(r, k)
        BY <1>7, <3>2
      <4>2. CASE refs' = refs \cup {[generation |-> t.generation, line |-> k.refs[Len(k.refs)]]} /\ UNCHANGED history
        BY <1>1, <2>1, <3>2, <4>2 DEF history, Typed, RowFollows
      <4>3. CASE Glitch("index") /\ UNCHANGED refs
        BY <1>1, <2>1, <3>2, <4>3 DEF Glitch, Typed, RowFollows, Tidy
      <4> QED BY <4>1, <4>2, <4>3 DEF UpsertRef
    <3> QED BY <1>1, <3>1, <3>2
  <2>7. Quietly
    BY <1>3, <2>6 DEF Quietly
  <2> HIDE DEF d, k, t, g, h, s
  <2>8. CASE r \in Routes /\ sync[r].fresh
    <3>1. Sound(d, k)
      BY <1>2, <2>1, <2>8 DEF Building, t, g, h
    <3>2. UNCHANGED serving
      BY <1>7, <2>8 DEF Shared
    <3> QED BY <1>1, <2>2, <2>4, <2>5, <2>6, <2>7, <2>8, <3>1, <3>2, AppendToBuild DEF t, g
  <2>9. CASE r \in Routes /\ ~sync[r].fresh
    <3>1. t = serving /\ serving.generation # 0 /\ r # "import"
      BY <1>2, <2>9 DEF Routes
    <3>2. serving' = [serving EXCEPT !.handle = k]
      BY <1>7, <2>9, <3>1 DEF Shared, k
    <3>3. /\ Quiet => Sound(g, h)
          /\ "count" \notin glitches => OwnRefs(g, h)
      BY <3>1 DEF VectorInv, ServingInv, g, h, OwnRefs
    <3>4. Quiet' => Sound(d, k)
      BY <2>1, <2>6, <3>3 DEF Quiet
    <3>5. "count" \notin glitches' => OwnRefs(d, k)
      BY <2>1, <2>6, <3>3
    <3>6. d.count > 0
      BY <1>6, <2>1
    <3> QED BY <1>1, <2>1, <2>2, <2>4, <2>5, <2>6, <2>7, <2>9, <3>1, <3>2, <3>4, <3>5, <3>6,
               AppendToServing DEF g, h, s
  <2>10. CASE r = "import"
    <3>1. current # 0 /\ t.generation = current /\ Sound(d, k) /\ ~sync[r].fresh
      BY <1>2, <1>4, <2>1, <2>10 DEF Routes
    <3>2. UNCHANGED serving
      BY <1>7, <2>10 DEF Shared
    <3>3. d.count > 0
      BY <1>6, <2>1
    <3> QED BY <1>1, <2>1, <2>2, <2>4, <2>5, <2>6, <2>7, <2>10, <3>1, <3>2, <3>3,
               AppendToImport DEF t, g, h, s
  <2> QED BY <1>4, <1>1, <2>8, <2>9, <2>10
\* It fails somewhere.
<1>8. ASSUME NEW f \in Faults, Glitch(f), NEW o \in AppendOutcomes(g, h, s, {f}), ~o.ok,
             generations' = [generations EXCEPT ![t.generation] = o.disk],
             IF sync[r].fresh \/ r = "import" THEN GiveUp(r) ELSE Continue(r, o.handle, TRUE),
             Shared(r, o.handle), UNCHANGED refs
      PROVE  VectorInv'
  <2> DEFINE d == o.disk
             k == o.handle
  <2>1. /\ d \in AppendCrashes(g, h, s) /\ k \in Handles /\ Kept(d, k.count)
        /\ f \notin {"map", "count"} /\ Sound(g, h) => Sound(d, k)
        /\ f # "count" /\ OwnRefs(g, h) => OwnRefs(d, k)
        /\ f \notin {"manifest", "count"} => k = h
    <3>1. d \in AppendCrashes(g, h, s) /\ Fails(g, h, f, d, k)
      <4> HIDE DEF t, s, h, g
      <4>1. h \in Handles /\ Kept(g, h.count) /\ s \in Sources /\ ~HasVector(h, s) /\ ~o.ok
        BY <1>1, <1>2, <1>8
      <4> QED BY <4>1, FailedFacts
    <3> HIDE DEF t, s, h, g, d, k
    <3> QED BY <3>1 DEF Fails
  <2>2. /\ Rewrites(t.generation, d) /\ FilesInv' /\ Grown /\ SameKind(d, g)
    BY <1>1, <1>8, <2>1, Writing
  <2>3. glitches \subseteq glitches' /\ glitches' \subseteq Faults /\ f \in glitches'
    BY <1>1, <1>8 DEF Glitch, Typed
  <2>4. Quietly
    BY <1>3, <2>3 DEF Quietly
  <2>5. RowFollows(t.generation, h, k, s)
    BY <1>8, <2>1, <2>3 DEF RowFollows, Tidy
  <2>6. Quiet' /\ Sound(g, h) => Sound(d, k)
    BY <2>1, <2>3 DEF Quiet
  <2> HIDE DEF d, k, t, g, h, s
  <2>7. CASE sync[r].fresh \/ r = "import"
    <3> DEFINE x == [sync[r] EXCEPT !.at = "done", !.failed = TRUE]
    <3>1. GiveUp(r) /\ UNCHANGED serving
      BY <1>8, <2>7 DEF Shared
    <3>2. SyncMoves(r, x) /\ sync'[r].at = "done" /\ sync'[r].fresh = sync[r].fresh /\ mu' = "free"
      <4>1. Typed /\ GiveUp(r)
        BY <1>1, <3>1
      <4> QED BY <4>1, GivesUp
    <3> HIDE DEF x
    <3>3. x \in SyncType /\ x.at = "done" /\ x.fresh = sync[r].fresh
      BY <3>2 DEF SyncMoves
    <3>4. CASE r \in Routes
      <4>1. sync[r].fresh
        BY <2>7, <3>4 DEF Routes
      <4> QED BY <1>1, <1>8, <2>2, <2>4, <3>1, <3>2, <3>3, <3>4, <4>1, AppendToBuild DEF t, g
    <3>5. CASE r = "import"
      <4>1. current # 0 /\ t.generation = current /\ Sound(g, h) /\ ~sync[r].fresh
        BY <1>2, <1>4, <3>5 DEF Routes
      <4>2. Quiet' => Sound(d, k)
        BY <2>6, <4>1
      <4> QED BY <1>1, <1>8, <2>1, <2>2, <2>4, <2>5, <3>1, <3>2, <3>3, <3>5, <4>1, <4>2,
                 AppendToImport DEF t, g, h, s
    <3> QED BY <1>4, <3>4, <3>5
  <2>8. CASE ~sync[r].fresh /\ r # "import"
    <3>1. r \in Routes /\ t = serving /\ serving.generation # 0
      BY <1>2, <1>4, <2>8
    <3>2. Continue(r, k, TRUE) /\ serving' = [serving EXCEPT !.handle = k]
      BY <1>8, <2>8 DEF Shared, k
    <3>3. /\ \E x \in SyncType : SyncMoves(r, x)
          /\ sync'[r].at = sync[r].at /\ sync'[r].fresh = sync[r].fresh
          /\ sync'[r].target = [generation |-> sync[r].target.generation, handle |-> k]
          /\ mu' = mu
      BY <1>1, <2>1, <3>2, Continues
    <3>4. PICK x \in SyncType : SyncMoves(r, x)
      BY <3>3
    <3>5. /\ x.at = "appending" /\ ~x.fresh /\ mu' = mu
          /\ x.target = [generation |-> t.generation, handle |-> k]
      BY <1>1, <2>8, <3>3, <3>4 DEF SyncMoves, Target, t
    <3>6. /\ Quiet => Sound(g, h)
          /\ "count" \notin glitches => OwnRefs(g, h)
      BY <3>1 DEF VectorInv, ServingInv, g, h, OwnRefs
    <3>7. Quiet' => Sound(d, k)
      BY <2>3, <2>6, <3>6 DEF Quiet
    <3>8. "count" \notin glitches' => OwnRefs(d, k)
      BY <2>1, <2>3, <3>6
    <3>9. k = Extended(h, s) => d.count > 0
      <4>1. k = Extended(h, s) => d = WithCount(g, h, s)
        <5>1. Extended(h, s) # h /\ Extended(h, s) # Ahead(h)
          <6>1. h.count + 1 # h.count /\ Len(h.refs) + 1 # Len(h.refs)
            BY <1>1, <1>2, HandleMoves
          <6> QED BY <1>1, <1>2, <6>1, HandleMoves
        <5>2. o \in AppendOutcomes(g, h, s, {f})
          BY DEF g, h, s
        <5> QED BY <5>1, <5>2, OutcomeCases DEF Outcome, d, k
      <4> QED BY <1>6, <4>1 DEF g, h, s
    <3> QED BY <1>1, <2>1, <2>2, <2>4, <2>5, <2>8, <3>1, <3>2, <3>4, <3>5, <3>7, <3>8, <3>9,
               AppendToServing DEF g, h, s
  <2> QED BY <1>1, <2>7, <2>8
<1> QED BY <1>7, <1>8 DEF AppendOne

-----------------------------------------------------------------------------
(***************************************************************************)
(* Activate: a build becomes the generation CURRENT names.                 *)
(***************************************************************************)
\* What one handle puts into vector_refs.
LEMMA RefRowsTyped ==
  ASSUME NEW g \in Nat, NEW h \in Handles
  PROVE  /\ RefRows(g, h) \subseteq [generation : Nat, line : Lines]
         /\ \A row \in RefRows(g, h) : row.generation = g /\ h.refs # <<>>
<1>1. /\ h.refs \in Seq(Lines) /\ \A i \in DOMAIN h.refs : h.refs[i] \in Lines
      /\ (h.refs = <<>> => DOMAIN h.refs = {})
  BY LenProperties, EmptySeq DEF Handles
<1>2. \A i \in DOMAIN h.refs :
        [generation |-> g, line |-> h.refs[i]] \in [generation : Nat, line : Lines]
  BY <1>1
<1> QED BY <1>1, <1>2 DEF RefRows

LEMMA SameRowsAfresh ==
  ASSUME NEW table, NEW g, NEW h \in Handles, \A row \in table : row.generation # g
  PROVE  SameRows(table \cup RefRows(g, h), g, h)
<1>1. ASSUME NEW s \in Sources
      PROVE  HasVector(h, s) <=> \E row \in table \cup RefRows(g, h) : row.line.source = s /\ row.generation = g
  <2>1. ASSUME HasVector(h, s)
        PROVE  \E row \in table \cup RefRows(g, h) : row.line.source = s /\ row.generation = g
    <3>1. PICK i \in DOMAIN h.refs : h.refs[i].source = s
      BY <2>1 DEF HasVector
    <3> DEFINE row == [generation |-> g, line |-> h.refs[i]]
    <3>2. row \in RefRows(g, h)
      BY DEF RefRows
    <3>3. row.line.source = s /\ row.generation = g
      BY <3>1
    <3> QED BY <3>2, <3>3
  <2>2. ASSUME NEW row \in table \cup RefRows(g, h), row.line.source = s, row.generation = g
        PROVE  HasVector(h, s)
    <3>1. row \in RefRows(g, h)
      BY <2>2
    <3>2. PICK i \in DOMAIN h.refs : row = [generation |-> g, line |-> h.refs[i]]
      BY <3>1 DEF RefRows
    <3> QED BY <2>2, <3>2 DEF HasVector
  <2> QED BY <2>1, <2>2
<1> QED BY <1>1 DEF SameRows

LEMMA Selected ==
  ASSUME NEW g \in GenerationType, NEW h, Sound(g, h)
  PROVE  LET d == [g EXCEPT !.state = "READY"]
         IN  /\ d \in GenerationType /\ d.model = g.model /\ d.state = "READY" /\ d.count = g.count
             /\ Sound(d, h) /\ Laid(d) /\ Reopens(d)
<1> DEFINE d == [g EXCEPT !.state = "READY"]
<1>1. /\ d \in GenerationType /\ d.model = g.model /\ d.state = "READY" /\ d.count = g.count
      /\ d.records = g.records /\ d.map = g.map
  BY DEF GenerationType
<1> HIDE DEF d
<1>2. Sound(d, h)
  BY <1>1 DEF Sound
<1>3. h \in Handles /\ h.count \in Nat
  BY <1>2, SoundFacts
<1>4. Laid(d)
  BY <1>2, <1>3, SoundIsKept, KeptIsLaid
<1>5. Reopens(d)
  BY <1>1, <1>2, SoundReopens
<1> QED BY <1>1, <1>2, <1>4, <1>5 DEF d

LEMMA ActivateStep == ASSUME VectorInv, NEW r \in Routes, Activate(r) PROVE VectorInv'
<1> DEFINE t == Target(r)
           g == generations[t.generation]
           h == t.handle
           d == [g EXCEPT !.state = "READY"]
<1>1. r \in Syncs /\ Typed /\ sync[r].at = "appending" /\ sync[r].fresh
  BY DEF Activate, Appended, Syncs, VectorInv
<1>2. mu = r /\ phase = "up" /\ sync["import"].at = "idle" /\ \A q \in Routes \ {r} : mu # q
  BY <1>1, OnlyOne
<1>3. /\ t.generation \in DOMAIN generations /\ g \in GenerationType /\ Sound(g, h) /\ h \in Handles
      /\ t = [generation |-> t.generation, handle |-> h]
      /\ t.generation \notin {current, serving.generation}
      /\ \A row \in refs : row.generation # t.generation
  BY <1>1, TargetFacts DEF Building
<1>4. /\ d \in GenerationType /\ d.state = "READY" /\ d.count = g.count
      /\ Sound(d, h) /\ Laid(d) /\ Reopens(d)
  BY <1>3, Selected
<1>5. UNCHANGED <<blocked, legacy, phase, provider>>
  BY DEF Activate, InSync, server
<1>6. generations' = [generations EXCEPT ![t.generation] = d]
  BY <1>1, <1>3 DEF Activate, Select, Typed
<1>7. Rewrites(t.generation, d)
  <2> HIDE DEF d, t
  <2> QED BY <1>1, <1>3, <1>4, <1>6, Rewriting
<1>8. /\ current # 0 => current \in DOMAIN generations /\ generations'[current] = generations[current]
      /\ serving.generation # 0 => /\ serving.generation \in DOMAIN generations
                                   /\ generations'[serving.generation] = generations[serving.generation]
  BY <1>1, <1>3, <1>7, GenerationsTyped DEF Rewrites
<1>9. t.generation \in 1 .. Len(generations) /\ t.generation # 0 /\ Len(generations) \in Nat
      /\ t \in [generation : 0 .. Len(generations), handle : Handles]
  <2>1. t.generation \in 1 .. Len(generations) /\ Len(generations) \in Nat
    BY <1>1, <1>3, GenerationsTyped
  <2> QED BY <1>3, <2>1
<1>10. FilesInv'
  BY <1>4, <1>7 DEF FilesInv, VectorInv, Rewrites
<1>11. \E x \in SyncType : SyncMoves(r, x) /\ x.at = "done" /\ mu' = "free"
  <2>1. CASE GiveUp(r)
    <3> DEFINE x == [sync[r] EXCEPT !.at = "done", !.failed = TRUE]
    <3>1. SyncMoves(r, x) /\ sync'[r].at = "done" /\ mu' = "free"
      BY <1>1, <2>1, GivesUp
    <3> HIDE DEF x
    <3>2. x \in SyncType /\ x.at = "done"
      BY <1>1, <3>1 DEF SyncMoves
    <3> QED BY <3>1, <3>2
  <2>2. CASE sync' = [sync EXCEPT ![r].at = "done"] /\ mu' = "free"
    <3> DEFINE x == [sync[r] EXCEPT !.at = "done"]
    <3>1. sync' = [sync EXCEPT ![r] = x]
      BY <1>1, <2>2 DEF Typed
    <3>2. x \in SyncType /\ x.at = "done"
      BY <1>1, SyncTyped DEF SyncType, Steps
    <3> HIDE DEF x
    <3>3. SyncMoves(r, x)
      BY <1>1, <3>1, <3>2, Moves
    <3> QED BY <2>2, <3>2, <3>3
  <2> QED BY <2>1, <2>2 DEF Activate
<1>12. PICK x \in SyncType : SyncMoves(r, x) /\ x.at = "done" /\ mu' = "free"
  BY <1>11
<1>13. sync'[r] = x /\ sync'["import"] = sync["import"]
       /\ \A q \in Routes \ {r} : sync'[q] = sync[q] /\ mu' # q
  BY <1>12 DEF SyncMoves, Syncs, Routes
<1>14. ASSUME NEW q \in Routes PROVE RouteInv(q)'
  <2>1. CASE q = r
    BY <1>2, <1>5, <1>12, <1>13, <2>1 DEF RouteInv, Routes
  <2>2. CASE q # r
    BY <1>2, <1>5, <1>13, <1>14, <2>2, RouteRests DEF VectorInv, SyncInv
  <2> QED BY <2>1, <2>2
<1>15. ImportInv'
  BY <1>2, <1>5, <1>13, ImportRests DEF VectorInv, SyncInv
<1>16. ASSUME current' \in {current, t.generation}, issue' \in BOOLEAN, glitches' \subseteq Faults,
              serving' \in [generation : 0 .. Len(generations), handle : Handles],
              refs' \subseteq [generation : Nat, line : Lines]
       PROVE  Typed'
  <2>1. current' \in 0 .. Len(generations')
    BY <1>1, <1>7, <1>9, <1>16 DEF Typed, Rewrites
  <2>2. generations' \in Seq(GenerationType) /\ Len(generations') = Len(generations)
        /\ sync' \in [Syncs -> SyncType]
    BY <1>7, <1>12 DEF Rewrites, SyncMoves
  <2> QED BY <1>1, <1>5, <1>12, <1>16, <2>1, <2>2 DEF Typed
<1>17. ASSUME \A row \in refs' : row \in refs \/ row \in RefRows(t.generation, h)
       PROVE  RefsInv' /\ refs' \subseteq [generation : Nat, line : Lines]
  <2>1. RefRows(t.generation, h) \subseteq [generation : Nat, line : Lines]
        /\ \A row \in RefRows(t.generation, h) : row.generation = t.generation /\ h.refs # <<>>
    BY <1>3, <1>9, RefRowsTyped
  <2>2. h.refs # <<>> => d.count > 0
    <3>1. h.refs = g.map /\ Len(g.map) = g.count /\ g.count \in Nat /\ g.map \in Seq(Lines)
      BY <1>3, SoundFacts
    <3> HIDE DEF g, h, d
    <3> QED BY <1>4, <3>1, EmptySeq
  <2>3. ASSUME NEW row \in refs'
        PROVE  row.generation \in DOMAIN generations' /\ generations'[row.generation].count > 0
    <3>1. CASE row \in refs
      BY <1>3, <1>7, <3>1 DEF VectorInv, RefsInv, Rewrites
    <3>2. CASE row \in RefRows(t.generation, h)
      BY <1>3, <1>7, <2>1, <2>2, <3>2 DEF Rewrites
    <3> QED BY <1>17, <3>1, <3>2
  <2>4. refs' \subseteq [generation : Nat, line : Lines]
    BY <1>1, <1>17, <2>1 DEF Typed
  <2> QED BY <1>2, <1>13, <2>3, <2>4 DEF RefsInv
<1>18. generations'[t.generation] = d
  BY <1>7 DEF Rewrites
<1> HIDE DEF d, h, g
\* It is swapped in.
<1>19. ASSUME current' = t.generation, serving' = t, issue' = FALSE,
              \/ refs' = refs \cup RefRows(t.generation, t.handle) /\ UNCHANGED history
              \/ Glitch("index") /\ UNCHANGED refs
       PROVE  VectorInv'
  <2>1. glitches' \subseteq Faults
    BY <1>1, <1>19 DEF history, Glitch, Typed
  <2>2. RefsInv' /\ refs' \subseteq [generation : Nat, line : Lines]
    BY <1>17, <1>19 DEF h
  <2>3. Typed'
    BY <1>9, <1>16, <1>19, <2>1, <2>2
  <2>4. Tidy' => SameRows(refs', t.generation, h)
    <3>1. CASE refs' = refs \cup RefRows(t.generation, t.handle)
      BY <1>3, <3>1, SameRowsAfresh DEF h
    <3>2. CASE Glitch("index")
      BY <3>2 DEF Glitch, Tidy
    <3> QED BY <1>19, <3>1, <3>2
  <2>5. serving'.generation = t.generation /\ serving'.handle = h
    BY <1>19 DEF h
  <2>6. Kept(d, h.count) /\ OwnRefs(d, h)
    BY <1>4, SoundIsKept, OwnWhenSound
  <2>7. ServingInv'
    BY <1>4, <1>18, <2>4, <2>5, <2>6 DEF ServingInv, SameVectors, OwnRefs
  <2>8. CurrentInv'
    BY <1>4, <1>18, <1>19 DEF CurrentInv
  <2> QED BY <1>10, <1>14, <1>15, <2>2, <2>3, <2>7, <2>8 DEF VectorInv, SyncInv
\* Activate fails, before or after it wrote CURRENT.
<1>20. ASSUME Glitch("activate"), current' \in {current, t.generation}, UNCHANGED <<serving, issue, refs>>
       PROVE  VectorInv'
  <2>1. glitches' \subseteq Faults /\ glitches \subseteq glitches'
    BY <1>1, <1>20 DEF Glitch, Typed
  <2>2. RefsInv' /\ refs' \subseteq [generation : Nat, line : Lines]
    BY <1>17, <1>20
  <2>3. issue' \in BOOLEAN /\ serving' \in [generation : 0 .. Len(generations), handle : Handles]
    BY <1>1, <1>20 DEF Typed
  <2>4. Typed'
    BY <1>16, <1>20, <2>1, <2>2, <2>3
  <2>5. ServingInv'
    BY <1>8, <1>20, <2>1 DEF VectorInv, ServingInv, Quiet, Tidy, SameVectors
  <2>6. CurrentInv'
    BY <1>4, <1>8, <1>18, <1>20, <2>1 DEF VectorInv, CurrentInv, Quiet
  <2> QED BY <1>10, <1>14, <1>15, <2>2, <2>4, <2>5, <2>6 DEF VectorInv, SyncInv
<1> QED BY <1>19, <1>20 DEF Activate, t

-----------------------------------------------------------------------------
(***************************************************************************)
(* Starting, importing, stopping.                                          *)
(***************************************************************************)
\* Nothing runs while the process is down.
LEMMA DownIsIdle ==
  ASSUME VectorInv, phase = "down"
  PROVE  /\ serving = NoStore /\ serving.generation = 0
         /\ sync["import"].at = "idle" /\ ~sync["import"].fresh
         /\ \A q \in Routes : sync[q].at = "idle" /\ mu # q /\ RouteInv(q)
<1>1. \A q \in Routes : sync[q].at = "idle" /\ mu # q /\ RouteInv(q)
  BY DEF VectorInv, SyncInv, RouteInv
<1>2. serving = NoStore /\ sync["import"].at = "idle" /\ ~sync["import"].fresh
  BY DEF VectorInv, SyncInv, ImportInv
<1> QED BY <1>1, <1>2 DEF NoStore

LEMMA NoRows ==
  ASSUME NEW table, NEW g \in Nat, NEW h \in Handles, h.refs = <<>>, \A row \in table : row.generation # g
  PROVE  SameRows(table, g, h)
<1>1. RefRows(g, h) = {}
  BY RefRowsTyped
<1>2. table \cup RefRows(g, h) = table
  BY <1>1
<1> QED BY <1>2, SameRowsAfresh

LEMMA ImportDoneStep == ASSUME VectorInv, ImportDone PROVE VectorInv'
<1> DEFINE t == Target("import")
<1>1. "import" \in Syncs /\ Typed /\ sync["import"].at # "idle" /\ Idle \in SyncType /\ Idle.at = "idle"
      /\ ~Idle.fresh
  BY IdleTyped DEF ImportDone, Appended, Syncs, VectorInv, Idle
<1>2. /\ phase = "opening" /\ serving = NoStore /\ serving.generation = 0
      /\ \A q \in Routes : RouteInv(q) /\ sync[q].at = "idle" /\ mu # q
  BY <1>1 DEF VectorInv, SyncInv, ImportInv, RouteInv, NoStore
<1>3. UNCHANGED <<generations, current, legacy, refs, provider, glitches, phase, mu, blocked>>
  BY DEF ImportDone, InSync, disk, server, history
<1>4. SyncMoves("import", Idle)
  BY <1>1, Moves DEF ImportDone
<1>5. sync'["import"] = Idle /\ \A q \in Routes : sync'[q] = sync[q] /\ mu' # q
  BY <1>2, <1>3, <1>4 DEF SyncMoves, Syncs, Routes
<1>6. ASSUME NEW q \in Routes PROVE RouteInv(q)'
  BY <1>2, <1>3, <1>5, <1>6, RouteRests
<1>7. ImportInv'
  BY <1>1, <1>2, <1>3, <1>5 DEF ImportInv
<1>8. FilesInv' /\ RefsInv' /\ CurrentInv'
  BY <1>1, <1>3, <1>5 DEF VectorInv, FilesInv, RefsInv, CurrentInv, Quiet
<1>9. CASE Appended("import") /\ serving' = t /\ issue' = FALSE
  <2>1. sync["import"].at = "appending"
    BY <1>9 DEF Appended
  <2>2. /\ t.generation = current /\ current # 0 /\ t.generation \in DOMAIN generations
        /\ t.handle \in Handles /\ t = [generation |-> t.generation, handle |-> t.handle]
        /\ Sound(generations[t.generation], t.handle)
    BY <1>1, <2>1, TargetFacts
  <2>3. Tidy => SameVectors(t)
    BY <2>1 DEF VectorInv, RefsInv
  <2>4. Kept(generations[t.generation], t.handle.count) /\ OwnRefs(generations[t.generation], t.handle)
    BY <2>2, SoundIsKept, OwnWhenSound
  <2>5. current \in 0 .. Len(generations)
    BY <1>1 DEF Typed
  <2> HIDE DEF t
  <2>6. serving' \in [generation : 0 .. Len(generations), handle : Handles]
    BY <1>9, <2>2, <2>5
  <2>7. Typed'
    BY <1>1, <1>3, <1>4, <1>9, <2>6 DEF Typed, SyncMoves
  <2>8. ServingInv'
    BY <1>3, <1>9, <2>2, <2>3, <2>4 DEF ServingInv, Quiet, Tidy, SameVectors, OwnRefs
  <2> QED BY <1>6, <1>7, <1>8, <2>7, <2>8 DEF VectorInv, SyncInv
<1>10. CASE serving' = NoStore /\ issue' = TRUE
  <2>1. Typed'
    BY <1>1, <1>2, <1>3, <1>4, <1>10 DEF Typed, SyncMoves
  <2>2. ServingInv'
    BY <1>2, <1>10 DEF ServingInv
  <2> QED BY <1>6, <1>7, <1>8, <2>1, <2>2 DEF VectorInv, SyncInv
<1> QED BY <1>9, <1>10 DEF ImportDone, t

\* What every start does to the syncs: nothing.
LEMMA StartRests ==
  ASSUME VectorInv, phase = "down", phase' = "opening", UNCHANGED <<sync, mu>>
  PROVE  SyncInv'
<1>1. ASSUME NEW q \in Routes PROVE RouteInv(q)'
  BY <1>1, DownIsIdle DEF RouteInv
<1>2. ImportInv'
  BY DownIsIdle DEF ImportInv
<1> QED BY <1>1, <1>2 DEF SyncInv

LEMMA StartsWithoutStep == ASSUME VectorInv, StartsWithout PROVE VectorInv'
<1>1. phase = "down" /\ phase' = "opening" /\ current = 0 /\ Typed
  BY DEF StartsWithout, Starts, VectorInv
<1>2. UNCHANGED <<generations, current, legacy, refs, sync, mu, blocked>>
      /\ serving' = NoStore /\ issue' = FALSE /\ glitches' = {}
  BY DEF StartsWithout, Starts, server
<1>3. serving = NoStore /\ serving.generation = 0 /\ sync["import"].at = "idle"
  BY <1>1, DownIsIdle
<1>4. provider' \in [model : Models, dimensions : Dims]
  BY DEF StartsWithout, Starts, VectorInv, Typed
<1>5. Typed'
  BY <1>1, <1>2, <1>3, <1>4 DEF Typed
<1>6. SyncInv'
  BY <1>1, <1>2, StartRests
<1>7. FilesInv' /\ RefsInv' /\ CurrentInv' /\ ServingInv'
  BY <1>1, <1>2, <1>3 DEF VectorInv, FilesInv, RefsInv, CurrentInv, ServingInv
<1> QED BY <1>5, <1>6, <1>7 DEF VectorInv

LEMMA StartOpensStep == ASSUME VectorInv, StartOpens PROVE VectorInv'
<1> DEFINE g == generations[current]
           d == Recovered(g)
           h == HandleOf(g)
           usable == Opens(g) /\ g.state = "READY" /\ VerifySample(d, h)
<1>1. phase = "down" /\ phase' = "opening" /\ current # 0 /\ Typed
  BY DEF StartOpens, Starts, VectorInv
<1>2. UNCHANGED <<current, legacy, sync, mu, blocked>>
  BY DEF StartOpens, Starts, server
<1>3. /\ generations' = IF Opens(g) THEN [generations EXCEPT ![current] = d] ELSE generations
      /\ issue' = ~usable /\ glitches' = IF usable THEN {} ELSE glitches
      /\ serving' = IF usable THEN [generation |-> current, handle |-> h] ELSE NoStore
      /\ refs' = IF usable /\ g.count > 0
                   THEN {r \in refs : r.generation # current} \cup RefRows(current, h) ELSE refs
  BY DEF StartOpens
<1>4. serving = NoStore /\ serving.generation = 0 /\ sync["import"].at = "idle"
  BY <1>1, DownIsIdle
<1>5. provider' \in [model : Models, dimensions : Dims]
  BY DEF StartOpens, Starts, VectorInv, Typed
<1>6. current \in DOMAIN generations /\ current \in Nat /\ current \in 0 .. Len(generations)
  BY <1>1, GenerationsTyped DEF Typed
<1>7. g \in GenerationType /\ Laid(g)
  BY <1>1, <1>6, GenerationsTyped DEF VectorInv, FilesInv
<1>8. Opens(g) => /\ d \in GenerationType /\ SameKind(d, g) /\ d.count = g.count /\ Laid(d)
                  /\ h = [count |-> g.count, refs |-> d.map] /\ d.map \in Seq(Lines) /\ Len(d.map) = g.count
  <2> HIDE DEF g
  <2> QED BY <1>7, RecoveredFacts DEF d, h
<1>9. usable => Sound(d, h)
  <2> HIDE DEF g
  <2> QED BY <1>7, SampleSuffices DEF d, h
<1>10. Reopens(g) => usable
  BY DEF Reopens, VerifyAll, VerifySample
<1> HIDE DEF d, h, usable
<1>11. /\ generations' \in Seq(GenerationType) /\ Len(generations') = Len(generations)
       /\ DOMAIN generations' = DOMAIN generations
       /\ \A y \in DOMAIN generations \ {current} : generations'[y] = generations[y]
       /\ generations'[current] \in {g, d} /\ Laid(generations'[current])
       /\ generations'[current].count = g.count
       /\ Opens(g) => generations'[current] = d
  <2>1. CASE Opens(g)
    <3>1. Rewrites(current, d)
      BY <1>1, <1>3, <1>6, <1>8, <2>1, Rewriting
    <3> QED BY <1>8, <2>1, <3>1 DEF Rewrites
  <2>2. CASE ~Opens(g)
    BY <1>1, <1>3, <1>7, <2>2 DEF Typed
  <2> QED BY <2>1, <2>2
<1>12. FilesInv'
  BY <1>11 DEF FilesInv, VectorInv
<1>13. SyncInv'
  BY <1>1, <1>2, StartRests
<1>14. h \in Handles \/ ~usable
  BY <1>9, SoundFacts
<1>15. glitches' \subseteq Faults /\ issue' \in BOOLEAN
       /\ serving' \in [generation : 0 .. Len(generations), handle : Handles]
  <2>1. NoStore \in [generation : 0 .. Len(generations), handle : Handles]
    BY <1>1, <1>4 DEF Typed
  <2>2. glitches \subseteq Faults
    BY <1>1 DEF Typed
  <2>3. usable \in BOOLEAN
    BY DEF usable
  <2> QED BY <1>3, <1>6, <1>14, <2>1, <2>2, <2>3
<1>16. ASSUME NEW row \in refs'
       PROVE  /\ row \in [generation : Nat, line : Lines] /\ row.generation \in DOMAIN generations'
              /\ generations'[row.generation].count > 0
  <2>1. CASE row \in refs
    <3>1. row \in [generation : Nat, line : Lines] /\ row.generation \in DOMAIN generations
          /\ generations[row.generation].count > 0
      BY <1>1, <2>1 DEF VectorInv, RefsInv, Typed
    <3> QED BY <1>11, <3>1
  <2>2. CASE row \notin refs
    <3>1. usable /\ g.count > 0 /\ row \in RefRows(current, h)
      BY <1>3, <1>16, <2>2
    <3>2. row \in [generation : Nat, line : Lines] /\ row.generation = current
      BY <1>6, <1>14, <3>1, RefRowsTyped
    <3> QED BY <1>6, <1>11, <3>1, <3>2
  <2> QED BY <2>1, <2>2
<1>17. RefsInv'
  BY <1>2, <1>4, <1>16 DEF RefsInv
<1>18. Typed'
  <2>1. refs' \subseteq [generation : Nat, line : Lines]
    BY <1>16
  <2> QED BY <1>1, <1>2, <1>5, <1>11, <1>15, <2>1 DEF Typed
<1>19. CASE usable
  <2>1. Sound(d, h) /\ generations'[current] = d /\ d.state = "READY" /\ h \in Handles
    BY <1>8, <1>9, <1>11, <1>14, <1>19 DEF usable, SameKind
  <2>2. serving' = [generation |-> current, handle |-> h]
    BY <1>3, <1>19
  <2>3. SameRows(refs', current, h)
    <3>1. CASE g.count > 0
      <4> DEFINE others == {r \in refs : r.generation # current}
      <4>1. refs' = others \cup RefRows(current, h)
        BY <1>3, <1>19, <3>1
      <4>2. \A row \in others : row.generation # current
        OBVIOUS
      <4> HIDE DEF others
      <4> QED BY <2>1, <4>1, <4>2, SameRowsAfresh
    <3>2. CASE ~(g.count > 0)
      <4>1. refs' = refs /\ \A row \in refs : row.generation # current
        BY <1>3, <3>2 DEF VectorInv, RefsInv
      <4>2. h.refs = <<>>
        <5>1. h.refs = d.map /\ Len(d.map) = 0 /\ d.map \in Seq(Lines)
          BY <1>7, <1>8, <1>19, <3>2 DEF usable, GenerationType
        <5> QED BY <5>1, EmptySeq
      <4> QED BY <1>6, <2>1, <4>1, <4>2, NoRows
    <3> QED BY <3>1, <3>2
  <2>4. Kept(d, h.count) /\ OwnRefs(d, h)
    BY <2>1, SoundIsKept, OwnWhenSound
  <2>5. serving'.generation = current /\ serving'.handle = h
    BY <2>2
  <2>6. ServingInv'
    BY <2>1, <2>3, <2>4, <2>5 DEF ServingInv, SameVectors, OwnRefs
  <2>7. CurrentInv'
    BY <1>2, <2>1, SoundReopens DEF CurrentInv
  <2> QED BY <1>12, <1>13, <1>17, <1>18, <2>6, <2>7 DEF VectorInv
<1>20. CASE ~usable
  <2>1. ~Quiet
    BY <1>1, <1>10, <1>20 DEF VectorInv, CurrentInv
  <2>2. glitches' = glitches /\ serving' = NoStore
    BY <1>3, <1>20
  <2>3. CurrentInv' /\ ServingInv'
    BY <1>4, <2>1, <2>2 DEF CurrentInv, Quiet, ServingInv
  <2> QED BY <1>12, <1>13, <1>17, <1>18, <2>3 DEF VectorInv
<1> QED BY <1>19, <1>20

LEMMA StartImportsStep == ASSUME VectorInv, StartImports PROVE VectorInv'
<1>0. PICK e \in Embedders : generations' = Append(generations, NewGeneration(e.model, e.dimensions, "READY"))
  BY DEF StartImports
<1> DEFINE g == NewGeneration(e.model, e.dimensions, "READY")
           t == [generation |-> current', handle |-> EmptyHandle]
           x == [Idle EXCEPT !.at = "appending", !.queue = legacy, !.target = t]
<1>1. /\ phase = "down" /\ phase' = "opening" /\ Typed /\ current = 0 /\ current' = Len(generations')
      /\ generations' = Append(generations, g) /\ serving' = NoStore /\ issue' = FALSE /\ glitches' = {}
      /\ UNCHANGED <<legacy, refs, provider, mu, blocked>>
      /\ "import" \in Syncs
  BY <1>0 DEF StartImports, VectorInv, server, Syncs
<1>2. /\ serving = NoStore /\ serving.generation = 0
      /\ \A q \in Routes : sync[q].at = "idle" /\ mu # q /\ RouteInv(q)
  BY <1>1, DownIsIdle
<1>3. /\ g \in GenerationType /\ g.state = "READY" /\ Sound(g, EmptyHandle) /\ Laid(g)
  <2>1. e.model \in Models /\ e.dimensions \in Dims \cup {0}
    BY VectorAssumption
  <2> QED BY <2>1, FreshGeneration
<1> HIDE DEF g
<1>4. Adds(g)
  BY <1>1, <1>3, Adding
<1>5. /\ current' \in Nat /\ current' # 0 /\ current' \in DOMAIN generations'
      /\ current' \notin DOMAIN generations /\ generations'[current'] = g
      /\ current' \in 0 .. Len(generations') /\ Len(generations') \in Nat
  BY <1>1, <1>4, GenerationsTyped DEF Adds
<1>6. t \in [generation : Nat, handle : Handles] /\ t.generation = current' /\ t.handle = EmptyHandle
  BY <1>5, IdleTyped
<1>7. sync' = [sync EXCEPT !["import"] = x]
  BY DEF StartImports
<1> HIDE DEF t
<1>8. x \in SyncType /\ x.at = "appending" /\ ~x.fresh /\ x.target = t
  <2>1. legacy \in Seq(Sources) /\ Idle \in SyncType /\ ~Idle.fresh
    BY <1>1, IdleTyped DEF Typed, Idle
  <2> QED BY <1>6, <2>1 DEF SyncType, Steps
<1> HIDE DEF x
<1>9. SyncMoves("import", x)
  BY <1>1, <1>7, <1>8, Moves
<1>10. sync'["import"] = x /\ \A q \in Routes : sync'[q] = sync[q] /\ mu' # q
  BY <1>1, <1>2, <1>9 DEF SyncMoves, Syncs, Routes
<1>11. Typed'
  <2>1. serving' \in [generation : 0 .. Len(generations'), handle : Handles]
    BY <1>1, <1>5, IdleTyped
  <2>2. generations' \in Seq(GenerationType)
    BY <1>4 DEF Adds
  <2> QED BY <1>1, <1>5, <1>9, <2>1, <2>2 DEF Typed, SyncMoves
<1>12. FilesInv'
  BY <1>3, <1>4 DEF FilesInv, VectorInv, Adds
<1>13. ASSUME NEW q \in Routes PROVE RouteInv(q)'
  BY <1>2, <1>10, <1>13, RouteRests
<1>14. ImportInv'
  BY <1>1, <1>3, <1>5, <1>6, <1>8, <1>10 DEF ImportInv, Target
<1>15. ServingInv'
  BY <1>1, <1>2 DEF ServingInv
<1>16. RefsInv'
  <2>1. ASSUME NEW row \in refs'
        PROVE  /\ row.generation \in DOMAIN generations' /\ generations'[row.generation].count > 0
               /\ row.generation # current'
    BY <1>1, <1>4, <1>5 DEF VectorInv, RefsInv, Adds
  <2>2. SameRows(refs', current', EmptyHandle)
    BY <1>5, <2>1, IdleTyped, NoRows
  <2>3. SameVectors(Target("import"))'
    BY <1>6, <1>8, <1>10, <2>2 DEF SameVectors, Target
  <2> QED BY <2>1, <2>3 DEF RefsInv
<1>17. CurrentInv'
  BY <1>3, <1>5, SoundReopens DEF CurrentInv
<1> QED BY <1>11, <1>12, <1>13, <1>14, <1>15, <1>16, <1>17 DEF VectorInv, SyncInv

LEMMA Dying ==
  ASSUME VectorInv, Die, UNCHANGED current, FilesInv', CurrentInv', Grown,
         generations' \in Seq(GenerationType), Len(generations') = Len(generations)
  PROVE  VectorInv'
<1>1. /\ Typed /\ phase' = "down" /\ serving' = NoStore /\ issue' = FALSE /\ blocked' = FALSE
      /\ mu' = "free" /\ sync' = [r \in Syncs |-> Idle] /\ UNCHANGED <<legacy, refs, provider, glitches>>
  BY DEF Die, VectorInv
<1>2. Idle.at = "idle" /\ ~Idle.fresh /\ NoStore.generation = 0
  BY DEF Idle, NoStore
<1>3. \A r \in Syncs : sync'[r] = Idle
  BY <1>1
<1>4. Routes \subseteq Syncs /\ "import" \in Syncs /\ "free" \notin Routes
  BY DEF Routes, Syncs
<1>5. Typed'
  <2>1. 0 \in 0 .. Len(generations)
    BY <1>1, GenerationsTyped
  <2>2. serving' \in [generation : 0 .. Len(generations'), handle : Handles]
    BY <1>1, <2>1, IdleTyped DEF NoStore
  <2>3. sync' \in [Syncs -> SyncType]
    BY <1>1, IdleTyped
  <2> QED BY <1>1, <2>2, <2>3 DEF Typed
<1>6. ASSUME NEW q \in Routes PROVE RouteInv(q)'
  BY <1>1, <1>2, <1>3, <1>4 DEF RouteInv
<1>7. ImportInv'
  BY <1>1, <1>2, <1>3, <1>4 DEF ImportInv
<1>8. ServingInv'
  BY <1>1, <1>2 DEF ServingInv
<1>9. RefsInv'
  BY <1>1, <1>2, <1>3, <1>4 DEF VectorInv, RefsInv, Grown
<1> QED BY <1>5, <1>6, <1>7, <1>8, <1>9 DEF VectorInv, SyncInv

LEMMA CrashStep == ASSUME VectorInv, Crash PROVE VectorInv'
<1>1. Die /\ UNCHANGED <<generations, current, glitches>>
  BY DEF Crash, disk, Die
<1>2. FilesInv' /\ CurrentInv'
  BY <1>1 DEF VectorInv, FilesInv, CurrentInv, Quiet
<1>3. Grown
  BY <1>1 DEF Grown, SameKind
<1>4. generations' \in Seq(GenerationType) /\ Len(generations') = Len(generations)
  BY <1>1 DEF VectorInv, Typed
<1> QED BY <1>1, <1>2, <1>3, <1>4, Dying

LEMMA CrashInAppendStep == ASSUME VectorInv, NEW r \in Syncs, CrashInAppend(r) PROVE VectorInv'
<1> DEFINE t == Target(r)
           g == generations[t.generation]
           h == t.handle
           s == Item(r)
<1>1. /\ Typed /\ Appending(r) /\ sync[r].at = "appending" /\ s \in Sources
      /\ ~HasVector(h, s) /\ Die /\ UNCHANGED <<current, glitches>>
  BY ItemTyped DEF CrashInAppend, VectorInv, Die
<1>2. PICK d \in AppendCrashes(g, h, s) : generations' = [generations EXCEPT ![t.generation] = d]
  BY DEF CrashInAppend
<1>3. Rewrites(t.generation, d) /\ FilesInv' /\ Grown /\ SameKind(d, g)
  BY <1>1, <1>2, Writing
<1>4. /\ t.generation \in DOMAIN generations
      /\ r \in Routes /\ sync[r].fresh => Building(r)
      /\ r \in Routes /\ ~sync[r].fresh => t = serving /\ serving.generation # 0
      /\ r = "import" => t.generation = current /\ Sound(g, h)
  BY <1>1, TargetFacts
<1>5. ASSUME current # 0, Quiet, current = t.generation
      PROVE  Sound(g, h) /\ g.state = "READY"
  <2>1. Reopens(g)
    BY <1>5 DEF VectorInv, CurrentInv
  <2>2. Sound(g, h)
    <3>1. CASE r \in Routes
      <4>1. ~sync[r].fresh
        BY <1>4, <1>5, <3>1 DEF Building
      <4>2. t = serving /\ serving.generation # 0
        BY <1>4, <3>1, <4>1
      <4> QED BY <1>5, <4>2 DEF VectorInv, ServingInv
    <3>2. CASE r = "import"
      BY <1>4, <3>2
    <3> QED BY <3>1, <3>2 DEF Syncs
  <2> QED BY <2>1, <2>2 DEF Reopens
<1> HIDE DEF t, g, h, s
<1>6. CurrentInv'
  <2> SUFFICES ASSUME current # 0, Quiet PROVE Reopens(generations'[current])
    BY <1>1 DEF CurrentInv, Quiet
  <2>1. current \in DOMAIN generations
    BY <1>1, GenerationsTyped
  <2>2. CASE current = t.generation
    <3>1. Sound(g, h) /\ g.state = "READY"
      BY <1>5, <2>2
    <3>2. Reopens(d)
      BY <1>1, <1>2, <3>1, ReopensAfterCrash
    <3> QED BY <1>3, <2>2, <3>2 DEF Rewrites
  <2>3. CASE current # t.generation
    BY <1>3, <2>1, <2>3 DEF Rewrites, VectorInv, CurrentInv
  <2> QED BY <2>2, <2>3
<1> QED BY <1>1, <1>3, <1>6, Dying DEF Rewrites

-----------------------------------------------------------------------------
(***************************************************************************)
(* Every step.                                                             *)
(***************************************************************************)
\* The actions by name, each with the syncs it is of.
LEMMA NextCases ==
  ASSUME Next
  PROVE  \/ StartOpens \/ StartsWithout \/ StartImports \/ Serve \/ Crash
         \/ \E r \in Syncs : CrashInAppend(r)
         \/ \E s \in Sources : Remember(s)
         \/ Drift \/ Admit \/ Rebuild
         \/ \E r \in Routes : Plan(r)
         \/ \E r \in Routes : Embedded(r) \/ Begin(r) \/ RowChanged(r) \/ AppendKnown(r)
                              \/ Activate(r) \/ Synced(r) \/ Return(r)
         \/ \E r \in Syncs : AppendOne(r)
         \/ RowSkipped \/ ImportDone
         \/ InQuery
<1>1. "embed" \in Routes /\ Routes \subseteq Syncs /\ "import" \in Syncs
  BY DEF Routes, Syncs
<1>2. ASSUME NEW r \in Routes, SyncStep(r)
      PROVE  \/ Plan(r) \/ AppendOne(r)
             \/ Embedded(r) \/ Begin(r) \/ RowChanged(r) \/ AppendKnown(r)
             \/ Activate(r) \/ Synced(r) \/ Return(r)
  BY <1>2 DEF SyncStep
<1>3. ASSUME ImportStep PROVE AppendOne("import") \/ RowSkipped \/ ImportDone
  BY <1>3 DEF ImportStep
<1>4. ASSUME (\E q \in Queries : Ask(q)) \/ AskEmbedded \/ Search \/ Answer PROVE InQuery
  BY <1>4 DEF Ask, AskEmbedded, Search, Answer
<1> QED BY <1>1, <1>2, <1>3, <1>4 DEF Next

LEMMA VectorStep == ASSUME VectorInv, RowsInv, Next PROVE VectorInv'
<1>1. ASSUME NEW r \in Routes,
             Embedded(r) \/ Begin(r) \/ RowChanged(r) \/ AppendKnown(r)
               \/ Activate(r) \/ Synced(r) \/ Return(r)
      PROVE  VectorInv'
  BY <1>1, EmbeddedStep, BeginStep, RowChangedStep, AppendKnownStep, ActivateStep, SyncedStep, ReturnStep
<1>2. ASSUME NEW r \in Routes, Plan(r) PROVE VectorInv'
  BY <1>2, PlanStep
<1>3. ASSUME NEW r \in Syncs, AppendOne(r) \/ CrashInAppend(r) PROVE VectorInv'
  BY <1>3, AppendOneStep, CrashInAppendStep
<1>4. ASSUME StartOpens \/ StartsWithout \/ StartImports \/ Serve \/ Crash PROVE VectorInv'
  BY <1>4, StartOpensStep, StartsWithoutStep, StartImportsStep, ServeStep, CrashStep
<1>5. ASSUME (\E s \in Sources : Remember(s)) \/ Drift \/ Admit \/ Rebuild PROVE VectorInv'
  BY <1>5, RememberStep, DriftStep, AdmitStep, RebuildStep
<1>6. ASSUME RowSkipped \/ ImportDone \/ InQuery PROVE VectorInv'
  BY <1>6, RowSkippedStep, ImportDoneStep, QueryStep
<1> QED BY <1>1, <1>2, <1>3, <1>4, <1>5, <1>6, NextCases

LEMMA RowsStep == ASSUME RowsInv, Next PROVE RowsInv'
<1>1. ASSUME UNCHANGED rows PROVE RowsInv'
  BY <1>1 DEF RowsInv, Eligible
<1>2. ASSUME NEW s \in Sources, Remember(s) PROVE RowsInv'
  <2> DEFINE old == {y \in Sources : Eligible(y)}
             new == {y \in Sources : Eligible(y)'}
  <2>1. \/ rows' = [rows EXCEPT ![s] = "ACTIVE"]
        \/ rows' = [rows EXCEPT ![s] = "RETIRED"]
    BY <1>2 DEF Remember
  <2>2. rows' \in [Sources -> {"none", "ACTIVE", "RETIRED"}] /\ new \subseteq old \cup {s}
    BY <2>1 DEF RowsInv, Eligible
  <2>3. IsFiniteSet(old)
    BY DEF RowsInv
  <2>4. IsFiniteSet(old \cup {s})
    BY <2>3, FS_AddElement
  <2>5. IsFiniteSet(new)
    BY <2>2, <2>4, FS_Subset
  <2> QED BY <2>2, <2>5 DEF RowsInv
<1>3. \/ UNCHANGED rows
      \/ \E s \in Sources : Remember(s)
  BY NextCases DEF StartOpens, StartsWithout, StartImports, Starts, Serve, Crash, CrashInAppend, Die,
     Drift, Admit, Rebuild, Plan, Embedded, Begin, RowChanged, AppendKnown, Activate, Synced, Return,
     AppendOne, RowSkipped, ImportDone, InSync, InQuery
<1> QED BY <1>1, <1>2, <1>3

LEMMA StoreStep == ASSUME VectorInv, StoreInv, Next PROVE StoreInv'
<1>1. ASSUME UNCHANGED serving \/ serving' = NoStore \/ serving'.generation # 0 PROVE StoreInv'
  BY <1>1 DEF StoreInv
<1>2. Typed
  BY DEF VectorInv
<1>3. ASSUME NEW r \in Syncs, AppendOne(r) PROVE UNCHANGED serving \/ serving'.generation # 0
  <2>1. \/ UNCHANGED serving
        \/ \E k : ~(sync[r].fresh \/ r = "import") /\ serving' = [serving EXCEPT !.handle = k]
    BY <1>3 DEF AppendOne, Shared
  <2>2. CASE \E k : ~(sync[r].fresh \/ r = "import") /\ serving' = [serving EXCEPT !.handle = k]
    <3>1. r \in Routes /\ ~sync[r].fresh /\ sync[r].at = "appending"
      BY <1>3, <2>2 DEF Syncs, AppendOne, Appending
    <3>2. serving.generation # 0
      BY <3>1, TargetFacts
    <3>3. serving'.generation = serving.generation
      BY <1>2, <2>2, GenerationsTyped
    <3> QED BY <3>2, <3>3
  <2> QED BY <2>1, <2>2
<1>4. ASSUME NEW r \in Syncs, UNCHANGED serving \/ serving' = Target(r), sync[r].at = "appending"
      PROVE  UNCHANGED serving \/ serving'.generation # 0
  BY <1>2, <1>4, TargetFacts, GenerationsTyped
<1>5. ASSUME NEW r \in Routes, Activate(r) PROVE UNCHANGED serving \/ serving'.generation # 0
  <2>1. r \in Syncs /\ sync[r].at = "appending" /\ (UNCHANGED serving \/ serving' = Target(r))
    BY <1>5 DEF Activate, Appended, Syncs
  <2> QED BY <2>1, <1>4
<1>6. ASSUME ImportDone PROVE UNCHANGED serving \/ serving' = NoStore \/ serving'.generation # 0
  <2>1. CASE Appended("import") /\ serving' = Target("import")
    BY <1>4, <2>1 DEF Appended, Syncs
  <2> QED BY <1>6, <2>1 DEF ImportDone
<1>7. ASSUME StartOpens \/ StartsWithout \/ StartImports
      PROVE  serving' = NoStore \/ serving'.generation # 0
  BY <1>7 DEF StartOpens, StartsWithout, StartImports
<1>8. ASSUME NEW r \in Routes,
             Embedded(r) \/ Begin(r) \/ RowChanged(r) \/ AppendKnown(r) \/ Synced(r) \/ Return(r) \/ Plan(r)
      PROVE  UNCHANGED serving
  BY <1>8 DEF Embedded, Begin, RowChanged, AppendKnown, Synced, Return, Plan
<1>9. ASSUME Serve \/ Drift \/ Admit \/ Rebuild \/ RowSkipped \/ InQuery \/ \E s \in Sources : Remember(s)
      PROVE  UNCHANGED serving
  BY <1>9 DEF Serve, Drift, Admit, Rebuild, RowSkipped, InQuery, Remember
<1>10. ASSUME Crash \/ \E r \in Syncs : CrashInAppend(r) PROVE serving' = NoStore
  BY <1>10 DEF Crash, CrashInAppend, Die
<1> QED BY <1>1, <1>3, <1>5, <1>6, <1>7, <1>8, <1>9, <1>10, NextCases

LEMMA VectorInitially == Init => VectorInv /\ RowsInv /\ StoreInv
<1> SUFFICES ASSUME Init PROVE VectorInv /\ RowsInv /\ StoreInv
  OBVIOUS
<1>1. /\ generations = <<>> /\ current = 0 /\ legacy \in Seq(Sources) /\ phase = "down"
      /\ serving = NoStore /\ issue = FALSE /\ refs = {} /\ provider \in [model : Models, dimensions : Dims]
      /\ blocked = FALSE /\ mu = "free" /\ sync = [r \in Syncs |-> Idle] /\ glitches = {}
  BY VectorAssumption DEF Init
<1>2. generations \in Seq(GenerationType) /\ DOMAIN generations = {} /\ Len(generations) = 0
  BY <1>1, EmptySeq
<1>3. Idle.at = "idle" /\ ~Idle.fresh /\ NoStore.generation = 0 /\ "import" \in Syncs
      /\ Routes \subseteq Syncs /\ "free" \notin Routes
  BY DEF Idle, NoStore, Syncs, Routes
<1>4. Typed
  <2>1. serving \in [generation : 0 .. Len(generations), handle : Handles]
    BY <1>1, <1>2, IdleTyped DEF NoStore
  <2>2. sync \in [Syncs -> SyncType]
    BY <1>1, IdleTyped
  <2>3. current \in 0 .. Len(generations) /\ refs \subseteq [generation : Nat, line : Lines]
        /\ glitches \subseteq Faults
    BY <1>1, <1>2
  <2>5. issue \in BOOLEAN /\ blocked \in BOOLEAN
    BY <1>1
  <2>4. phase \in {"down", "opening", "up"} /\ mu \in Routes \cup {"free"} /\ legacy \in Seq(Sources)
        /\ provider \in [model : Models, dimensions : Dims] /\ generations \in Seq(GenerationType)
    BY <1>1, <1>2
  <2> QED BY <2>1, <2>2, <2>3, <2>4, <2>5 DEF Typed
<1>5. SyncInv
  BY <1>1, <1>3 DEF SyncInv, RouteInv, ImportInv
<1>6. FilesInv /\ ServingInv /\ RefsInv /\ CurrentInv /\ StoreInv
  BY <1>1, <1>2, <1>3 DEF FilesInv, ServingInv, RefsInv, CurrentInv, StoreInv
<1>7. RowsInv
  <2>1. rows = [s \in Sources |-> CASE s \in FirstSources -> "ACTIVE"
                                    [] s \notin FirstSources /\ s \in Named(legacy) -> "RETIRED"
                                    [] OTHER -> "none"]
    BY DEF Init
  <2>2. ASSUME NEW s \in Sources
        PROVE  rows[s] \in {"none", "ACTIVE", "RETIRED"} /\ (Eligible(s) => s \in FirstSources)
    BY <2>1 DEF Eligible
  <2>3. rows \in [Sources -> {"none", "ACTIVE", "RETIRED"}]
    BY <2>1, <2>2
  <2>4. {s \in Sources : Eligible(s)} \subseteq FirstSources
    BY <2>2
  <2>5. IsFiniteSet({s \in Sources : Eligible(s)})
    BY <2>4, VectorAssumption, FS_Subset
  <2> QED BY <2>3, <2>5 DEF RowsInv
<1> QED BY <1>4, <1>5, <1>6, <1>7 DEF VectorInv

LEMMA VectorIdle ==
  ASSUME VectorInv, RowsInv, StoreInv, UNCHANGED vars
  PROVE  VectorInv' /\ RowsInv' /\ StoreInv'
<1>1. InQuery /\ UNCHANGED <<rows, serving>>
  BY DEF vars, InQuery, disk, server, history
<1>2. RowsInv' /\ StoreInv'
  BY <1>1 DEF RowsInv, Eligible, StoreInv
<1> QED BY <1>1, <1>2, QueryStep

\* The invariant of every behaviour.
THEOREM VectorsKept == Spec => [](VectorInv /\ RowsInv /\ StoreInv)
<1>1. VectorInv /\ RowsInv /\ StoreInv /\ [Next]_vars => VectorInv' /\ RowsInv' /\ StoreInv'
  BY VectorStep, RowsStep, StoreStep, VectorIdle
<1> QED BY <1>1, VectorInitially, PTL DEF Spec

(***************************************************************************)
(* Whatever moment the process dies at, openCurrent finds the generation   *)
(* CURRENT names readable and every committed vector beside its own source *)
(* (vectorstore recoverLocked and Verify), unless an Append failed in its  *)
(* map line or its count and the process went on.                          *)
(***************************************************************************)
THEOREM CurrentOpensAgain == Spec => []CurrentReopens
<1>1. VectorInv => CurrentReopens
  BY DEF VectorInv, CurrentInv, Quiet, Reopens, CurrentReopens
<1> QED BY <1>1, VectorsKept, PTL

(***************************************************************************)
(* What SyncVectors and openCurrent put into vector_refs is what the open  *)
(* store holds: a vector that VectorStatus counts as present is one that   *)
(* resolveVectorRefs finds, whenever nobody holds Store.mu.                *)
(***************************************************************************)
THEOREM PresentIsFound == Spec => []PresentIsFindable
<1>1. ASSUME VectorInv, StoreInv, Tidy, NEW s \in Sources
      PROVE  HasVector(serving.handle, s) <=> Resolvable(s)
  <2>1. CASE serving.generation # 0
    BY <1>1, <2>1 DEF VectorInv, ServingInv, SameVectors, SameRows, Resolvable
  <2>2. CASE serving.generation = 0
    <3>1. ~HasVector(serving.handle, s)
      <4>1. serving.handle.refs = <<>>
        BY <1>1, <2>2, IdleTyped DEF StoreInv, NoStore
      <4> QED BY <4>1 DEF HasVector
    <3>2. ~Resolvable(s)
      <4>1. 0 \notin DOMAIN generations
        BY <1>1, GenerationsTyped DEF VectorInv
      <4> QED BY <1>1, <2>2, <4>1 DEF VectorInv, RefsInv, Resolvable
    <3> QED BY <3>1, <3>2
  <2> QED BY <2>1, <2>2
<1>2. VectorInv /\ StoreInv => PresentIsFindable
  BY <1>1 DEF PresentIsFindable, Tidy
<1> QED BY <1>2, VectorsKept, PTL

-----------------------------------------------------------------------------
(***************************************************************************)
(* The query path: its cache, and the model of what it compares.           *)
(***************************************************************************)
LEMMA NoQueryTyped ==
  /\ NoQuery \in QueryType /\ NoQuery.at = "idle"
  /\ \A m : EmptyCache \in CacheOf(m)
<1>1. <<>> \in Seq({})
  BY EmptySeq
<1>2. \A m : <<>> \in Seq([text : Texts, vector : VectorsOf(m)])
  BY EmptySeq
<1>3. \A m : EmptyCache \in CacheOf(m)
  BY <1>2 DEF EmptyCache, CacheOf
<1>4. NoQuery \in QueryType /\ NoQuery.at = "idle"
  BY DEF NoQuery, QueryType, NoVector, Texts
<1> QED BY <1>3, <1>4

LEMMA WithoutTyped ==
  ASSUME NEW S, NEW entries \in Seq(S), NEW q
  PROVE  Without(entries, q) \in Seq(S)
<1> DEFINE at == {i \in DOMAIN entries : entries[i].text = q}
           i == CHOOSE j \in at : TRUE
           n == Len(entries)
<1>1. n \in Nat /\ DOMAIN entries = 1 .. n /\ \A j \in 1 .. n : entries[j] \in S
  BY LenProperties
<1>2. CASE at = {}
  BY <1>2 DEF Without
<1>3. CASE at # {}
  <2>1. i \in 1 .. n
    BY <1>1, <1>3
  <2>2. Without(entries, q) = SubSeq(entries, 1, i - 1) \o SubSeq(entries, i + 1, n)
    BY <1>3 DEF Without
  <2> HIDE DEF i
  <2>3. i - 1 \in Int /\ i + 1 \in Int /\ n \in Int /\ 1 \in Int
        /\ (\A j \in 1 .. i - 1 : entries[j] \in S) /\ (\A j \in i + 1 .. n : entries[j] \in S)
    BY <1>1, <2>1
  <2> HIDE DEF n
  <2>4. SubSeq(entries, 1, i - 1) \in Seq(S)
    BY <2>3, SubSeqProperties
  <2>5. SubSeq(entries, i + 1, n) \in Seq(S)
    BY <2>3, SubSeqProperties
  <2> QED BY <2>2, <2>4, <2>5, ConcatProperties
<1> QED BY <1>2, <1>3

LEMMA CachePutTyped ==
  ASSUME NEW m, NEW c \in CacheOf(m), NEW q \in Texts, NEW v \in VectorsOf(m)
  PROVE  CachePut(c, q, v) \in CacheOf(m)
<1> DEFINE S == [text : Texts, vector : VectorsOf(m)]
           e == [text |-> q, vector |-> v]
           es == <<e>> \o Without(c.entries, q)
           n == IF Len(es) < Capacity THEN Len(es) ELSE Capacity
<1>1. c.entries \in Seq(S) /\ e \in S
  BY DEF CacheOf
<1>2. <<e>> \in Seq(S)
  BY <1>1
<1>3. Without(c.entries, q) \in Seq(S)
  BY <1>1, WithoutTyped
<1>4. es \in Seq(S)
  BY <1>2, <1>3, ConcatProperties
<1>5. CachePut(c, q, v) = [c EXCEPT !.entries = SubSeq(es, 1, n)]
  BY DEF CachePut
<1> HIDE DEF S, es
<1>6. n \in 0 .. Len(es)
  BY <1>4, VectorAssumption, LenProperties
<1>7. SubSeq(es, 1, n) \in Seq(S)
  BY <1>4, <1>6, Prefixes
<1> QED BY <1>5, <1>7 DEF CacheOf, S

LEMMA ForGenerationTyped ==
  ASSUME NEW m, NEW c \in CacheOf(m), NEW g \in Nat
  PROVE  ForGeneration(c, g) \in CacheOf(m)
BY EmptySeq DEF ForGeneration, CacheOf

LEMMA CacheGetTyped ==
  ASSUME NEW m, NEW c \in CacheOf(m), NEW q
  PROVE  CacheGet(c, q) \subseteq VectorsOf(m)
<1> DEFINE S == [text : Texts, vector : VectorsOf(m)]
           es == c.entries
<1>1. es \in Seq(S)
  BY DEF CacheOf
<1>2. \A e \in S : e.vector \in VectorsOf(m)
  OBVIOUS
<1> HIDE DEF S, es
<1>3. \A i \in DOMAIN es : es[i] \in S
  BY <1>1, LenProperties
<1>4. \A i \in DOMAIN es : es[i].vector \in VectorsOf(m)
  BY <1>2, <1>3
<1> QED BY <1>4 DEF CacheGet, es

\* While the process is not up, there is no query.
LEMMA NoQueryYet ==
  ASSUME QueryInv, phase # "up", UNCHANGED <<query, cache>>,
         phase' = "up" /\ serving'.generation # 0 /\ ~blocked' => SameModel'
  PROVE  QueryInv'
<1>1. query' = NoQuery /\ cache' = EmptyCache
  BY DEF QueryInv
<1> QED BY <1>1, NoQueryTyped DEF QueryInv

LEMMA QueryDies == ASSUME Die PROVE QueryInv'
<1>1. query' = NoQuery /\ cache' = EmptyCache /\ phase' = "down"
  BY DEF Die
<1> QED BY <1>1, NoQueryTyped DEF QueryInv

\* While it is up, generations keep their models.
LEMMA QueryRests ==
  ASSUME Typed, QueryInv, UNCHANGED <<query, cache, phase>>, provider'.model = provider.model,
         glitches \subseteq glitches', DOMAIN generations \subseteq DOMAIN generations',
         \A y \in DOMAIN generations : generations'[y].model = generations[y].model,
         \/ /\ serving'.generation = serving.generation
            /\ blocked' = blocked \/ (serving'.generation # 0 /\ ~blocked' => SameModel')
         \/ serving'.generation # 0 /\ SameModel'
  PROVE  QueryInv'
<1>1. serving.generation # 0 => serving.generation \in DOMAIN generations
  BY GenerationsTyped
<1>2. ASSUME serving'.generation = serving.generation, SameModel PROVE SameModel'
  BY <1>1, <1>2 DEF SameModel
<1>3. phase' = "up" /\ serving'.generation # 0 /\ (~blocked' \/ query'.at # "idle") => SameModel'
  BY <1>2 DEF QueryInv
<1>4. query'.at = "resolving" =>
        /\ query'.generation \in DOMAIN generations'
        /\ generations'[query'.generation].model = provider'.model
        /\ "count" \notin glitches' => \A c \in query'.candidates : c.vector = c.source
  BY DEF QueryInv
<1>5. query' \in QueryType /\ cache' \in CacheOf(provider'.model)
  BY DEF QueryInv
<1>6. query'.at # "idle" => serving'.generation # 0
  BY DEF QueryInv
<1>7. /\ phase' # "up" => query' = NoQuery /\ cache' = EmptyCache
      /\ query'.at \in {"searching", "resolving"} => query'.vector.model = provider'.model
  BY DEF QueryInv
<1> QED BY <1>3, <1>4, <1>5, <1>6, <1>7 DEF QueryInv

\* A status that lets searches through found the model of the provider.
LEMMA RefreshBlocks ==
  ASSUME Refresh, issue \in BOOLEAN, serving.generation # 0, ~blocked'
  PROVE  SameModel
<1>1. Assess.state # "ACTION_REQUIRED"
  BY DEF Refresh
<1> SUFFICES ASSUME ~SameModel PROVE FALSE
  OBVIOUS
<1>2. CASE issue
  <2>1. Assess = Incident("ACTION_REQUIRED", "VECTOR_GENERATION_CORRUPT")
    BY <1>2 DEF Assess
  <2> QED BY <1>1, <2>1 DEF Incident
<1>3. CASE ~issue
  <2>1. Assess = Incident("ACTION_REQUIRED", "EMBEDDING_MODEL_MISMATCH")
    BY <1>3 DEF Assess
  <2> QED BY <1>1, <2>1 DEF Incident
<1> QED BY <1>2, <1>3

\* What is served keeps its place, and the generations their models.
Stays ==
  /\ UNCHANGED <<query, cache, phase, provider>> /\ glitches \subseteq glitches'
  /\ DOMAIN generations \subseteq DOMAIN generations'
  /\ \A y \in DOMAIN generations : generations'[y].model = generations[y].model

LEMMA StaysWhenUnchanged ==
  ASSUME UNCHANGED <<query, cache, phase, provider, glitches, generations>>
  PROVE  Stays
BY DEF Stays

LEMMA QueryWhileSyncing ==
  ASSUME VectorInv, QueryInv, NEW r \in Routes,
         Plan(r) \/ Embedded(r) \/ Begin(r) \/ RowChanged(r) \/ AppendKnown(r) \/ Synced(r) \/ Return(r)
  PROVE  QueryInv'
<1>1. Typed /\ UNCHANGED serving /\ (blocked' = blocked \/ Refresh)
  BY DEF VectorInv, Plan, Embedded, Begin, RowChanged, AppendKnown, Synced, Return, server
<1>2. Stays
  <2>1. CASE Begin(r)
    <3>1. UNCHANGED <<query, cache, phase, provider, glitches>>
      BY <2>1 DEF Begin, InSync, history
    <3>2. CASE generations' = Append(generations, NewGeneration(provider.model, sync[r].dimensions, "BUILDING"))
      <4>1. provider.model \in Models /\ sync[r].dimensions \in Dims \cup {0}
        BY <1>1, SyncTyped DEF Typed, Syncs
      <4>2. Adds(NewGeneration(provider.model, sync[r].dimensions, "BUILDING"))
        BY <1>1, <3>2, <4>1, FreshGeneration, Adding
      <4> QED BY <3>1, <4>2 DEF Adds, Stays
    <3>3. CASE UNCHANGED generations
      BY <3>1, <3>3, StaysWhenUnchanged
    <3> QED BY <2>1, <3>2, <3>3 DEF Begin
  <2>2. CASE ~Begin(r)
    <3>1. UNCHANGED <<query, cache, phase, provider, glitches, generations>>
      BY <2>2 DEF Plan, Embedded, RowChanged, AppendKnown, Synced, Return, InSync, disk, history
    <3> QED BY <3>1, StaysWhenUnchanged
  <2> QED BY <2>1, <2>2
<1>3. ASSUME Refresh, serving'.generation # 0, ~blocked' PROVE SameModel'
  <2>1. SameModel
    BY <1>1, <1>3, RefreshBlocks DEF Typed
  <2> QED BY <1>1, <1>2, <2>1, GenerationsTyped DEF SameModel, Stays
<1> QED BY <1>1, <1>2, <1>3, QueryRests DEF Stays

LEMMA QueryWhileAppending == ASSUME VectorInv, QueryInv, NEW r \in Syncs, AppendOne(r) PROVE QueryInv'
<1>1. /\ Typed /\ Appending(r) /\ sync[r].at = "appending" /\ Item(r) \in Sources
      /\ UNCHANGED <<query, cache, phase, provider, blocked>>
  BY ItemTyped DEF AppendOne, VectorInv, InSync, server
<1>2. CASE r = "import"
  BY <1>1, <1>2, OnlyOne, NoQueryYet
<1>3. CASE r \in Routes
  <2>1. serving'.generation = serving.generation
    <3>1. UNCHANGED serving \/ \E k : serving' = [serving EXCEPT !.handle = k]
      BY DEF AppendOne, Shared
    <3> QED BY <1>1, <3>1, GenerationsTyped
  <2> DEFINE x == Target(r).generation
             h == Target(r).handle
             g == generations[x]
  <2>2. x \in DOMAIN generations /\ h \in Handles /\ Kept(g, h.count)
    BY <1>1, TargetFacts
  <2>3. \E d \in AppendCrashes(g, h, Item(r)) : generations' = [generations EXCEPT ![x] = d]
    <3> HIDE DEF x, h, g
    <3>1. \E f : \E o \in AppendOutcomes(g, h, Item(r), f) : generations' = [generations EXCEPT ![x] = o.disk]
      BY DEF AppendOne, x, h, g
    <3>2. PICK f : \E o \in AppendOutcomes(g, h, Item(r), f) : generations' = [generations EXCEPT ![x] = o.disk]
      BY <3>1
    <3>3. PICK o \in AppendOutcomes(g, h, Item(r), f) : generations' = [generations EXCEPT ![x] = o.disk]
      BY <3>2
    <3>4. o.disk \in AppendCrashes(g, h, Item(r))
      BY <3>3, OutcomeCases DEF Outcome, AppendCrashes
    <3> QED BY <3>3, <3>4
  <2>4. Grown
    BY <1>1, <2>3, Writing
  <2>5. glitches \subseteq glitches'
    BY DEF AppendOne, UpsertRef, Glitch, history
  <2>6. Stays
    BY <1>1, <2>4, <2>5 DEF Grown, SameKind, Stays
  <2> QED BY <1>1, <2>1, <2>6, QueryRests DEF Stays
<1> QED BY <1>2, <1>3 DEF Syncs

LEMMA QueryWhileActivating == ASSUME VectorInv, QueryInv, NEW r \in Routes, Activate(r) PROVE QueryInv'
<1> DEFINE t == Target(r)
           g == generations[t.generation]
<1>1. r \in Syncs /\ Typed /\ sync[r].at = "appending" /\ sync[r].fresh
      /\ UNCHANGED <<query, cache, phase, provider, blocked>>
  BY DEF Activate, Appended, Syncs, VectorInv, InSync, server
<1>2. /\ t.generation \in DOMAIN generations /\ t.generation # 0 /\ g \in GenerationType
      /\ g.model = provider.model
  <2>1. Building(r) /\ t.generation \in DOMAIN generations /\ g \in GenerationType
    BY <1>1, TargetFacts
  <2>2. t.generation # 0
    BY <1>1, <2>1, GenerationsTyped
  <2> QED BY <2>1, <2>2 DEF Building
<1>3. /\ DOMAIN generations' = DOMAIN generations
      /\ \A y \in DOMAIN generations : generations'[y].model = generations[y].model
  <2> DEFINE d == [g EXCEPT !.state = "READY"]
  <2>1. generations' = [generations EXCEPT ![t.generation] = d]
    BY <1>1, <1>2 DEF Activate, Select, Typed
  <2>2. d \in GenerationType /\ d.model = g.model
    BY <1>2 DEF GenerationType
  <2> HIDE DEF d, t
  <2>3. Rewrites(t.generation, d)
    BY <1>1, <1>2, <2>1, <2>2, Rewriting
  <2> QED BY <1>2, <2>2, <2>3 DEF Rewrites
<1>4. glitches \subseteq glitches'
  BY DEF Activate, Glitch, history
<1>5. Stays
  BY <1>1, <1>3, <1>4 DEF Stays
<1>6. CASE UNCHANGED serving
  BY <1>1, <1>5, <1>6, QueryRests DEF Stays
<1>7. CASE serving' = t
  <2>1. serving'.generation # 0 /\ SameModel'
    BY <1>1, <1>2, <1>3, <1>7 DEF SameModel
  <2> QED BY <1>1, <1>5, <2>1, QueryRests DEF Stays
<1> QED BY <1>6, <1>7 DEF Activate

LEMMA QueryAround ==
  ASSUME VectorInv, QueryInv,
         (\E s \in Sources : Remember(s)) \/ Drift \/ Admit \/ Rebuild \/ UNCHANGED vars
  PROVE  QueryInv'
<1>1. Typed /\ UNCHANGED <<query, cache, phase, serving, generations>> /\ glitches' = glitches
  BY DEF VectorInv, Remember, Drift, Admit, Rebuild, disk, vars, history
<1>2. provider'.model = provider.model
  BY <1>1 DEF Typed, Remember, Drift, Admit, Rebuild, vars
<1>3. blocked' = blocked \/ blocked' = TRUE
  BY DEF Remember, Drift, Admit, Rebuild, server, vars
<1> QED BY <1>1, <1>2, <1>3, QueryRests

LEMMA QueryAtStart ==
  ASSUME VectorInv, QueryInv,
         StartOpens \/ StartsWithout \/ StartImports \/ Serve \/ RowSkipped \/ ImportDone
  PROVE  QueryInv'
<1>1. phase # "up"
  <2>1. CASE StartOpens \/ StartsWithout \/ StartImports \/ Serve
    BY <2>1 DEF StartOpens, StartsWithout, StartImports, Starts, Serve
  <2>2. CASE RowSkipped \/ ImportDone
    <3>1. sync["import"].at # "idle"
      BY <2>2 DEF RowSkipped, ImportDone, Appending, Appended
    <3> QED BY <3>1 DEF VectorInv, SyncInv, ImportInv
  <2> QED BY <2>1, <2>2
<1>2. UNCHANGED <<query, cache>>
  BY DEF StartOpens, StartsWithout, StartImports, Starts, Serve, RowSkipped, ImportDone, InSync
<1>3. ASSUME phase' = "up", serving'.generation # 0, ~blocked' PROVE SameModel'
  <2>1. Serve
    BY <1>1, <1>3 DEF StartOpens, StartsWithout, StartImports, RowSkipped, ImportDone, InSync
  <2>2. Refresh /\ UNCHANGED <<serving, generations, provider>>
    BY <2>1 DEF Serve, disk
  <2>3. SameModel
    BY <1>3, <2>2, RefreshBlocks DEF VectorInv, Typed
  <2> QED BY <2>2, <2>3 DEF SameModel
<1> QED BY <1>1, <1>2, <1>3, NoQueryYet

\* The query moves, and what it is about stays.
LEMMA QueryMoves ==
  ASSUME QueryInv, InQuery, query' \in QueryType, cache' \in CacheOf(provider.model),
         phase # "up" => query' = NoQuery /\ cache' = EmptyCache,
         query'.at # "idle" => serving.generation # 0 /\ (phase = "up" => SameModel),
         query'.at \in {"searching", "resolving"} => query'.vector.model = provider.model,
         query'.at = "resolving" =>
           /\ query'.generation \in DOMAIN generations
           /\ generations[query'.generation].model = provider.model
           /\ "count" \notin glitches => \A c \in query'.candidates : c.vector = c.source
  PROVE  QueryInv'
<1>1. UNCHANGED <<phase, provider, serving, generations, blocked, glitches>>
  BY DEF InQuery, disk, server, history
<1>2. SameModel' <=> SameModel
  BY <1>1 DEF SameModel
<1>3. phase' = "up" /\ serving'.generation # 0 /\ (~blocked' \/ query'.at # "idle") => SameModel'
  BY <1>1, <1>2 DEF QueryInv
<1>4. cache' \in CacheOf(provider'.model) /\ (query'.at # "idle" => serving'.generation # 0)
  BY <1>1
<1>5. query'.at = "resolving" =>
        /\ query'.generation \in DOMAIN generations'
        /\ generations'[query'.generation].model = provider'.model
        /\ "count" \notin glitches' => \A c \in query'.candidates : c.vector = c.source
  BY <1>1
<1>6. /\ phase' # "up" => query' = NoQuery /\ cache' = EmptyCache
      /\ query'.at \in {"searching", "resolving"} => query'.vector.model = provider'.model
  BY <1>1
<1> QED BY <1>3, <1>4, <1>5, <1>6 DEF QueryInv

\* What the invariant says of a query that is under way.
LEMMA UnderWay ==
  ASSUME VectorInv, QueryInv, query.at # "idle"
  PROVE  /\ phase = "up" /\ SameModel /\ serving.generation # 0
         /\ serving.generation \in DOMAIN generations
         /\ generations[serving.generation].model = provider.model
<1>1. phase = "up" /\ serving.generation # 0 /\ SameModel
  BY NoQueryTyped DEF QueryInv
<1> QED BY <1>1, GenerationsTyped DEF VectorInv, SameModel

LEMMA AskStep == ASSUME VectorInv, QueryInv, NEW q \in Queries, Ask(q) PROVE QueryInv'
<1> DEFINE c == ForGeneration(cache, serving.generation)
           hit == CacheGet(c, q)
           v == CHOOSE w \in hit : TRUE
           m == provider.model
<1>1. /\ InQuery /\ phase = "up" /\ serving.generation # 0 /\ SameModel
      /\ cache' = IF hit = {} THEN c ELSE CachePut(c, q, v)
      /\ query' = [NoQuery EXCEPT !.at = IF hit = {} THEN "embedding" ELSE "searching",
                                  !.text = q, !.generation = serving.generation,
                                  !.vector = IF hit = {} THEN NoVector ELSE v]
  BY DEF Ask, QueryInv
<1>2. serving.generation \in Nat /\ m \in Models /\ q \in Texts
  BY GenerationsTyped DEF VectorInv, Typed, Texts
<1>3. c \in CacheOf(m)
  BY <1>2, ForGenerationTyped DEF QueryInv
<1> HIDE DEF c, m
<1>4. hit \subseteq VectorsOf(m)
  BY <1>3, CacheGetTyped
<1> HIDE DEF hit
<1>5. hit # {} => v \in VectorsOf(m)
  BY <1>4
<1> HIDE DEF v
<1>6. cache' \in CacheOf(m)
  BY <1>1, <1>2, <1>3, <1>5, CachePutTyped
<1>7. CASE hit = {}
  <2>1. query' = [at |-> "embedding", text |-> q, generation |-> serving.generation,
                  vector |-> NoVector, candidates |-> {}]
    BY <1>1, <1>7 DEF NoQuery
  <2>2. query' \in QueryType /\ query'.at = "embedding"
    BY <1>2, <2>1 DEF QueryType, NoVector
  <2> QED BY <1>1, <1>6, <2>2, QueryMoves DEF m
<1>8. CASE hit # {}
  <2>1. query' = [at |-> "searching", text |-> q, generation |-> serving.generation,
                  vector |-> v, candidates |-> {}]
    BY <1>1, <1>8 DEF NoQuery
  <2>2. query' \in QueryType /\ query'.at = "searching" /\ query'.vector.model = m
    BY <1>2, <1>5, <1>8, <2>1 DEF QueryType, VectorsOf
  <2> QED BY <1>1, <1>6, <2>2, QueryMoves DEF m
<1> QED BY <1>7, <1>8

LEMMA AskEmbeddedStep == ASSUME VectorInv, QueryInv, AskEmbedded PROVE QueryInv'
<1>1. InQuery /\ query.at = "embedding" /\ query \in QueryType /\ cache \in CacheOf(provider.model)
      /\ provider \in [model : Models, dimensions : Dims]
  BY DEF AskEmbedded, QueryInv, VectorInv, Typed
<1>2. phase = "up" /\ SameModel /\ serving.generation # 0
  BY <1>1, UnderWay
<1>3. CASE query' = [query EXCEPT !.at = "searching", !.vector = provider]
           /\ cache' = CachePut(ForGeneration(cache, query.generation), query.text, provider)
  <2>1. query.text \in Texts /\ query.generation \in Nat /\ provider \in VectorsOf(provider.model)
    BY <1>1 DEF QueryType, VectorsOf
  <2>2. cache' \in CacheOf(provider.model)
    BY <1>1, <1>3, <2>1, ForGenerationTyped, CachePutTyped
  <2>3. query' = [[query EXCEPT !.at = "searching"] EXCEPT !.vector = provider]
    BY <1>3
  <2>4. query' \in QueryType /\ query'.at = "searching" /\ query'.vector = provider
    BY <1>1, <2>3 DEF QueryType
  <2> QED BY <1>1, <1>2, <2>2, <2>4, QueryMoves
<1>4. CASE query' = NoQuery /\ UNCHANGED cache
  BY <1>1, <1>2, <1>4, NoQueryTyped, QueryMoves
<1> QED BY <1>3, <1>4 DEF AskEmbedded

LEMMA SearchStep == ASSUME VectorInv, QueryInv, Search PROVE QueryInv'
<1> DEFINE g == generations[serving.generation]
           h == serving.handle
           found == Candidates(g, h)
<1>1. InQuery /\ query.at = "searching" /\ query \in QueryType /\ cache \in CacheOf(provider.model)
      /\ UNCHANGED cache
  BY DEF Search, QueryInv
<1>2. /\ phase = "up" /\ SameModel /\ serving.generation # 0
      /\ serving.generation \in DOMAIN generations /\ g.model = provider.model
  BY <1>1, UnderWay
<1>3. g \in GenerationType /\ h \in Handles /\ serving.generation \in Nat
  BY <1>2, GenerationsTyped DEF VectorInv
<1>4. CASE query' = NoQuery
  BY <1>1, <1>2, <1>4, NoQueryTyped, QueryMoves
<1>5. CASE query' = [query EXCEPT !.at = "resolving", !.generation = serving.generation, !.candidates = found]
  <2>1. /\ h.refs \in Seq(Lines) /\ \A i \in DOMAIN h.refs : h.refs[i].source \in Sources
        /\ \A i \in DOMAIN g.records : g.records[i] \in Sources
    <3>1. h.refs \in Seq(Lines) /\ g.records \in Seq(Sources)
      BY <1>3 DEF Handles, GenerationType
    <3> HIDE DEF g, h
    <3>2. \A i \in DOMAIN h.refs : h.refs[i] \in Lines
      BY <3>1, LenProperties
    <3>3. \A i \in DOMAIN g.records : g.records[i] \in Sources
      BY <3>1, LenProperties
    <3> QED BY <3>1, <3>2, <3>3 DEF Lines
  <2>2. "count" \notin glitches => \A i \in DOMAIN h.refs : g.records[i] = h.refs[i].source
    BY <1>2 DEF VectorInv, ServingInv, VerifyAll, OwnRecord
  <2> HIDE DEF g, h
  <2>3. found \subseteq [source : Sources, vector : Sources]
    BY <2>1 DEF Candidates
  <2>4. "count" \notin glitches => \A c \in found : c.vector = c.source
    BY <2>2 DEF Candidates
  <2> HIDE DEF found
  <2>5. query' = [[[query EXCEPT !.at = "resolving"] EXCEPT !.generation = serving.generation]
                    EXCEPT !.candidates = found]
    BY <1>5
  <2>6. /\ query' \in QueryType /\ query'.at = "resolving" /\ query'.candidates = found
        /\ query'.generation = serving.generation /\ query'.vector = query.vector
    BY <1>1, <1>3, <2>3, <2>5 DEF QueryType
  <2>7. query.vector.model = provider.model
    BY <1>1 DEF QueryInv
  <2> QED BY <1>1, <1>2, <2>4, <2>6, <2>7, QueryMoves DEF g
<1> QED BY <1>4, <1>5 DEF Search

LEMMA AnswerStep == ASSUME VectorInv, QueryInv, Answer PROVE QueryInv'
<1>1. InQuery /\ query.at = "resolving" /\ query' = NoQuery /\ UNCHANGED cache /\ cache \in CacheOf(provider.model)
  BY DEF Answer, QueryInv
<1>2. phase = "up"
  BY <1>1, UnderWay
<1> QED BY <1>1, <1>2, NoQueryTyped, QueryMoves

LEMMA QueryInitially == Init => QueryInv
BY NoQueryTyped DEF Init, QueryInv

LEMMA QueriesStep == ASSUME VectorInv, QueryInv, [Next]_vars PROVE QueryInv'
<1>1. ASSUME NEW r \in Routes, SyncStep(r) \/ Plan(r) PROVE QueryInv'
  BY <1>1, QueryWhileSyncing, QueryWhileAppending, QueryWhileActivating DEF SyncStep, Syncs
<1>2. ASSUME ImportStep PROVE QueryInv'
  BY <1>2, QueryAtStart, QueryWhileAppending DEF ImportStep, Syncs
<1>3. ASSUME StartOpens \/ StartsWithout \/ StartImports \/ Serve PROVE QueryInv'
  BY <1>3, QueryAtStart
<1>4. ASSUME Crash \/ \E r \in Syncs : CrashInAppend(r) PROVE QueryInv'
  BY <1>4, QueryDies DEF Crash, CrashInAppend
<1>5. ASSUME (\E s \in Sources : Remember(s)) \/ Drift \/ Admit \/ Rebuild \/ UNCHANGED vars PROVE QueryInv'
  BY <1>5, QueryAround
<1>6. ASSUME (\E q \in Queries : Ask(q)) \/ AskEmbedded \/ Search \/ Answer PROVE QueryInv'
  BY <1>6, AskStep, AskEmbeddedStep, SearchStep, AnswerStep
<1>7. "embed" \in Routes
  BY DEF Routes
<1> QED BY <1>1, <1>2, <1>3, <1>4, <1>5, <1>6, <1>7 DEF Next

(***************************************************************************)
(* Whatever was rebuilt, swapped or cached while a query was under way,    *)
(* each hit of vectorHits scores the vector of the memory it names, and    *)
(* compares it with a query that the same model embedded.                  *)
(***************************************************************************)
THEOREM HitsAreOwn == Spec => []HitsOwnVector
<1>1. QueryInv => HitsOwnVector
  <2> SUFFICES ASSUME QueryInv, query.at = "resolving", "count" \notin glitches, NEW c \in Hits
               PROVE  c.vector = c.source /\ generations[query.generation].model = query.vector.model
    BY DEF HitsOwnVector
  <2>1. c \in query.candidates
    BY DEF Hits
  <2> QED BY <2>1 DEF QueryInv
<1>2. VectorInv /\ QueryInv /\ [Next]_vars => QueryInv'
  BY QueriesStep
<1>3. Spec => [](VectorInv /\ RowsInv /\ StoreInv)
  BY VectorsKept
<1> QED BY <1>1, <1>2, <1>3, QueryInitially, PTL DEF Spec
=============================================================================
