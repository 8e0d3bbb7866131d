---------------------------- MODULE SearchProofs ----------------------------
(***************************************************************************)
(* What a search serves, for every corpus, every table of names and every  *)
(* order in which its reads, its faults and the changes of rows may come.  *)
(* The sets of hits are parametrised by E, the memories that a search may  *)
(* still serve: an invariant says that nothing else ever enters the lists  *)
(* a search carries from one read to the next.                             *)
(***************************************************************************)
EXTENDS Search, MatchingProofs

\* A row as the steps make it: what was never judged has its first confidence.
Grades == 0 .. 1000

Rows == {row \in [lifecycle : {"ACTIVE", "SUPERSEDED", "FORGOTTEN"}, disputed : BOOLEAN,
                  confidence : Grades, activation : Grades, used : 1 .. Seq2] :
           row.disputed \/ row.confidence = 950}

\* What a search holds of a memory in E: a candidate's row, and a hit.
Finds(E) == [m : E, query : Texts, relevance : Nat, row : Rows]
Hits(E) == {h \in [m : E, class : Classes, key : Keys] : h.key[1] = h.class /\ h.key[9] = -h.m}
Candidates == [m : Ids, relevance : Nat]

\* The rows of vector hits that were loaded so far.
Reads(E) == {f \in [Ids -> Rows \cup {Unread}] : \A m \in Ids : f[m] # Unread => m \in E}

Searches(E) ==
  [pc : {"query", "hydrate", "vectors", "load", "reply", "answered", "failed"},
   query : Queries, project : Projects, kinds : Kinds, limit : Limits, mode : SearchModes,
   todo : Seq(Texts), batch : Seq(Candidates), found : Seq(Finds(E)), ok : BOOLEAN,
   near : Seq(Ids), read : Reads(E), ranked : Seq(Hits(E))]

-----------------------------------------------------------------------------
(***************************************************************************)
(* Texts and matches.                                                      *)
(***************************************************************************)

\* Whatever a query is asked as is a text, and so is the query.
LEMMA TextsAre ==
  /\ Texts \subseteq Text
  /\ \A q \in Queries : /\ q \in Text /\ q \in Texts
                        /\ Expanded[q] \in Seq(Texts)
                        /\ Range(Prefixes2(q)) \subseteq Texts
<1>1. ASSUME NEW q \in Queries
      PROVE  /\ q \in Text /\ Expand(q) \in Seq(Text) /\ Len(Expand(q)) > 0 /\ Expand(q)[1] = q
             /\ Prefixes2(q) \in Seq(Text)
  <2>1. q \in Text
    BY SearchAssumption DEF Text
  <2> QED BY <2>1, ExpandIs, BeginningsAre
<1>2. ASSUME NEW q \in Queries PROVE Range(Expand(q)) \subseteq Text /\ Range(Prefixes2(q)) \subseteq Text
  BY <1>1 DEF Range
<1>3. Texts \subseteq Text
  BY <1>2 DEF Texts
<1>4. ASSUME NEW q \in Queries
      PROVE  /\ q \in Texts /\ Expanded[q] \in Seq(Texts) /\ Range(Prefixes2(q)) \subseteq Texts
  <2> DEFINE e == Expand(q)
  <2>1. e \in Seq(Text) /\ Len(e) > 0 /\ e[1] = q
    BY <1>1
  <2>2. Range(e) \subseteq Texts /\ Range(Prefixes2(q)) \subseteq Texts
    BY DEF Texts
  <2>3. Expanded[q] = e
    BY DEF Expanded
  <2> HIDE DEF e
  <2>4. DOMAIN e = 1 .. Len(e) /\ Len(e) \in Nat /\ 1 \in DOMAIN e
    BY <2>1
  <2>5. q \in Range(e) /\ \A i \in 1 .. Len(e) : e[i] \in Range(e)
    BY <2>1, <2>4 DEF Range
  <2>6. e \in Seq(Range(e))
    <3> DEFINE k == Len(e)
    <3>1. k \in Nat /\ e = [i \in 1 .. k |-> e[i]]
      BY <2>1
    <3>2. e \in [1 .. k -> Range(e)]
      BY <2>5, <3>1
    <3> HIDE DEF k
    <3> QED BY <3>1, <3>2
  <2>7. e \in Seq(Texts)
    <3> DEFINE R == Range(e)
    <3>1. R \subseteq Texts /\ e \in Seq(R)
      BY <2>2, <2>6
    <3> HIDE DEF R
    <3> QED BY <3>1
  <2> QED BY <2>2, <2>3, <2>5, <2>7
<1> QED BY <1>1, <1>3, <1>4

LEMMA MatchesAre ==
  ASSUME NEW m \in Ids, NEW t \in Texts
  PROVE  Matches[m][t] \in AMatch
BY TextsAre, ClassifyMatchIs DEF Matches

\* Of some matches one is the strongest.
LEMMA StrongestIs ==
  ASSUME NEW S \in SUBSET AMatch, IsFiniteSet(S), S # {}
  PROVE  Strongest(S) \in S
<1> DEFINE R == {p \in S \X S : Stronger(p[1], p[2])}
<1>1. \A a, b \in S : <<a, b>> \in R <=> Stronger(a, b)
  OBVIOUS
<1> HIDE DEF R
<1>2. \A a \in S : a.class \in Int /\ a.strength \in Int
  BY DEF AMatch, Classes
<1>3. \A a, b \in S : a.class = b.class /\ a.strength = b.strength => a = b
  <2>1. \A a, b \in AMatch : a.class = b.class /\ a.strength = b.strength => a = b
    BY DEF AMatch
  <2> QED BY <2>1
<1>4. StrictOrder(R, S)
  <2>1. \A a \in S : <<a, a>> \notin R
    BY <1>1, <1>2 DEF Stronger
  <2>2. \A a, b, c \in S : <<a, b>> \in R /\ <<b, c>> \in R => <<a, c>> \in R
    BY <1>1, <1>2 DEF Stronger
  <2>3. \A a, b \in S : a # b => <<a, b>> \in R \/ <<b, a>> \in R
    BY <1>1, <1>2, <1>3 DEF Stronger
  <2> QED BY <2>1, <2>2, <2>3 DEF StrictOrder
<1>5. Cardinality(S) \in Nat /\ Cardinality(S) # 0
  BY FS_CardinalityType, FS_EmptySet
<1>6. 1 \in 1 .. Cardinality(S)
  BY <1>5
<1>7. PICK a \in S : Cardinality(Under(R, S, a)) = 1 - 1
  BY <1>4, <1>6, Ranks
<1>8. Under(R, S, a) = {}
  <2>1. IsFiniteSet(Under(R, S, a))
    BY FS_Subset DEF Under
  <2> QED BY <1>7, <2>1, FS_EmptySet
<1>9. \A o \in S : ~Stronger(o, a)
  BY <1>1, <1>8 DEF Under
<1> QED BY <1>9 DEF Strongest

\* What a memory is scored by is a match, wherever the candidate came from.
LEMMA MatchForIs ==
  ASSUME NEW c \in Finds(Ids), NEW query \in Queries
  PROVE  MatchFor(c, query) \in AMatch
<1> DEFINE M == Matches[c.m]
           p == Prefixes2(query)
           first == IF M[query] = NoMatch THEN M[c.query] ELSE M[query]
           weak == {M[t] : t \in Range(p)}
<1>1. c.m \in Ids /\ c.query \in Texts /\ c.relevance \in Nat
  BY DEF Finds
<1>2. query \in Text /\ query \in Texts /\ Range(p) \subseteq Texts
  BY TextsAre
<1>3. \A t \in Texts : M[t] \in AMatch
  BY <1>1, MatchesAre
<1>4. MatchFor(c, query) =
        CASE first.class = Fuzzy /\ c.relevance > 0 -> [first EXCEPT !.strength = c.relevance]
          [] first = NoMatch /\ AllCJK(query) /\ Len(query) > 2 -> Strongest(weak)
          [] OTHER -> first
  BY DEF MatchFor, MatchAmong, Judged
<1>5. first \in AMatch
  BY <1>1, <1>2, <1>3
<1>6. [first EXCEPT !.strength = c.relevance] \in AMatch
  <2> HIDE DEF first
  <2> QED BY <1>1, <1>5 DEF AMatch
<1>7. ASSUME AllCJK(query), Len(query) > 2 PROVE Strongest(weak) \in AMatch
  <2>1. p \in Seq(Text) /\ p # <<>>
    BY <1>2, <1>7, BeginningsAre
  <2>2. IsFiniteSet(Range(p))
    BY <2>1, RangeFinite
  <2>3. 1 \in DOMAIN p
    <3> HIDE DEF p
    <3> QED BY <2>1
  <2>4. Range(p) # {}
    BY <2>3 DEF Range
  <2> DEFINE D == Range(p)
             g == [t \in D |-> M[t]]
  <2>5. weak = {g[t] : t \in D} /\ DOMAIN g = D
    OBVIOUS
  <2>6. weak \subseteq AMatch /\ weak # {}
    BY <1>2, <1>3, <2>4
  <2> HIDE DEF g, D
  <2>7. IsFiniteSet(weak)
    BY <2>2, <2>5, ImageFinite DEF D
  <2> HIDE DEF weak
  <2> QED BY <2>6, <2>7, StrongestIs
<1> HIDE DEF first, weak
<1> QED BY <1>4, <1>5, <1>6, <1>7

-----------------------------------------------------------------------------
(***************************************************************************)
(* Lists of hits.                                                          *)
(***************************************************************************)

LEMMA SeqGrows ==
  ASSUME NEW S, NEW T, S \subseteq T
  PROVE  Seq(S) \subseteq Seq(T)
OBVIOUS

\* The elements at some places of a sequence are elements of it.
LEMMA PartIs ==
  ASSUME NEW S, NEW seq \in Seq(S), NEW I \in SUBSET (1 .. Len(seq))
  PROVE  /\ At(seq, I) \in Seq(S)
         /\ \A j \in 1 .. Len(At(seq, I)) : \E i \in I : At(seq, I)[j] = seq[i]
<1> DEFINE x == At(seq, I)
           k == Cardinality(I)
<1>1. x \in Seq(S) /\ Len(x) = k
  BY AtIs
<1>2. \E o \in [1 .. k -> I] : \A n \in 1 .. k : x[n] = seq[o[n]]
  BY AtIs
<1> HIDE DEF x, k
<1>3. PICK o \in [1 .. k -> I] : \A n \in 1 .. k : x[n] = seq[o[n]]
  BY <1>2
<1>4. \A n \in 1 .. k : \E i \in I : x[n] = seq[i]
  BY <1>3
<1> QED BY <1>1, <1>4 DEF x

\* The elements at some places, where those are known to be in K.
LEMMA PartOf ==
  ASSUME NEW S, NEW seq \in Seq(S), NEW I \in SUBSET (1 .. Len(seq)), NEW K, \A i \in I : seq[i] \in K
  PROVE  At(seq, I) \in Seq(K)
<1> DEFINE x == At(seq, I)
           k == Len(x)
<1>1. x \in Seq(S) /\ \A n \in 1 .. k : \E i \in I : x[n] = seq[i]
  BY PartIs
<1> HIDE DEF x
<1>2. k \in Nat /\ x = [n \in 1 .. k |-> x[n]]
  BY <1>1
<1>3. \A n \in 1 .. k : x[n] \in K
  BY <1>1
<1> HIDE DEF k
<1>4. x \in [1 .. k -> K]
  BY <1>2, <1>3
<1>5. x \in Seq(K)
  BY <1>2, <1>4
<1> QED BY <1>5 DEF x

\* A list made of elements of T.
LEMMA ListIs ==
  ASSUME NEW T, NEW n \in Nat, NEW f, f \in [1 .. n -> T]
  PROVE  f \in Seq(T) /\ Len(f) = n
OBVIOUS

\* A key names its memory.
LEMMA HitsAre ==
  ASSUME NEW E \in SUBSET Ids, NEW h \in Hits(E)
  PROVE  h.m \in E /\ h.m \in Nat /\ h.key \in Keys /\ h.class \in Classes
         /\ h.key[1] = h.class /\ h.key[9] = -h.m
<1>1. h.m \in E /\ h.key \in Keys /\ h.class \in Classes /\ h.key[1] = h.class /\ h.key[9] = -h.m
  BY DEF Hits
<1>2. \A m \in Ids : m \in Nat
  BY FactsAre
<1> QED BY <1>1, <1>2

LEMMA GradesAre == \A g \in Grades : g \in Nat
BY DEF Grades

LEMMA RowsAre ==
  ASSUME NEW row \in Rows
  PROVE  row.activation \in Nat /\ row.confidence \in Nat /\ SessionsSince(row) \in Int
<1>1. row.activation \in Grades /\ row.confidence \in Grades /\ row.used \in 1 .. Seq2
  BY DEF Rows
<1>2. row.used \in Int /\ Seq2 \in Int
  BY <1>1 DEF Seq2
<1>3. row.activation \in Nat /\ row.confidence \in Nat
  BY <1>1, GradesAre
<1> QED BY <1>2, <1>3 DEF SessionsSince

LEMMA RankedIs ==
  ASSUME NEW E \in SUBSET Ids, NEW m \in E, NEW row \in Rows, NEW match \in AMatch
  PROVE  Ranked(m, row, match) \in Hits(E)
<1> DEFINE k == RankKey(m, row, match, SessionsSince(row))
<1>1. row.activation \in Nat /\ row.confidence \in Nat /\ SessionsSince(row) \in Int
  BY RowsAre
<1>2. k \in Keys /\ k[1] = match.class /\ k[9] = -m
  BY <1>1, RankKeyIs
<1>3. match.class \in Classes
  BY DEF AMatch
<1>4. Ranked(m, row, match) = [m |-> m, class |-> match.class, key |-> k]
  BY DEF Ranked
<1> HIDE DEF k
<1> QED BY <1>2, <1>3, <1>4 DEF Hits

\* Scored keeps every find whose match says something, in its order.
LEMMA ScoredIs ==
  ASSUME NEW E \in SUBSET Ids, NEW found \in Seq(Finds(E)), NEW query \in Queries
  PROVE  Scored(found, query) \in Seq(Hits(E))
<1> DEFINE N == Len(found)
           all == [i \in DOMAIN found |-> Ranked(found[i].m, found[i].row, MatchFor(found[i], query))]
           I == {i \in DOMAIN all : all[i].class # NoMatch.class}
<1>1. N \in Nat /\ DOMAIN found = 1 .. N /\ \A i \in 1 .. N : found[i] \in Finds(E)
  OBVIOUS
<1>2. ASSUME NEW i \in 1 .. N PROVE Ranked(found[i].m, found[i].row, MatchFor(found[i], query)) \in Hits(E)
  <2> DEFINE c == found[i]
  <2>1. c.m \in E /\ c.row \in Rows /\ c \in Finds(Ids)
    BY <1>1 DEF Finds
  <2> HIDE DEF c
  <2>2. MatchFor(c, query) \in AMatch
    BY <2>1, MatchForIs
  <2>3. Ranked(c.m, c.row, MatchFor(c, query)) \in Hits(E)
    BY <2>1, <2>2, RankedIs
  <2> QED BY <2>3 DEF c
<1>3. all \in [1 .. N -> Hits(E)]
  BY <1>1, <1>2
<1>4. Scored(found, query) = At(all, I)
  BY DEF Scored
<1> HIDE DEF all, N
<1>5. all \in Seq(Hits(E)) /\ I \in SUBSET (1 .. Len(all))
  BY <1>1, <1>3
<1> HIDE DEF I
<1> QED BY <1>4, <1>5, PartIs

\* What Without leaves.
LEMMA WithoutIs ==
  ASSUME NEW S, NEW seq \in Seq(S), NEW T
  PROVE  Without(seq, T) \in Seq(S)
<1> DEFINE I == {i \in DOMAIN seq : seq[i].m \notin T}
<1>1. I \in SUBSET (1 .. Len(seq))
  OBVIOUS
<1>2. Without(seq, T) = At(seq, I)
  BY DEF Without
<1> HIDE DEF I
<1> QED BY <1>1, <1>2, PartIs

LEMMA HitsSorted ==
  ASSUME NEW E \in SUBSET Ids, NEW seq \in Seq(Hits(E))
  PROVE  SortedByKey(seq) \in Seq(Hits(E))
<1>1. \A h \in Hits(E) : h.key \in Keys
  BY HitsAre
<1> QED BY <1>1, SortedByKeyIs

\* Where a memory is first in a list of hits.
PlaceOf(seq, m) == SelectInSeq(seq, LAMBDA h : h.m = m)

LEMMA PlaceIs ==
  ASSUME NEW S, NEW seq \in Seq(S), NEW m
  PROVE  /\ PlaceOf(seq, m) \in 0 .. Len(seq)
         /\ PlaceOf(seq, m) = 0 => \A i \in 1 .. Len(seq) : seq[i].m # m
         /\ PlaceOf(seq, m) # 0 => seq[PlaceOf(seq, m)].m = m
<1> DEFINE I == {i \in 1 .. Len(seq) : seq[i].m = m}
           p == PlaceOf(seq, m)
<1>1. p = IF I # {} THEN Min(I) ELSE 0
  BY DEF PlaceOf, SelectInSeq
<1>2. Len(seq) \in Nat
  OBVIOUS
<1>3. CASE I = {}
  <2>1. p = 0
    BY <1>1, <1>3
  <2> QED BY <1>2, <1>3, <2>1
<1>4. CASE I # {}
  <2>1. I \in SUBSET Nat
    BY <1>2
  <2>2. PICK x \in I : \A y \in I : x <= y
    BY <1>4, <2>1, LeastNumber
  <2>3. Min(I) \in I
    BY <2>2 DEF Min
  <2>4. p \in I
    BY <1>1, <1>4, <2>3
  <2> HIDE DEF p
  <2>5. p \in 1 .. Len(seq) /\ seq[p].m = m
    BY <2>4
  <2>6. p \in 0 .. Len(seq) /\ p # 0
    BY <1>2, <2>5
  <2> QED BY <2>5, <2>6 DEF p
<1> QED BY <1>3, <1>4

\* The memories of a list: finitely many, each one somewhere in it.
LEMMA MemoriesAre ==
  ASSUME NEW S, NEW seq \in Seq(S)
  PROVE  /\ IsFiniteSet(MemoriesOf(seq))
         /\ \A m : m \in MemoriesOf(seq) <=> \E i \in 1 .. Len(seq) : seq[i].m = m
         /\ \A m \in MemoriesOf(seq) : PlaceOf(seq, m) \in 1 .. Len(seq) /\ seq[PlaceOf(seq, m)].m = m
<1> DEFINE f == [i \in DOMAIN seq |-> seq[i].m]
<1>1. IsFiniteSet(DOMAIN seq) /\ DOMAIN seq = 1 .. Len(seq) /\ Len(seq) \in Nat
  BY RangeFinite
<1>2. MemoriesOf(seq) = {f[i] : i \in DOMAIN seq} /\ DOMAIN f = DOMAIN seq
  BY DEF MemoriesOf
<1>3. \A m : m \in MemoriesOf(seq) <=> \E i \in 1 .. Len(seq) : seq[i].m = m
  BY <1>1 DEF MemoriesOf
<1> HIDE DEF f
<1>4. IsFiniteSet(MemoriesOf(seq))
  BY <1>1, <1>2, ImageFinite
<1>5. ASSUME NEW m \in MemoriesOf(seq)
      PROVE  PlaceOf(seq, m) \in 1 .. Len(seq) /\ seq[PlaceOf(seq, m)].m = m
  <2>1. PlaceOf(seq, m) \in 0 .. Len(seq) /\ PlaceOf(seq, m) # 0 /\ seq[PlaceOf(seq, m)].m = m
    BY <1>3, PlaceIs
  <2> QED BY <1>1, <2>1
<1> QED BY <1>3, <1>4, <1>5

LEMMA HitsOfMemories ==
  ASSUME NEW E \in SUBSET Ids, NEW seq \in Seq(Hits(E))
  PROVE  MemoriesOf(seq) \subseteq E
<1>1. \A i \in 1 .. Len(seq) : seq[i] \in Hits(E)
  OBVIOUS
<1> QED BY <1>1, HitsAre, MemoriesAre

-----------------------------------------------------------------------------
(***************************************************************************)
(* Merging keyword hits with semantic hits.                                *)
(***************************************************************************)
BetterOf(s, k, a, b) == s[a] > s[b] \/ (s[a] = s[b] /\ LessKey(k[a], k[b]))
Better(s, k, S) == {p \in S \X S : BetterOf(s, k, p[1], p[2])}

\* The order by score and, among equals, by keys that all differ.
LEMMA SortedBetter ==
  ASSUME NEW S, IsFiniteSet(S), NEW s \in [S -> Int], NEW k \in [S -> Keys],
         \A a, b \in S : k[a] = k[b] => a = b, NEW o,
         o = [i \in 1 .. Cardinality(S) |->
                CHOOSE a \in S : Cardinality({b \in S : s[b] > s[a] \/ (s[b] = s[a] /\ LessKey(k[b], k[a]))}) = i - 1]
  PROVE  Orders(o, Better(s, k, S), S)
<1> DEFINE R == Better(s, k, S)
<1>1. \A a, b \in S : <<a, b>> \in R <=> BetterOf(s, k, a, b)
  BY DEF Better
<1> HIDE DEF R
<1>2. \A a \in S : s[a] \in Int /\ k[a] \in Keys
  OBVIOUS
<1>3. StrictOrder(R, S)
  <2>1. ASSUME NEW a \in S PROVE <<a, a>> \notin R
    BY <1>1, <1>2, KeysSelf DEF BetterOf
  <2>2. ASSUME NEW a \in S, NEW b \in S, NEW c \in S, BetterOf(s, k, a, b), BetterOf(s, k, b, c)
        PROVE  BetterOf(s, k, a, c)
    <3>1. s[a] \in Int /\ s[b] \in Int /\ s[c] \in Int
      OBVIOUS
    <3>2. LessKey(k[a], k[b]) /\ LessKey(k[b], k[c]) => LessKey(k[a], k[c])
      BY <1>2, KeysChain
    <3> QED BY <2>2, <3>1, <3>2 DEF BetterOf
  <2>3. ASSUME NEW a \in S, NEW b \in S, a # b PROVE BetterOf(s, k, a, b) \/ BetterOf(s, k, b, a)
    <3>1. s[a] \in Int /\ s[b] \in Int
      OBVIOUS
    <3>2. LessKey(k[a], k[b]) \/ LessKey(k[b], k[a])
      BY <1>2, <2>3, KeysDiffer
    <3> QED BY <3>1, <3>2 DEF BetterOf
  <2> QED BY <1>1, <2>1, <2>2, <2>3 DEF StrictOrder
<1>4. ASSUME NEW a \in S
      PROVE  {b \in S : s[b] > s[a] \/ (s[b] = s[a] /\ LessKey(k[b], k[a]))} = Under(R, S, a)
  BY <1>1 DEF Under, BetterOf
<1>5. Lists(o, R, S)
  <2> DEFINE C(i) == CHOOSE a \in S : Cardinality(Under(R, S, a)) = i - 1
             B(i) == CHOOSE a \in S :
                       Cardinality({b \in S : s[b] > s[a] \/ (s[b] = s[a] /\ LessKey(k[b], k[a]))}) = i - 1
  <2>1. \A i : B(i) = C(i)
    BY <1>4
  <2>2. o = [i \in 1 .. Cardinality(S) |-> B(i)]
    OBVIOUS
  <2> HIDE DEF B
  <2>3. o = [i \in 1 .. Cardinality(S) |-> C(i)]
    BY <2>1, <2>2
  <2> QED BY <2>3 DEF Lists
<1> QED BY <1>3, <1>5, SortedAre DEF R

\* Reciprocal ranks: every memory of the two lists, each by one of its hits.
LEMMA FusedIs ==
  ASSUME NEW E \in SUBSET Ids, NEW lexical \in Seq(Hits(E)), NEW semantic \in Seq(Hits(E))
  PROVE  Fused(lexical, semantic) \in Seq(Hits(E))
<1> DEFINE sorted == SortedByKey(lexical)
           rank(seq, m) == PlaceOf(seq, m)
           part(seq, m, w) == IF rank(seq, m) = 0 THEN 0 ELSE (w * 1000000) \div (60 + rank(seq, m))
           pair(m) == <<sorted[rank(sorted, m)], semantic[rank(semantic, m)]>>
           best(m) == CASE rank(sorted, m) = 0 -> semantic[rank(semantic, m)]
                        [] rank(semantic, m) = 0 -> sorted[rank(sorted, m)]
                        [] OTHER -> SortedByKey(pair(m))[1]
           score(m) == part(sorted, m, 1) + part(semantic, m, 2)
           M == MemoriesOf(sorted) \cup MemoriesOf(semantic)
           o == Sorted(M, LAMBDA m, n : \/ score(m) > score(n)
                                        \/ score(m) = score(n) /\ LessKey(best(m).key, best(n).key))
           s == [m \in M |-> score(m)]
           k == [m \in M |-> best(m).key]
<1>1. Fused(lexical, semantic) = [i \in DOMAIN o |-> best(o[i])]
  BY SMTT(30) DEF Fused, PlaceOf
<1>2. sorted \in Seq(Hits(E))
  BY HitsSorted
<1> HIDE DEF sorted, part
<1>3. IsFiniteSet(M)
  <2>1. IsFiniteSet(MemoriesOf(sorted)) /\ IsFiniteSet(MemoriesOf(semantic))
    BY <1>2, MemoriesAre
  <2> QED BY <2>1, FS_Union
<1>4. ASSUME NEW m \in M PROVE best(m) \in Hits(E) /\ best(m).m = m /\ score(m) \in Int
  <2> DEFINE a == rank(sorted, m)
             b == rank(semantic, m)
  <2>1. a \in 0 .. Len(sorted) /\ (a = 0 => \A i \in 1 .. Len(sorted) : sorted[i].m # m)
        /\ (a # 0 => sorted[a].m = m)
    BY <1>2, PlaceIs
  <2>2. b \in 0 .. Len(semantic) /\ (b = 0 => \A i \in 1 .. Len(semantic) : semantic[i].m # m)
        /\ (b # 0 => semantic[b].m = m)
    BY PlaceIs
  <2>3. a # 0 \/ b # 0
    <3>1. m \in MemoriesOf(sorted) => \E i \in 1 .. Len(sorted) : sorted[i].m = m
      BY <1>2, MemoriesAre
    <3>2. m \in MemoriesOf(semantic) => \E i \in 1 .. Len(semantic) : semantic[i].m = m
      BY MemoriesAre
    <3> QED BY <2>1, <2>2, <3>1, <3>2
  <2>4. best(m) = CASE a = 0 -> semantic[b] [] b = 0 -> sorted[a] [] OTHER -> SortedByKey(<<sorted[a], semantic[b]>>)[1]
    BY SMTT(30)
  <2>5. score(m) = (IF a = 0 THEN 0 ELSE (1 * 1000000) \div (60 + a)) + IF b = 0 THEN 0 ELSE (2 * 1000000) \div (60 + b)
    BY SMTT(30) DEF part
  <2> HIDE DEF best, score, a, b
  <2>6. a \in Nat /\ b \in Nat /\ (a # 0 => sorted[a] \in Hits(E)) /\ (b # 0 => semantic[b] \in Hits(E))
    BY <1>2, <2>1, <2>2
  <2>7. score(m) \in Int
    <3>1. \A x \in Int, y \in Nat \ {0} : x \div y \in Int
      OBVIOUS
    <3>2. 60 + a \in Nat \ {0} /\ 60 + b \in Nat \ {0}
      BY <2>6
    <3>3. (1 * 1000000) \div (60 + a) \in Int /\ (2 * 1000000) \div (60 + b) \in Int
      BY <3>1, <3>2, SMTT(30)
    <3> QED BY <2>5, <3>3, SMTT(30)
  <2>8. ASSUME a # 0, b # 0
        PROVE  LET h == SortedByKey(<<sorted[a], semantic[b]>>)[1] IN h \in Hits(E) /\ h.m = m
    <3> DEFINE S == {h \in Hits(E) : h.m = m}
               p == <<sorted[a], semantic[b]>>
    <3>1. p \in Seq(S) /\ Len(p) = 2
      BY <2>1, <2>2, <2>6, <2>8
    <3>2. \A h \in S : h.key \in Keys
      BY HitsAre
    <3> HIDE DEF S, p
    <3>3. SortedByKey(p) \in Seq(S) /\ Len(SortedByKey(p)) = 2
      BY <3>1, <3>2, SortedByKeyIs
    <3> DEFINE z == SortedByKey(p)
    <3> HIDE DEF z
    <3>4. z \in Seq(S) /\ 1 \in 1 .. Len(z)
      BY <3>3 DEF z
    <3>5. z[1] \in S
      BY <3>4
    <3> QED BY <3>5 DEF S, p, z
  <2>9. best(m) \in Hits(E) /\ best(m).m = m
    BY <2>1, <2>2, <2>3, <2>4, <2>6, <2>8
  <2> QED BY <2>7, <2>9
<1>5. s \in [M -> Int] /\ k \in [M -> Keys]
  <2>1. \A m \in M : score(m) \in Int /\ best(m).key \in Keys
    BY <1>4, HitsAre
  <2> HIDE DEF score, best, M
  <2> QED BY <2>1
<1>6. ASSUME NEW a \in M, NEW b \in M, k[a] = k[b] PROVE a = b
  <2> HIDE DEF best, score, M
  <2>1. best(a) \in Hits(E) /\ best(a).m = a /\ best(b) \in Hits(E) /\ best(b).m = b
    BY <1>4
  <2>2. best(a).key = best(b).key
    BY <1>6
  <2>3. best(a).key[9] = -a /\ best(b).key[9] = -b /\ a \in Nat /\ b \in Nat
    BY <2>1, HitsAre
  <2> QED BY <2>2, <2>3
<1>7. o = [i \in 1 .. Cardinality(M) |->
             CHOOSE a \in M : Cardinality({b \in M : s[b] > s[a] \/ (s[b] = s[a] /\ LessKey(k[b], k[a]))}) = i - 1]
  <2>1. o = [i \in 1 .. Cardinality(M) |->
             CHOOSE a \in M : Cardinality({b \in M : \/ score(b) > score(a)
                                                     \/ score(b) = score(a) /\ LessKey(best(b).key, best(a).key)}) = i - 1]
    BY SMTT(30) DEF Sorted
  <2>2. \A m \in M : s[m] = score(m) /\ k[m] = best(m).key
    BY SMTT(30)
  <2> HIDE DEF s, k, score, best, M, o
  <2>3. ASSUME NEW a \in M
        PROVE  {b \in M : \/ score(b) > score(a)
                          \/ score(b) = score(a) /\ LessKey(best(b).key, best(a).key)}
                 = {b \in M : s[b] > s[a] \/ (s[b] = s[a] /\ LessKey(k[b], k[a]))}
    BY <2>2
  <2> DEFINE C(i) == CHOOSE a \in M :
                       Cardinality({b \in M : score(b) > score(a)
                                      \/ (score(b) = score(a) /\ LessKey(best(b).key, best(a).key))}) = i - 1
             B(i) == CHOOSE a \in M :
                       Cardinality({b \in M : s[b] > s[a] \/ (s[b] = s[a] /\ LessKey(k[b], k[a]))}) = i - 1
  <2>4. \A i : B(i) = C(i)
    BY <2>3
  <2>5. o = [i \in 1 .. Cardinality(M) |-> C(i)]
    BY <2>1
  <2> HIDE DEF C
  <2>6. o = [i \in 1 .. Cardinality(M) |-> B(i)]
    BY <2>4, <2>5
  <2> QED BY <2>6
<1> HIDE DEF s, k, o, score, M
<1>8. Orders(o, Better(s, k, M), M)
  BY <1>3, <1>5, <1>6, <1>7, SortedBetter
<1> DEFINE n == Cardinality(M)
<1>9. n \in Nat /\ DOMAIN o = 1 .. n /\ \A i \in 1 .. n : o[i] \in M
  BY <1>8 DEF Orders
<1>10. \A i \in 1 .. n : best(o[i]) \in Hits(E)
  BY <1>4, <1>9
<1> HIDE DEF best, n
<1>11. [i \in DOMAIN o |-> best(o[i])] \in [1 .. n -> Hits(E)]
  BY <1>9, <1>10
<1> QED BY <1>1, <1>9, <1>11

\* However semantic hits are merged, only hits of either list come out.
LEMMA MergedIs ==
  ASSUME NEW E \in SUBSET Ids, NEW lexical \in Seq(Hits(E)), NEW semantic \in Seq(Hits(E)),
         NEW how \in Merges
  PROVE  Merged(how, lexical, semantic) \in Seq(Hits(E))
<1> DEFINE H == Hits(E)
           first == IF semantic = <<>> THEN <<>> ELSE <<semantic[1]>>
           then(taken) == Without(SortedByKey(lexical), MemoriesOf(taken))
           both == lexical \o Without(semantic, MemoriesOf(lexical))
<1>1. first \in Seq(H)
  <2> HIDE DEF H
  <2>1. semantic # <<>> => semantic[1] \in H
    BY DEF H
  <2> QED BY <2>1
<1>2. SortedByKey(lexical) \in Seq(H)
  BY HitsSorted
<1>3. ASSUME NEW taken PROVE then(taken) \in Seq(H)
  BY <1>2, WithoutIs
<1>4. Without(semantic, MemoriesOf(lexical)) \in Seq(H)
  BY WithoutIs
<1>5. both \in Seq(H)
  BY <1>4
<1>6. SortedByKey(both) \in Seq(H)
  BY <1>5, HitsSorted
<1>7. Fused(lexical, semantic) \in Seq(H)
  BY FusedIs
<1>8. Merged(how, lexical, semantic) =
        CASE how = "union" -> SortedByKey(both)
          [] how = "top_one" -> first \o then(first)
          [] how = "vector_first" -> semantic \o then(semantic)
          [] how = "rrf" -> Fused(lexical, semantic)
  BY DEF Merged
<1>9. how \in {"union", "top_one", "vector_first", "rrf"}
  BY SearchAssumption
<1>10. then(first) \in Seq(H) /\ then(semantic) \in Seq(H)
  BY <1>3
<1> HIDE DEF H, first, then, both
<1>11. first \o then(first) \in Seq(H) /\ semantic \o then(semantic) \in Seq(H)
  BY <1>1, <1>10 DEF H
<1> QED BY <1>6, <1>7, <1>8, <1>9, <1>11 DEF H

-----------------------------------------------------------------------------
(***************************************************************************)
(* Lists of memories: vector hits, candidates, all rows.                   *)
(***************************************************************************)
LEMMA UptoIs ==
  ASSUME NEW S, NEW seq \in Seq(S), NEW n \in Nat
  PROVE  Upto(seq, n) \in Seq(S)
<1>1. CASE Len(seq) <= n
  BY <1>1 DEF Upto
<1>2. CASE ~(Len(seq) <= n)
  <2>1. n \in 0 .. Len(seq)
    BY <1>2
  <2>2. SubSeq(seq, 1, n) \in Seq(S)
    BY <2>1, BeginningIs
  <2> QED BY <1>2, <2>2 DEF Upto
<1> QED BY <1>1, <1>2

LEMMA IdsFinite == IsFiniteSet(Ids) /\ Ids \subseteq Nat
<1>1. IsFiniteSet(Ids)
  BY MatchingAssumption, RangeFinite DEF Ids
<1> QED BY <1>1, FactsAre

\* Some memories, those for which a number is greatest first.
Descends(o, f, S) ==
  o = [i \in 1 .. Cardinality(S) |->
         CHOOSE a \in S : Cardinality({b \in S : f[b] > f[a] \/ (f[b] = f[a] /\ b < a)}) = i - 1]

LEMMA MemoriesSorted ==
  ASSUME NEW S \in SUBSET Ids, NEW f, \A a \in S : f[a] \in Int, NEW o, Descends(o, f, S)
  PROVE  o \in Seq(S)
<1>1. IsFiniteSet(S) /\ S \in SUBSET Nat
  BY IdsFinite, FS_Subset
<1>2. Orders(o, Falling(f, S), S)
  BY <1>1, SortedFalling DEF Descends
<1> QED BY <1>2 DEF Orders

\* What is near a query: memories, whatever their rows are.
LEMMA NearestIs ==
  ASSUME NEW r, r.query \in Queries, r.limit \in Nat
  PROVE  /\ Nearest(r) \in Seq(Ids)
         /\ \A m \in Ids : Cosine[r.query][m] \in Nat
<1> DEFINE f == Cosine[r.query]
           near == {m \in Ids : f[m] >= 680}
           o == Sorted(near, LAMBDA m, n : f[m] > f[n] \/ (f[m] = f[n] /\ m < n))
<1>1. Nearest(r) = Upto(o, 3 * r.limit)
  BY DEF Nearest
<1>2. \A m \in Ids : f[m] \in Nat
  <2>1. Cosine \in [Queries -> [Ids -> Grades]]
    BY SearchAssumption, ZenonT(30) DEF Grades
  <2>2. \A m \in Ids : f[m] \in Grades
    BY <2>1
  <2> QED BY <2>2, GradesAre
<1>3. near \in SUBSET Ids
  OBVIOUS
<1>4. Descends(o, f, near)
  BY DEF Sorted, Descends
<1>5. QED
  <2> HIDE DEF f, near, o
  <2>1. \A a \in near : f[a] \in Int
    BY <1>2, <1>3
  <2>2. o \in Seq(near)
    BY <1>3, <1>4, <2>1, MemoriesSorted
  <2>3. 3 * r.limit \in Nat
    OBVIOUS
  <2>4. Upto(o, 3 * r.limit) \in Seq(near)
    BY <2>2, <2>3, UptoIs
  <2>5. Upto(o, 3 * r.limit) \in Seq(Ids)
    BY <1>3, <2>4
  <2> QED BY <1>1, <1>2, <2>5 DEF f

\* Those of them whose rows are eligible.
LEMMA EligibleOfIs ==
  ASSUME NEW r, NEW S, NEW top \in Seq(S), NEW held
  PROVE  EligibleOf(r, top, held) \in Seq({m \in S : Eligible(r.project, m, held[m])})
<1> DEFINE I == {i \in DOMAIN top : Eligible(r.project, top[i], held[top[i]])}
           K == {m \in S : Eligible(r.project, m, held[m])}
<1>1. EligibleOf(r, top, held) = At(top, I)
  BY DEF EligibleOf
<1>2. I \in SUBSET (1 .. Len(top)) /\ \A i \in I : top[i] \in K
  OBVIOUS
<1> HIDE DEF I, K
<1>3. At(top, I) \in Seq(K)
  BY <1>2, PartOf
<1> QED BY <1>1, <1>3 DEF K

\* The rows behind the vector hits are loaded, and what is not eligible by
\* then is dropped.
LEMMA VectorHitsIs ==
  ASSUME NEW E \in SUBSET Ids, NEW r, r.query \in Queries, r.limit \in Nat, NEW held,
         \A m \in Ids : Eligible(r.project, m, held[m]) => m \in E /\ held[m] \in Rows
  PROVE  VectorHits(r, held) \in Seq(Hits(E))
<1> DEFINE f == Cosine[r.query]
           top == Nearest(r)
           kept == EligibleOf(r, top, held)
           match(m) == [class |-> IF f[m] >= 780 THEN Phrase ELSE 1, strength |-> f[m]]
<1>1. VectorHits(r, held) = [i \in DOMAIN kept |-> Ranked(kept[i], held[kept[i]], match(kept[i]))]
  BY DEF VectorHits
<1>2. top \in Seq(Ids) /\ \A m \in Ids : f[m] \in Nat
  BY NearestIs
<1> HIDE DEF f, top
<1> DEFINE K == {m \in Ids : Eligible(r.project, m, held[m])}
           L == Len(kept)
<1>3. kept \in Seq(K)
  BY <1>2, EligibleOfIs
<1> HIDE DEF kept
<1>4. L \in Nat /\ DOMAIN kept = 1 .. L /\ \A i \in 1 .. L : kept[i] \in K
  <2> HIDE DEF K
  <2> QED BY <1>3
<1>5. ASSUME NEW m \in K PROVE Ranked(m, held[m], match(m)) \in Hits(E)
  <2>1. m \in E /\ m \in Ids /\ held[m] \in Rows
    OBVIOUS
  <2>2. match(m) \in AMatch
    BY <1>2, <2>1 DEF AMatch, Classes, Phrase
  <2> HIDE DEF match
  <2> QED BY <2>1, <2>2, RankedIs
<1> HIDE DEF K, L, match
<1>6. VectorHits(r, held) \in [1 .. L -> Hits(E)]
  BY <1>1, <1>4, <1>5
<1> QED BY <1>4, <1>6, ListIs

\* The scan of all rows finds what the SQL filters leave, and nothing else.
LEMMA EligibleRowsIs ==
  ASSUME NEW E \in SUBSET Ids, NEW r, r.query \in Queries, current \in [Ids -> Rows],
         \A m \in Ids : Eligible(r.project, m, current[m]) => m \in E
  PROVE  EligibleRows(r) \in Seq(Finds(E))
<1> DEFINE S == Filtered(r)
           f == [m \in Ids |-> Facts[m].updated]
           o == Sorted(S, LAMBDA m, n : \/ Facts[m].updated > Facts[n].updated
                                        \/ Facts[m].updated = Facts[n].updated /\ m < n)
           One(m) == [m |-> m, query |-> r.query, relevance |-> 0, row |-> current[m]]
<1>1. EligibleRows(r) = [i \in DOMAIN o |-> One(o[i])]
  BY DEF EligibleRows
<1>2. S \in SUBSET Ids /\ S \subseteq E
  BY DEF Filtered
<1>3. \A a \in S : f[a] \in Int /\ f[a] = Facts[a].updated
  BY <1>2, FactsAre
<1> HIDE DEF S, f
<1>4. Descends(o, f, S)
  <2> DEFINE C(i) == CHOOSE a \in S : Cardinality({b \in S : Facts[b].updated > Facts[a].updated
                                          \/ (Facts[b].updated = Facts[a].updated /\ b < a)}) = i - 1
             B(i) == CHOOSE a \in S : Cardinality({b \in S : f[b] > f[a] \/ (f[b] = f[a] /\ b < a)}) = i - 1
  <2>1. o = [i \in 1 .. Cardinality(S) |-> C(i)]
    BY DEF Sorted
  <2> HIDE DEF o
  <2>2. ASSUME NEW a \in S
        PROVE  {b \in S : Facts[b].updated > Facts[a].updated \/ (Facts[b].updated = Facts[a].updated /\ b < a)}
                 = {b \in S : f[b] > f[a] \/ (f[b] = f[a] /\ b < a)}
    BY <1>3
  <2>3. \A i : B(i) = C(i)
    BY <2>2
  <2> HIDE DEF C
  <2>4. o = [i \in 1 .. Cardinality(S) |-> B(i)]
    BY <2>1, <2>3
  <2> QED BY <2>4 DEF Descends
<1> HIDE DEF o
<1>5. o \in Seq(S)
  BY <1>2, <1>3, <1>4, MemoriesSorted
<1> DEFINE L == Len(o)
<1>6. L \in Nat /\ DOMAIN o = 1 .. L /\ \A i \in 1 .. L : o[i] \in S
  BY <1>5
<1>7. ASSUME NEW m \in S PROVE One(m) \in Finds(E)
  <2>1. m \in E /\ m \in Ids /\ r.query \in Texts /\ current[m] \in Rows
    BY <1>2, TextsAre
  <2> QED BY <2>1 DEF Finds
<1> HIDE DEF One, L
<1>8. EligibleRows(r) \in [1 .. L -> Finds(E)]
  BY <1>1, <1>6, <1>7
<1> QED BY <1>6, <1>8, ListIs

\* How much of some terms a memory holds.
LEMMA RelevanceIs ==
  ASSUME NEW m \in Ids, NEW terms
  PROVE  Relevance(m, terms) \in Nat
<1> DEFINE a == Cardinality(terms \cap SubjectTerms[m])
           b == Cardinality(terms \cap ContentTerms[m])
<1>1. a \in Nat /\ b \in Nat
  <2>1. Facts[m].subject \in Text /\ Facts[m].content \in Text
    BY FactsAre
  <2>2. SubjectTerms[m] = Terms(Tokens(Facts[m].subject)) /\ ContentTerms[m] = Terms(Tokens(Facts[m].content))
    BY DEF SubjectTerms, ContentTerms
  <2> QED BY <2>1, <2>2, TermsOfText
<1>2. Score(m, terms) = 4 * a + b
  BY DEF Score
<1> HIDE DEF a, b
<1>3. Score(m, terms) \in Nat /\ 1 + Score(m, terms) \in Nat
  BY <1>1, <1>2
<1> QED BY <1>3, PermilleIs DEF Relevance, Share

LEMMA BM25Is ==
  ASSUME NEW r, NEW terms, NEW must
  PROVE  BM25(r, terms, must) \in Seq(Candidates)
<1> DEFINE f == [m \in Ids |-> Relevance(m, terms)]
           S == {m \in Filtered(r) : f[m] > 0 /\ (must = {} \/ Score(m, must) > 0)}
           o == Sorted(S, LAMBDA m, n : f[m] > f[n] \/ (f[m] = f[n] /\ m < n))
           L == Len(o)
<1>1. BM25(r, terms, must) = [i \in DOMAIN o |-> [m |-> o[i], relevance |-> f[o[i]]]]
  BY DEF BM25
<1>2. \A m \in Ids : f[m] \in Nat
  BY RelevanceIs
<1>3. S \in SUBSET Ids
  BY DEF Filtered
<1>4. Descends(o, f, S)
  BY DEF Sorted, Descends
<1> HIDE DEF f, S, o
<1>5. \A a \in S : f[a] \in Int
  BY <1>2, <1>3
<1>6. o \in Seq(S)
  BY <1>3, <1>4, <1>5, MemoriesSorted
<1>7. L \in Nat /\ DOMAIN o = 1 .. L /\ \A i \in 1 .. L : o[i] \in Ids
  BY <1>3, <1>6
<1> HIDE DEF L
<1>8. BM25(r, terms, must) \in [1 .. L -> Candidates]
  BY <1>1, <1>2, <1>7 DEF Candidates
<1> QED BY <1>7, <1>8, ListIs

LEMMA UnorderedIs ==
  ASSUME NEW S \in SUBSET Ids, NEW list \in Unordered(S)
  PROVE  list \in Seq(Candidates)
<1> DEFINE n == Min({Cardinality(S), CandidateCap})
<1>1. PICK s \in UNION {SetToSeqs(k) : k \in kSubset(n, S)} :
        list = [i \in 1 .. n |-> [m |-> s[i], relevance |-> 0]]
  BY DEF Unordered
<1>2. PICK k \in kSubset(n, S) : s \in SetToSeqs(k)
  BY <1>1
<1>3. k \in SUBSET S /\ Cardinality(k) = n
  BY <1>2 DEF kSubset
<1>4. s \in [1 .. Cardinality(k) -> k]
  BY <1>2 DEF SetToSeqs
<1> HIDE DEF n
<1>5. IsFiniteSet(k)
  BY <1>3, IdsFinite, FS_Subset
<1>6. n \in Nat
  BY <1>3, <1>5, FS_CardinalityType
<1>7. \A i \in 1 .. n : s[i] \in Ids
  BY <1>3, <1>4
<1>8. list \in [1 .. n -> Candidates]
  BY <1>1, <1>7 DEF Candidates
<1> QED BY <1>6, <1>8, ListIs

\* Whatever table answers, it answers memories.
LEMMA RankedCandidatesAre ==
  ASSUME NEW r, NEW text, NEW c \in RankedCandidates(r, text)
  PROVE  c.failed \in BOOLEAN /\ c.list \in Seq(Candidates)
<1> DEFINE legacy(why) == {Found(list, why) : list \in Unordered(LikeCandidates(r, text))}
                            \cup (IF "fts" \in Faults THEN {QueryFailed} ELSE {})
<1>1. ASSUME NEW why, NEW d \in legacy(why) PROVE d.failed \in BOOLEAN /\ d.list \in Seq(Candidates)
  <2>1. LikeCandidates(r, text) \in SUBSET Ids
    BY DEF LikeCandidates, Holding, Filtered
  <2>2. CASE d = QueryFailed
    BY <2>2 DEF QueryFailed
  <2>3. CASE d \in {Found(list, why) : list \in Unordered(LikeCandidates(r, text))}
    <3>1. PICK list \in Unordered(LikeCandidates(r, text)) : d = Found(list, why)
      BY <2>3
    <3>2. list \in Seq(Candidates)
      BY <2>1, UnorderedIs
    <3>3. d.failed = FALSE /\ d.list = list
      BY <3>1 DEF Found
    <3> QED BY <3>2, <3>3
  <2> QED BY <2>2, <2>3, SMTT(20)
<1>2. BM25Candidates(r, text) \in Seq(Candidates)
  <2> DEFINE a == BM25(r, TermsOf(text), Anchors(TermsOf(text)))
             b == BM25(r, TermsOf(text), {})
  <2>1. a \in Seq(Candidates) /\ b \in Seq(Candidates)
    BY BM25Is
  <2>2. BM25Candidates(r, text) = Upto(OrElse(a, b), CandidateCap)
    BY DEF BM25Candidates, BM25Of
  <2> HIDE DEF a, b
  <2>3. OrElse(a, b) \in Seq(Candidates)
    BY <2>1 DEF OrElse
  <2>4. CandidateCap \in Nat
    BY SearchAssumption
  <2> QED BY <2>2, <2>3, <2>4, UptoIs
<1>3. \/ c = Found(BM25Candidates(r, text), {})
      \/ \E why : c \in legacy(why)
  BY DEF RankedCandidates
<1>4. CASE c = Found(BM25Candidates(r, text), {})
  <2>1. c.failed = FALSE /\ c.list = BM25Candidates(r, text)
    BY <1>4 DEF Found
  <2> QED BY <1>2, <2>1
<1> HIDE DEF legacy
<1> QED BY <1>1, <1>3, <1>4

\* The rows of a batch as they are now; only those of E pass.
HydratedOf(r) ==
  LET Now(m) == Eligible(r.project, m, current[m]) /\ KindRequested(m, r.kinds)
      new == At(r.batch, {i \in DOMAIN r.batch : Now(r.batch[i].m)})
  IN  [i \in DOMAIN new |-> [m |-> new[i].m, query |-> Head(r.todo),
                             relevance |-> new[i].relevance, row |-> current[new[i].m]]]

LEMMA HydratedIs ==
  ASSUME NEW E \in SUBSET Ids, NEW r, r.batch \in Seq(Candidates), Head(r.todo) \in Texts,
         current \in [Ids -> Rows],
         \A m \in Ids : Eligible(r.project, m, current[m]) => m \in E
  PROVE  HydratedOf(r) \in Seq(Finds(E))
<1> DEFINE batch == r.batch
           Now(m) == Eligible(r.project, m, current[m]) /\ KindRequested(m, r.kinds)
           I == {i \in DOMAIN batch : Now(batch[i].m)}
           new == At(batch, I)
           K == {c \in Candidates : c.m \in E}
           L == Len(new)
           One(c) == [m |-> c.m, query |-> Head(r.todo), relevance |-> c.relevance, row |-> current[c.m]]
<1>1. HydratedOf(r) = [i \in DOMAIN new |-> One(new[i])]
  BY DEF HydratedOf
<1> HIDE DEF batch
<1>2. batch \in Seq(Candidates)
  BY DEF batch
<1>3. I \in SUBSET (1 .. Len(batch)) /\ \A i \in I : batch[i] \in K
  <2>1. I \in SUBSET (1 .. Len(batch)) /\ \A i \in I : batch[i] \in Candidates /\ Now(batch[i].m)
    BY <1>2
  <2>2. \A c \in Candidates : c.m \in Ids
    BY DEF Candidates
  <2>3. \A m \in Ids : Now(m) => m \in E
    OBVIOUS
  <2> HIDE DEF I, Now
  <2> QED BY <2>1, <2>2, <2>3
<1> HIDE DEF I, K
<1>4. new \in Seq(K)
  BY <1>2, <1>3, PartOf
<1> HIDE DEF new
<1>5. L \in Nat /\ DOMAIN new = 1 .. L /\ \A i \in 1 .. L : new[i] \in K
  BY <1>4
<1>6. ASSUME NEW c \in K PROVE One(c) \in Finds(E)
  <2>1. c.m \in E /\ c.m \in Ids /\ c.relevance \in Nat /\ current[c.m] \in Rows
    BY DEF K, Candidates
  <2> QED BY <2>1 DEF Finds
<1> HIDE DEF L, One
<1>7. HydratedOf(r) \in [1 .. L -> Finds(E)]
  BY <1>1, <1>5, <1>6
<1> QED BY <1>5, <1>7, ListIs

-----------------------------------------------------------------------------
(***************************************************************************)
(* The invariant.                                                          *)
(***************************************************************************)
May == ever \cup behind

\* The rows of the index are those of memory, except of what is stale; and
\* what is active in memory is active there too, stale or not.
IndexInv ==
  /\ rows \in [Ids -> Rows] /\ current \in [Ids -> Rows]
  /\ \A m \in Ids : m \notin stale => current[m] = rows[m]
  /\ \A m \in Ids : rows[m].lifecycle = "ACTIVE" => current[m].lifecycle = "ACTIVE"
  /\ stale \in SUBSET Ids

\* A search in progress carries only what it may serve; what the session is
\* entitled to now, and what is out of date now, is among it.
InProgress ==
  \/ search = Idle
  \/ /\ search \in Searches(May)
     /\ search.pc = "hydrate" => search.todo # <<>>
     /\ stale \subseteq behind /\ Entitled(search, rows) \subseteq ever

SearchInv ==
  /\ IndexInv /\ InProgress
  /\ merge \in Merges /\ ever \in SUBSET Ids /\ behind \in SUBSET Ids

\* What the index calls eligible now may be served.
LEMMA NowMay ==
  ASSUME SearchInv, search # Idle, NEW m \in Ids, Eligible(search.project, m, current[m])
  PROVE  m \in May
<1>1. stale \subseteq behind /\ Entitled(search, rows) \subseteq ever
  BY DEF SearchInv, InProgress
<1>2. CASE m \in stale
  BY <1>1, <1>2 DEF May
<1>3. CASE m \notin stale
  <2>1. current[m] = rows[m]
    BY <1>3 DEF SearchInv, IndexInv
  <2>2. m \in Entitled(search, rows)
    BY <2>1 DEF Entitled, Eligible, PolicyAllowed, InScope
  <2> QED BY <1>1, <2>2 DEF May
<1> QED BY <1>2, <1>3

LEMMA SearchInit == Init => SearchInv
<1> SUFFICES ASSUME Init PROVE SearchInv
  OBVIOUS
<1>1. NewRow \in Rows
  BY DEF NewRow, Rows, Grades, Seq2
<1>2. rows \in [Ids -> Rows] /\ current = rows /\ search = Idle /\ merge \in Merges
      /\ stale = {} /\ behind = {} /\ ever = {}
  BY <1>1 DEF Init
<1> QED BY <1>2 DEF SearchInv, IndexInv, InProgress

LEMMA IdleIs == Idle.pc = "idle" /\ \A E : \A r \in Searches(E) : r.pc # "idle"
BY DEF Idle, Searches

LEMMA Typed ==
  ASSUME SearchInv, search.pc # "idle"
  PROVE  /\ search # Idle /\ search \in Searches(May) /\ May \in SUBSET Ids
         /\ search.query \in Queries /\ search.limit \in Nat
         /\ \A m \in Ids : Eligible(search.project, m, current[m]) => m \in May
         /\ current \in [Ids -> Rows] /\ rows \in [Ids -> Rows]
<1>1. search # Idle /\ search \in Searches(May)
  BY IdleIs DEF SearchInv, InProgress
<1>2. search.query \in Queries /\ search.limit \in Limits
  BY <1>1 DEF Searches
<1>3. search.limit \in Nat
  BY <1>2, SearchAssumption, ZenonT(30)
<1> QED BY <1>1, <1>2, <1>3, NowMay DEF SearchInv, IndexInv, May

\* A step of the search that leaves the rows alone: it keeps the invariant
\* if it keeps the types and the scope of the search.
LEMMA StepKeeps ==
  ASSUME SearchInv, search.pc # "idle", Step, search' \in Searches(May),
         search'.project = search.project, search'.pc = "hydrate" => search'.todo # <<>>
  PROVE  SearchInv'
<1>1. rows' = rows /\ current' = current /\ merge' = merge /\ stale' = stale
      /\ behind' = behind /\ ever' = ever
  BY DEF Step, history
<1>2. stale \subseteq behind /\ Entitled(search, rows) \subseteq ever
  BY Typed DEF SearchInv, InProgress
<1>3. Entitled(search, rows)' = Entitled(search, rows)
  BY <1>1 DEF Entitled
<1>4. May' = May
  BY <1>1 DEF May
<1>5. InProgress'
  BY <1>1, <1>2, <1>3, <1>4 DEF InProgress
<1>6. IndexInv'
  BY <1>1 DEF IndexInv, SearchInv
<1> QED BY <1>1, <1>5, <1>6 DEF SearchInv

-----------------------------------------------------------------------------
(***************************************************************************)
(* The steps.                                                              *)
(***************************************************************************)
\* Nothing is loaded yet.
LEMMA NothingReadIs == \A E : NothingRead \in Reads(E)
BY DEF NothingRead, Reads

LEMMA BeginKeeps == SearchInv /\ Begin => SearchInv'
<1> SUFFICES ASSUME SearchInv, Begin PROVE SearchInv'
  OBVIOUS
<1>1. rows' = rows /\ current' = current /\ merge' = merge /\ stale' = stale /\ behind' = stale
      /\ ever' = Entitled(search', rows)
  BY DEF Begin, history
<1>2. PICK query \in Queries, project \in Projects, kinds \in Kinds, limit \in Limits, mode \in SearchModes :
        search' = [pc |-> "query", query |-> query, project |-> project, kinds |-> kinds,
                   limit |-> limit, mode |-> mode, todo |-> Expanded[query], batch |-> <<>>,
                   found |-> <<>>, ok |-> FALSE, near |-> <<>>, read |-> NothingRead, ranked |-> <<>>]
  BY DEF Begin
<1>3. Expanded[query] \in Seq(Texts)
  BY TextsAre
<1>4. ASSUME NEW S PROVE <<>> \in Seq(S)
  OBVIOUS
<1>5. search' \in Searches(May')
  BY <1>2, <1>3, <1>4, NothingReadIs DEF Searches
<1>6. search'.pc = "query"
  BY <1>2
<1>7. InProgress'
  BY <1>1, <1>5, <1>6 DEF InProgress, Entitled
<1>8. IndexInv' /\ ever' \in SUBSET Ids /\ behind' \in SUBSET Ids
  BY <1>1 DEF SearchInv, IndexInv, Entitled
<1> QED BY <1>1, <1>7, <1>8 DEF SearchInv

LEMMA QueryIndexKeeps == SearchInv /\ QueryIndex => SearchInv'
<1> SUFFICES ASSUME SearchInv, QueryIndex PROVE SearchInv'
  OBVIOUS
<1>1. search.pc = "query" /\ search.todo # <<>> /\ Step
  BY DEF QueryIndex
<1>2. PICK c \in RankedCandidates(search, Head(search.todo)) :
        search' = IF c.failed THEN [search EXCEPT !.todo = Tail(@)]
                  ELSE [search EXCEPT !.pc = "hydrate", !.batch = c.list, !.ok = TRUE]
  BY DEF QueryIndex
<1>3. c.failed \in BOOLEAN /\ c.list \in Seq(Candidates)
  BY RankedCandidatesAre
<1>4. search \in Searches(May) /\ search.pc # "idle"
  BY <1>1, Typed
<1>5. search.todo \in Seq(Texts)
  BY <1>4 DEF Searches
<1>6. Tail(search.todo) \in Seq(Texts)
  BY <1>1, <1>5
<1>7. CASE c.failed
  <2>1. search' = [search EXCEPT !.todo = Tail(search.todo)]
    BY <1>2, <1>7
  <2>2. search' \in Searches(May)
    BY <1>4, <1>6, <2>1 DEF Searches
  <2>3. search'.project = search.project /\ search'.pc = "query"
    BY <1>1, <1>4, <2>1 DEF Searches
  <2> QED BY <1>1, <1>4, <2>2, <2>3, StepKeeps
<1>8. CASE ~c.failed
  <2>1. search' = [search EXCEPT !.pc = "hydrate", !.batch = c.list, !.ok = TRUE]
    BY <1>2, <1>8
  <2>2. search' \in Searches(May)
    BY <1>3, <1>4, <2>1 DEF Searches
  <2>3. search'.project = search.project /\ search'.todo = search.todo
    BY <1>4, <2>1 DEF Searches
  <2> QED BY <1>1, <1>4, <2>2, <2>3, StepKeeps
<1> QED BY <1>3, <1>7, <1>8

LEMMA HydrateKeeps == SearchInv /\ Hydrate => SearchInv'
<1> SUFFICES ASSUME SearchInv, Hydrate PROVE SearchInv'
  OBVIOUS
<1> DEFINE hydrated == HydratedOf(search)
<1>1. search.pc = "hydrate" /\ Step
  BY DEF Hydrate
<1>2. PICK found \in {Joined(search.found, hydrated), search.found} :
        search' = [search EXCEPT !.pc = "query", !.todo = Tail(@), !.batch = <<>>, !.found = found]
  BY DEF Hydrate, HydratedOf
<1>3. search \in Searches(May) /\ search # Idle /\ search.pc # "idle"
  BY <1>1, Typed
<1>4. search.todo # <<>>
  BY <1>1, <1>3 DEF SearchInv, InProgress
<1>5. search.todo \in Seq(Texts) /\ search.batch \in Seq(Candidates) /\ search.found \in Seq(Finds(May))
  BY <1>3 DEF Searches
<1>6. Head(search.todo) \in Texts /\ Tail(search.todo) \in Seq(Texts)
  BY <1>4, <1>5
<1>7. hydrated \in Seq(Finds(May))
  BY <1>3, <1>5, <1>6, Typed, HydratedIs
<1> HIDE DEF hydrated
<1>8. found \in Seq(Finds(May))
  <2> DEFINE w == Without(hydrated, MemoriesOf(search.found))
  <2>1. w \in Seq(Finds(May))
    BY <1>7, WithoutIs
  <2>2. Joined(search.found, hydrated) = search.found \o w
    BY DEF Joined
  <2> HIDE DEF w
  <2>3. search.found \o w \in Seq(Finds(May))
    BY <1>5, <2>1
  <2> QED BY <1>2, <1>5, <2>2, <2>3
<1>9. search' = [search EXCEPT !.pc = "query", !.todo = Tail(search.todo), !.batch = <<>>, !.found = found]
  BY <1>2
<1>10. <<>> \in Seq(Candidates)
  OBVIOUS
<1>11. search' \in Searches(May)
  BY <1>3, <1>6, <1>8, <1>9, <1>10 DEF Searches
<1>12. search'.project = search.project /\ search'.pc = "query"
  BY <1>3, <1>9 DEF Searches
<1> QED BY <1>1, <1>3, <1>11, <1>12, StepKeeps

LEMMA LexicalKeeps == SearchInv /\ Lexical => SearchInv'
<1> SUFFICES ASSUME SearchInv, Lexical PROVE SearchInv'
  OBVIOUS
<1> DEFINE found == IF NeedsScan THEN EligibleRows(search) ELSE search.found
           ranked == Scored(found, search.query)
<1>1. search.pc = "query" /\ Step
  BY DEF Lexical
<1>2. \/ search' = [search EXCEPT !.ranked = SortedByKey(ranked),
                     !.pc = IF RunsSemantic(search, ranked) THEN "vectors" ELSE "reply"]
      \/ search' = [search EXCEPT !.pc = "failed"]
  BY DEF Lexical
<1>3. search \in Searches(May) /\ search.pc # "idle" /\ May \in SUBSET Ids /\ search.query \in Queries
  BY <1>1, Typed
<1>4. found \in Seq(Finds(May))
  <2>1. search.found \in Seq(Finds(May))
    BY <1>3 DEF Searches
  <2>2. EligibleRows(search) \in Seq(Finds(May))
    BY <1>3, Typed, EligibleRowsIs
  <2> QED BY <2>1, <2>2
<1> HIDE DEF found
<1>5. SortedByKey(ranked) \in Seq(Hits(May))
  BY <1>3, <1>4, ScoredIs, HitsSorted
<1> DEFINE pc == IF RunsSemantic(search, ranked) THEN "vectors" ELSE "reply"
           sorted == SortedByKey(ranked)
<1>6. pc \in {"vectors", "reply"}
  OBVIOUS
<1>7. \/ search' = [search EXCEPT !.ranked = sorted, !.pc = pc]
      \/ search' = [search EXCEPT !.pc = "failed"]
  BY <1>2
<1>8. sorted \in Seq(Hits(May))
  BY <1>5
<1> HIDE DEF ranked, sorted, pc
<1>9. search' \in Searches(May)
  BY <1>3, <1>6, <1>7, <1>8, ZenonT(30) DEF Searches
<1>10. search'.project = search.project /\ search'.pc # "hydrate"
  BY <1>3, <1>6, <1>7 DEF Searches
<1> QED BY <1>1, <1>3, <1>9, <1>10, StepKeeps

\* What is loaded of a vector hit is the row of a memory in May.
LEMMA ReadOf ==
  ASSUME NEW E \in SUBSET Ids, NEW s \in Searches(E)
  PROVE  VectorHits(s, s.read) \in Seq(Hits(E))
<1>1. s.query \in Queries /\ s.limit \in Nat /\ s.read \in Reads(E)
  BY SearchAssumption DEF Searches
<1>2. ASSUME NEW m \in Ids, Eligible(s.project, m, s.read[m]) PROVE m \in E /\ s.read[m] \in Rows
  <2>1. s.read[m] # Unread
    BY <1>2 DEF Unread, NewRow, Eligible
  <2> QED BY <1>1, <2>1 DEF Reads
<1> QED BY <1>1, <1>2, VectorHitsIs

LEMMA CandidatesKeep == SearchInv /\ SemanticCandidates => SearchInv'
<1> SUFFICES ASSUME SearchInv, SemanticCandidates PROVE SearchInv'
  OBVIOUS
<1> DEFINE near == EligibleOf(search, Nearest(search), current)
<1>1. search.pc = "vectors" /\ Step
  BY DEF SemanticCandidates
<1>2. \/ search' = [search EXCEPT !.pc = "load", !.read = NothingRead, !.near = near]
      \/ search' = [search EXCEPT !.pc = "reply"]
  BY DEF SemanticCandidates
<1>3. search \in Searches(May) /\ search.pc # "idle" /\ May \in SUBSET Ids
      /\ search.query \in Queries /\ search.limit \in Nat
  BY <1>1, Typed
<1>4. near \in Seq(Ids)
  <2>1. Nearest(search) \in Seq(Ids)
    BY <1>3, NearestIs
  <2> DEFINE K == {m \in Ids : Eligible(search.project, m, current[m])}
  <2>2. near \in Seq(K) /\ K \subseteq Ids
    BY <2>1, EligibleOfIs
  <2> HIDE DEF K, near
  <2> QED BY <2>2, SeqGrows
<1> DEFINE none == NothingRead
<1>5. none \in Reads(May)
  BY NothingReadIs
<1>6. \/ search' = [search EXCEPT !.pc = "load", !.read = none, !.near = near]
      \/ search' = [search EXCEPT !.pc = "reply"]
  BY <1>2
<1> HIDE DEF near, none
<1>7. search' \in Searches(May)
  BY <1>3, <1>4, <1>5, <1>6, ZenonT(30) DEF Searches
<1>8. search'.project = search.project /\ search'.pc # "hydrate"
  BY <1>3, <1>6 DEF Searches
<1> QED BY <1>1, <1>3, <1>7, <1>8, StepKeeps

LEMMA LoadKeeps == SearchInv /\ LoadMemoryRow => SearchInv'
<1> SUFFICES ASSUME SearchInv, LoadMemoryRow PROVE SearchInv'
  OBVIOUS
<1> DEFINE m == Head(search.near)
           rest == Tail(search.near)
           read == RowRead(search, m)
<1>1. search.pc = "load" /\ search.near # <<>> /\ Step
  BY DEF LoadMemoryRow
<1>2. \/ search' = [search EXCEPT !.near = rest, !.read = read]
      \/ search' = [search EXCEPT !.near = rest]
  BY DEF LoadMemoryRow
<1>3. /\ search \in Searches(May) /\ search.pc # "idle" /\ May \in SUBSET Ids
      /\ \A k \in Ids : Eligible(search.project, k, current[k]) => k \in May
      /\ current \in [Ids -> Rows]
  BY <1>1, Typed
<1>4. search.near \in Seq(Ids) /\ search.read \in Reads(May)
  BY <1>3 DEF Searches
<1>5. m \in Ids /\ rest \in Seq(Ids)
  BY <1>1, <1>4
<1> HIDE DEF m, rest
<1>6. read \in Reads(May)
  BY <1>3, <1>4, <1>5 DEF RowRead, Reads
<1> HIDE DEF read
<1>7. search' \in Searches(May)
  BY <1>2, <1>3, <1>5, <1>6, ZenonT(30) DEF Searches
<1>8. search'.project = search.project /\ search'.pc # "hydrate"
  BY <1>1, <1>2, <1>3 DEF Searches
<1> QED BY <1>1, <1>3, <1>7, <1>8, StepKeeps

LEMMA MergeKeeps == SearchInv /\ MergeSemantic => SearchInv'
<1> SUFFICES ASSUME SearchInv, MergeSemantic PROVE SearchInv'
  OBVIOUS
<1> DEFINE v == VectorHits(search, search.read)
           merged == Merged(merge, search.ranked, v)
<1>1. search.pc = "load" /\ Step
  BY DEF MergeSemantic
<1>2. search' = [search EXCEPT !.pc = "reply", !.read = NothingRead, !.ranked = merged]
  BY DEF MergeSemantic
<1>3. search \in Searches(May) /\ search.pc # "idle" /\ May \in SUBSET Ids
  BY <1>1, Typed
<1>4. v \in Seq(Hits(May))
  BY <1>3, ReadOf
<1>5. search.ranked \in Seq(Hits(May)) /\ merge \in Merges
  BY <1>3 DEF Searches, SearchInv
<1> HIDE DEF v
<1>6. merged \in Seq(Hits(May))
  BY <1>3, <1>4, <1>5, MergedIs
<1> HIDE DEF merged
<1>7. search' \in Searches(May)
  BY <1>2, <1>3, <1>6, NothingReadIs, ZenonT(30) DEF Searches
<1>8. search'.project = search.project /\ search'.pc # "hydrate"
  BY <1>2, <1>3 DEF Searches
<1> QED BY <1>1, <1>3, <1>7, <1>8, StepKeeps

\* Recording that a memory was found does not change its row.
LEMMA ReplyChangesNothing ==
  ASSUME SearchInv, Reply
  PROVE  rows' = rows /\ current' = current
<1> DEFINE hits == MemoriesOf(Quota(search, search.ranked))
           after(m) == IF m \in hits THEN Touched(rows[m], "SEARCH_HIT") ELSE rows[m]
<1>1. \A m : after(m) = rows[m]
  BY DEF Touched
<1>2. /\ rows' = [m \in Ids |-> after(m)]
      /\ current' = [m \in Ids |-> IF after(m) = rows[m] THEN current[m] ELSE after(m)]
  BY DEF Reply
<1> HIDE DEF after
<1>3. rows \in [Ids -> Rows] /\ current \in [Ids -> Rows]
  BY DEF SearchInv, IndexInv
<1>4. rows' = [m \in Ids |-> rows[m]] /\ current' = [m \in Ids |-> current[m]]
  BY <1>1, <1>2
<1> QED BY <1>3, <1>4

LEMMA ReplyKeeps == SearchInv /\ Reply => SearchInv'
<1> SUFFICES ASSUME SearchInv, Reply PROVE SearchInv'
  OBVIOUS
<1>1. search.pc = "reply" /\ search' = [search EXCEPT !.pc = "answered"]
      /\ UNCHANGED <<merge, history, behind, ever, always, disturbed>>
  BY DEF Reply
<1>2. Step
  BY <1>1, ReplyChangesNothing DEF Step
<1>3. search \in Searches(May) /\ search.pc # "idle"
  BY <1>1, Typed
<1>4. search' \in Searches(May) /\ search'.project = search.project /\ search'.pc = "answered"
  BY <1>1, <1>3 DEF Searches
<1> QED BY <1>2, <1>3, <1>4, StepKeeps

LEMMA FinishKeeps == SearchInv /\ Finish => SearchInv'
BY DEF SearchInv, IndexInv, InProgress, Finish, history

LEMMA RestartKeeps == SearchInv /\ Restart => SearchInv'
BY DEF SearchInv, IndexInv, InProgress, Restart

\* What a change of one row leaves: the invariant, if the row is a row and
\* nothing comes back to life.
LEMMA WriteKeeps ==
  ASSUME SearchInv, NEW m \in Ids, NEW row \in Rows, Write(m, row),
         row.lifecycle = "ACTIVE" => rows[m].lifecycle = "ACTIVE"
  PROVE  SearchInv'
<1>1. /\ rows' = [rows EXCEPT ![m] = row] /\ merge' = merge /\ search' = search
      /\ \/ current' = [current EXCEPT ![m] = row] /\ stale' = stale \ {m}
         \/ current' = current /\ stale' = stale \cup {m}
  BY DEF Write
<1>2. \/ search.pc = "idle" /\ ever' = ever /\ behind' = behind
      \/ behind' = behind \cup stale' /\ ever' = ever \cup Entitled(search, rows')
  BY DEF Write
<1>3. rows \in [Ids -> Rows] /\ current \in [Ids -> Rows] /\ stale \in SUBSET Ids
  BY DEF SearchInv, IndexInv
<1>4. IndexInv'
  <2>1. rows' \in [Ids -> Rows] /\ current' \in [Ids -> Rows] /\ stale' \in SUBSET Ids
    BY <1>1, <1>3
  <2>2. rows'[m] = row /\ \A n \in Ids : n # m => rows'[n] = rows[n] /\ current'[n] = current[n]
    BY <1>1, <1>3
  <2>3. \/ current'[m] = row /\ m \notin stale'
        \/ current'[m] = current[m] /\ m \in stale'
    BY <1>1, <1>3
  <2>4. \A n \in Ids : n # m => (n \in stale' <=> n \in stale)
    BY <1>1
  <2>5. \A n \in Ids : n \notin stale' => current'[n] = rows'[n]
    BY <2>2, <2>3, <2>4 DEF SearchInv, IndexInv
  <2>6. \A n \in Ids : rows'[n].lifecycle = "ACTIVE" => current'[n].lifecycle = "ACTIVE"
    BY <2>2, <2>3 DEF SearchInv, IndexInv
  <2> QED BY <2>1, <2>5, <2>6 DEF IndexInv
<1>5. Entitled(search, rows') \in SUBSET Ids
  BY DEF Entitled
<1>6. behind' \in SUBSET Ids /\ ever' \in SUBSET Ids
  BY <1>2, <1>4, <1>5 DEF SearchInv, IndexInv
<1>7. InProgress'
  <2>1. CASE search = Idle
    BY <1>1, <2>1 DEF InProgress
  <2>2. CASE search # Idle
    <3>1. search \in Searches(May) /\ search.pc # "idle" /\ (search.pc = "hydrate" => search.todo # <<>>)
      BY <2>2, IdleIs DEF SearchInv, InProgress
    <3>2. behind' = behind \cup stale' /\ ever' = ever \cup Entitled(search, rows')
      BY <1>2, <3>1
    <3>3. May \subseteq May'
      BY <3>2 DEF May
    <3>4. Seq(Finds(May)) \subseteq Seq(Finds(May')) /\ Seq(Hits(May)) \subseteq Seq(Hits(May'))
      <4>1. Finds(May) \subseteq Finds(May') /\ Hits(May) \subseteq Hits(May')
        BY <3>3 DEF Finds, Hits
      <4> QED BY <4>1, SeqGrows
    <3>5. search' \in Searches(May')
      <4>2. Reads(May) \subseteq Reads(May')
        BY <3>3 DEF Reads
      <4>1. Searches(May) \subseteq Searches(May')
        BY <3>4, <4>2 DEF Searches
      <4> QED BY <1>1, <3>1, <4>1
    <3>6. Entitled(search, rows)' \subseteq ever' /\ stale' \subseteq behind'
      BY <1>1, <3>2
    <3> QED BY <1>1, <3>1, <3>5, <3>6 DEF InProgress
  <2> QED BY <2>1, <2>2
<1> QED BY <1>1, <1>4, <1>6, <1>7 DEF SearchInv

\* A judged row is a row, and so is one that was used.
LEMMA RowJudged ==
  ASSUME NEW row \in Rows, NEW c \in Grades
  PROVE  [row EXCEPT !.confidence = c, !.disputed = TRUE] \in Rows
<1> DEFINE U == 1 .. Seq2
           R == [lifecycle : {"ACTIVE", "SUPERSEDED", "FORGOTTEN"}, disputed : BOOLEAN,
                 confidence : Grades, activation : Grades, used : U]
<1>1. \A x : x \in Rows <=> x \in R /\ (x.disputed \/ x.confidence = 950)
  BY DEF Rows
<1> HIDE DEF U
<1> DEFINE x == [row EXCEPT !.confidence = c, !.disputed = TRUE]
<1>2. row \in R
  BY <1>1
<1>3. x \in R /\ x.disputed = TRUE
  BY <1>2
<1> HIDE DEF R, x
<1>4. x \in Rows
  BY <1>1, <1>3
<1> QED BY <1>4 DEF x

LEMMA RowUsed ==
  ASSUME NEW row \in Rows
  PROVE  /\ Touched(row, "RECALL") \in Rows
         /\ Touched(row, "RECALL").lifecycle = row.lifecycle
<1> DEFINE U == 1 .. Seq2
           R == [lifecycle : {"ACTIVE", "SUPERSEDED", "FORGOTTEN"}, disputed : BOOLEAN,
                 confidence : Grades, activation : Grades, used : U]
<1>1. Rows = {x \in R : x.disputed \/ x.confidence = 950}
  BY DEF Rows
<1>2. 1000 \in Grades /\ Seq2 \in U
  BY DEF Seq2, Grades
<1> DEFINE x == Touched(row, "RECALL")
<1>3. x = [row EXCEPT !.activation = 1000, !.used = Seq2]
  BY DEF Touched
<1> HIDE DEF U, x
<1>4. row \in R /\ (row.disputed \/ row.confidence = 950)
  BY <1>1
<1>5. x \in R /\ x.disputed = row.disputed /\ x.confidence = row.confidence /\ x.lifecycle = row.lifecycle
  <2> DEFINE a == 1000
             u == Seq2
  <2>1. a \in Grades /\ u \in U /\ x = [row EXCEPT !.activation = a, !.used = u]
    BY <1>2, <1>3
  <2> HIDE DEF a, u
  <2>2. x \in R
    BY <1>4, <2>1
  <2>3. x.disputed = row.disputed /\ x.confidence = row.confidence /\ x.lifecycle = row.lifecycle
    BY <1>4, <2>1
  <2> QED BY <2>2, <2>3
<1>6. x \in Rows
  BY <1>1, <1>4, <1>5
<1> QED BY <1>5, <1>6 DEF x

LEMMA RetireKeeps == SearchInv /\ Retire => SearchInv'
<1> SUFFICES ASSUME SearchInv, Retire PROVE SearchInv'
  OBVIOUS
<1>1. PICK m \in Changing, to \in {"SUPERSEDED", "FORGOTTEN"} :
        rows[m].lifecycle = "ACTIVE" /\ Write(m, [rows[m] EXCEPT !.lifecycle = to])
  BY DEF Retire
<1>2. m \in Ids /\ rows[m] \in Rows
  BY SearchAssumption DEF SearchInv, IndexInv
<1>3. [rows[m] EXCEPT !.lifecycle = to] \in Rows
  BY <1>2 DEF Rows
<1> QED BY <1>1, <1>2, <1>3, WriteKeeps

\* The first judgement lowers a confidence that is still the first one.
LEMMA MisleadKeeps == SearchInv /\ Mislead => SearchInv'
<1> SUFFICES ASSUME SearchInv, Mislead PROVE SearchInv'
  OBVIOUS
<1>1. PICK m \in Changing : /\ rows[m].lifecycle = "ACTIVE" /\ ~rows[m].disputed
                            /\ Write(m, [rows[m] EXCEPT !.confidence = @ - 200, !.disputed = TRUE])
  BY DEF Mislead
<1>2. m \in Ids /\ rows[m] \in Rows
  BY SearchAssumption DEF SearchInv, IndexInv
<1>3. rows[m].confidence - 200 \in Grades
  <2>1. rows[m].confidence = 950
    BY <1>1, <1>2 DEF Rows
  <2> QED BY <2>1 DEF Grades
<1>4. [rows[m] EXCEPT !.confidence = rows[m].confidence - 200, !.disputed = TRUE] \in Rows
  <2> DEFINE row == rows[m]
             c == row.confidence - 200
  <2>1. row \in Rows /\ c \in Grades
    BY <1>2, <1>3
  <2> HIDE DEF row, c
  <2>2. [row EXCEPT !.confidence = c, !.disputed = TRUE] \in Rows
    BY <2>1, RowJudged
  <2> QED BY <2>2 DEF row, c
<1> QED BY <1>1, <1>2, <1>4, WriteKeeps

LEMMA RecallKeeps == SearchInv /\ Recall => SearchInv'
<1> SUFFICES ASSUME SearchInv, Recall PROVE SearchInv'
  OBVIOUS
<1>1. PICK m \in Changing : Write(m, Touched(rows[m], "RECALL"))
  BY DEF Recall
<1>2. m \in Ids /\ rows[m] \in Rows
  BY SearchAssumption DEF SearchInv, IndexInv
<1>3. /\ Touched(rows[m], "RECALL") \in Rows
      /\ Touched(rows[m], "RECALL").lifecycle = rows[m].lifecycle
  BY <1>2, RowUsed
<1> QED BY <1>1, <1>2, <1>3, WriteKeeps

LEMMA SearchStepKeeps == SearchInv /\ [Next]_vars => SearchInv'
<1>1. SearchInv /\ UNCHANGED vars => SearchInv'
  BY DEF vars, SearchInv, IndexInv, InProgress, May, Entitled
<1> QED BY <1>1, BeginKeeps, QueryIndexKeeps, HydrateKeeps, LexicalKeeps, CandidatesKeep, LoadKeeps, MergeKeeps, ReplyKeeps,
           FinishKeeps, RetireKeeps, MisleadKeeps, RecallKeeps, RestartKeeps DEF Next, SearchStep

\* Whatever is read, fails or changes in between, a search carries nothing
\* but memories that the session was entitled to at some moment of it, or
\* that the index had wrong at some moment of it.
THEOREM SearchInvariant == Spec => []SearchInv
<1> QED BY SearchInit, SearchStepKeeps, PTL DEF Spec

-----------------------------------------------------------------------------
(***************************************************************************)
(* What is served.                                                         *)
(***************************************************************************)
LEMMA AnswerIs ==
  ASSUME SearchInv, search.pc # "idle"
  PROVE  Answer \in Seq(Hits(May))
<1>1. search \in Searches(May) /\ search.limit \in Nat
  BY Typed
<1>2. search.ranked \in Seq(Hits(May)) /\ IdentityMax \in Nat
  BY <1>1, SearchAssumption DEF Searches
<1> QED BY <1>1, <1>2, QuotaIs DEF Answer, Quota

\* The property of the run "search", for every corpus and every sequence of
\* changes: policy, scope and lifecycle are those of some moment of the search.
THEOREM ServesTheEntitled == Spec => []OnlyEligibleServed
<1>1. SearchInv => OnlyEligibleServed
  <2> SUFFICES ASSUME SearchInv PROVE Served \subseteq ever \cup behind
    BY DEF OnlyEligibleServed
  <2>1. CASE search.pc = "answered"
    <3>1. Answer \in Seq(Hits(May)) /\ May \in SUBSET Ids
      BY <2>1, AnswerIs, Typed
    <3>2. MemoriesOf(Answer) \subseteq May
      BY <3>1, HitsOfMemories
    <3> QED BY <2>1, <3>2 DEF Served, May
  <2>2. CASE search.pc # "answered"
    BY <2>2 DEF Served
  <2> QED BY <2>1, <2>2
<1> QED BY <1>1, SearchInvariant, PTL

-----------------------------------------------------------------------------
(***************************************************************************)
(* What lists keep.  A memory whose subject is the query stays an exact    *)
(* hit through scoring, sorting and merging, and a sorted list has its     *)
(* exact hits first.                                                       *)
(***************************************************************************)
Has(seq, x) == \E i \in 1 .. Len(seq) : seq[i] = x
Holds(seq, m) == \E i \in 1 .. Len(seq) : seq[i].m = m
HoldsExact(seq, m) == \E i \in 1 .. Len(seq) : seq[i].m = m /\ seq[i].class = Exact
ExactFirst(seq) == \A i, j \in 1 .. Len(seq) : i < j => seq[i].class >= seq[j].class

\* x has the elements of seq at the places in I, in their order.
Picks(x, seq, I) ==
  \E o \in [1 .. Len(x) -> I] :
    /\ \A n \in 1 .. Len(x) : x[n] = seq[o[n]]
    /\ \A n, l \in 1 .. Len(x) : n < l => o[n] < o[l]
    /\ \A i \in I : \E n \in 1 .. Len(x) : o[n] = i

LEMMA AtPicks ==
  ASSUME NEW S, NEW seq \in Seq(S), NEW I \in SUBSET (1 .. Len(seq))
  PROVE  /\ At(seq, I) \in Seq(S) /\ Len(At(seq, I)) = Cardinality(I)
         /\ Len(At(seq, I)) \in Nat /\ Picks(At(seq, I), seq, I)
<1>1. ASSUME NEW k, k = Cardinality(I), NEW x, x = At(seq, I)
      PROVE  /\ k \in Nat /\ Len(x) = k /\ x \in Seq(S)
             /\ \E o \in [1 .. k -> I] :
                  /\ \A n \in 1 .. k : x[n] = seq[o[n]]
                  /\ \A n, l \in 1 .. k : n < l => o[n] < o[l]
                  /\ \A i \in I : \E n \in 1 .. k : o[n] = i
  BY <1>1, AtIs, SMTT(60)
<1>2. ASSUME NEW k, k = Cardinality(I), NEW x, x = At(seq, I)
      PROVE  k \in Nat /\ Len(x) = k /\ x \in Seq(S) /\ Picks(x, seq, I)
  <2>1. /\ k \in Nat /\ Len(x) = k /\ x \in Seq(S)
        /\ \E o \in [1 .. k -> I] :
             /\ \A n \in 1 .. k : x[n] = seq[o[n]]
             /\ \A n, l \in 1 .. k : n < l => o[n] < o[l]
             /\ \A i \in I : \E n \in 1 .. k : o[n] = i
    BY <1>1, <1>2
  <2> QED BY <2>1, ZenonT(30) DEF Picks
<1> QED BY <1>2

LEMMA PartHas ==
  ASSUME NEW S, NEW seq \in Seq(S), NEW I \in SUBSET (1 .. Len(seq))
  PROVE  \A i \in I : \E j \in 1 .. Len(At(seq, I)) : At(seq, I)[j] = seq[i]
<1> DEFINE x == At(seq, I)
<1>1. Picks(x, seq, I)
  BY AtPicks
<1> HIDE DEF x
<1>2. \A i \in I : \E j \in 1 .. Len(x) : x[j] = seq[i]
  BY <1>1 DEF Picks
<1> QED BY <1>2 DEF x

LEMMA WithoutHas ==
  ASSUME NEW S, NEW seq \in Seq(S), NEW T, NEW i \in 1 .. Len(seq), seq[i].m \notin T
  PROVE  \E j \in 1 .. Len(Without(seq, T)) : Without(seq, T)[j] = seq[i]
<1> DEFINE I == {j \in DOMAIN seq : seq[j].m \notin T}
<1>1. I \in SUBSET (1 .. Len(seq)) /\ i \in I
  OBVIOUS
<1>2. Without(seq, T) = At(seq, I)
  BY DEF Without
<1> HIDE DEF I
<1> QED BY <1>1, <1>2, PartHas

LEMMA JoinHas ==
  ASSUME NEW S, NEW a \in Seq(S), NEW b \in Seq(S)
  PROVE  /\ a \o b \in Seq(S)
         /\ \A i \in 1 .. Len(a) : Has(a \o b, a[i])
         /\ \A i \in 1 .. Len(b) : Has(a \o b, b[i])
<1> DEFINE c == a \o b
<1>1. /\ c \in Seq(S) /\ Len(c) = Len(a) + Len(b)
      /\ \A i \in 1 .. Len(a) + Len(b) : c[i] = IF i <= Len(a) THEN a[i] ELSE b[i - Len(a)]
  BY ConcatProperties
<1>2. Len(a) \in Nat /\ Len(b) \in Nat
  OBVIOUS
<1> HIDE DEF c
<1>3. ASSUME NEW i \in 1 .. Len(a) PROVE Has(c, a[i])
  <2>1. i \in 1 .. Len(c) /\ c[i] = a[i]
    BY <1>1, <1>2
  <2> QED BY <2>1 DEF Has
<1>4. ASSUME NEW i \in 1 .. Len(b) PROVE Has(c, b[i])
  <2> DEFINE j == Len(a) + i
  <2>1. j \in 1 .. Len(c) /\ ~(j <= Len(a)) /\ j - Len(a) = i
    BY <1>1, <1>2
  <2> HIDE DEF j
  <2>2. c[j] = b[i]
    BY <1>1, <2>1
  <2> QED BY <2>1, <2>2 DEF Has
<1> QED BY <1>1, <1>3, <1>4 DEF c

LEMMA ExactIs ==
  ASSUME NEW m \in Ids, NEW q \in Queries, Matches[m][q].class = Exact
  PROVE  Facts[m].subject = q /\ q # <<>>
<1>1. q \in Texts
  BY TextsAre
<1>2. ClassifyMatch(m, q).class = Exact
  BY <1>1 DEF Matches
<1>3. q # <<>>
  BY SearchAssumption
<1> DEFINE s == Facts[m].subject
           c == Facts[m].content
           o == Overlap(q, m)
           i == Similarity(q, m)
           ps == MatchStrength(q, s)
           pc == MatchStrength(q, c)
           As(class, strength) == [class |-> class, strength |-> strength]
           a == 400 + (2 * o) \div 5
<1>4. ClassifyMatch(m, q) =
        CASE q = <<>> -> NoMatch
          [] s = q -> As(Exact, 1000)
          [] Within(s, q) -> As(OfSubject, ps)
          [] Within(c, q) -> As(Phrase, pc)
          [] HasCJK(q) /\ MixedSubject(s, q) -> As(OfSubject, ps)
          [] i >= 300 -> As(Fuzzy, i)
          [] o > 0 -> As(Fuzzy, a)
          [] OTHER -> NoMatch
  BY DEF ClassifyMatch
<1>5. /\ NoMatch.class # Exact
      /\ \A x : As(OfSubject, x).class # Exact
      /\ \A x : As(Phrase, x).class # Exact
      /\ \A x : As(Fuzzy, x).class # Exact
  BY DEF NoMatch, OfSubject, Phrase, Fuzzy, Exact
<1> HIDE DEF s, c, o, i, ps, pc, As, a
<1>6. s = q
  BY <1>2, <1>3, <1>4, <1>5
<1> QED BY <1>3, <1>6 DEF s

LEMMA ExactMatch ==
  ASSUME NEW c, NEW query, Matches[c.m][query].class = Exact
  PROVE  MatchFor(c, query) = Matches[c.m][query]
<1> DEFINE x == Matches[c.m][query]
<1>1. x.class = Exact /\ x # NoMatch /\ x.class # Fuzzy
  BY DEF NoMatch, Exact, Fuzzy
<1>2. MatchFor(c, query) = MatchAmong(Matches[c.m], c, query)
  BY DEF MatchFor
<1>3. MatchAmong(Matches[c.m], c, query) = Judged(x, Matches[c.m], c, query)
  BY <1>1 DEF MatchAmong
<1> HIDE DEF x
<1>4. Judged(x, Matches[c.m], c, query) = x
  BY <1>1 DEF Judged
<1> QED BY <1>2, <1>3, <1>4 DEF x

LEMMA ScoredHas ==
  ASSUME NEW E \in SUBSET Ids, NEW found \in Seq(Finds(E)), NEW query \in Queries, NEW m,
         Matches[m][query].class = Exact, Holds(found, m)
  PROVE  HoldsExact(Scored(found, query), m)
<1> DEFINE N == Len(found)
           R(i) == Ranked(found[i].m, found[i].row, MatchFor(found[i], query))
           all == [i \in DOMAIN found |-> R(i)]
           I == {i \in DOMAIN all : all[i].class # NoMatch.class}
<1>1. N \in Nat /\ DOMAIN found = 1 .. N /\ \A i \in 1 .. N : found[i] \in Finds(E)
  OBVIOUS
<1>2. PICK i \in 1 .. N : found[i].m = m
  BY DEF Holds
<1>3. R(i).m = m /\ R(i).class = Exact /\ Exact # NoMatch.class
  <2>1. MatchFor(found[i], query) = Matches[m][query]
    BY <1>2, ExactMatch
  <2> QED BY <1>2, <2>1 DEF Ranked, Exact, NoMatch
<1>4. ASSUME NEW j \in 1 .. N PROVE R(j) \in Hits(E)
  <2> DEFINE c == found[j]
  <2>1. c.m \in E /\ c.row \in Rows /\ c \in Finds(Ids)
    BY <1>1 DEF Finds
  <2> HIDE DEF c
  <2>2. MatchFor(c, query) \in AMatch
    BY <2>1, MatchForIs
  <2>3. Ranked(c.m, c.row, MatchFor(c, query)) \in Hits(E)
    BY <2>1, <2>2, RankedIs
  <2> QED BY <2>3 DEF c
<1>5. Scored(found, query) = At(all, I)
  BY DEF Scored
<1> HIDE DEF R, N
<1>6. all \in [1 .. N -> Hits(E)] /\ all[i] = R(i)
  BY <1>1, <1>2, <1>4
<1> HIDE DEF all
<1>7. all \in Seq(Hits(E)) /\ I \in SUBSET (1 .. Len(all)) /\ i \in I
  BY <1>1, <1>2, <1>3, <1>6
<1> HIDE DEF I
<1>8. \E j \in 1 .. Len(At(all, I)) : At(all, I)[j] = all[i]
  BY <1>7, PartHas
<1> QED BY <1>3, <1>5, <1>6, <1>8 DEF HoldsExact

LEMMA SortedHas ==
  ASSUME NEW E \in SUBSET Ids, NEW seq \in Seq(Hits(E))
  PROVE  /\ ExactFirst(SortedByKey(seq))
         /\ \A m : HoldsExact(seq, m) => HoldsExact(SortedByKey(seq), m)
<1> DEFINE n == Len(seq)
           x == SortedByKey(seq)
<1>1. \A h \in Hits(E) : h.key \in Keys /\ h.key[1] = h.class /\ h.class \in Int
  BY HitsAre DEF Classes
<1>2. /\ n \in Nat /\ Len(x) = n
      /\ \E o \in [1 .. n -> 1 .. n] :
           /\ \A i \in 1 .. n : x[i] = seq[o[i]]
           /\ \A a \in 1 .. n : \E i \in 1 .. n : o[i] = a
           /\ \A i, j \in 1 .. n : i < j <=> ByKey(seq, o[i], o[j])
  BY <1>1, SortedByKeyIs, ZenonT(30)
<1> HIDE DEF x
<1>3. PICK o \in [1 .. n -> 1 .. n] :
           /\ \A i \in 1 .. n : x[i] = seq[o[i]]
           /\ \A a \in 1 .. n : \E i \in 1 .. n : o[i] = a
           /\ \A i, j \in 1 .. n : i < j <=> ByKey(seq, o[i], o[j])
  BY <1>2
<1>4. ASSUME NEW i \in 1 .. n, NEW j \in 1 .. n, i < j PROVE x[i].class >= x[j].class
  <2> DEFINE a == x[i]
             b == x[j]
  <2>1. a \in Hits(E) /\ b \in Hits(E) /\ (LessKey(a.key, b.key) \/ a.key = b.key)
    <3>1. /\ o[i] \in 1 .. n /\ o[j] \in 1 .. n /\ ByKey(seq, o[i], o[j])
          /\ a = seq[o[i]] /\ b = seq[o[j]]
      BY <1>3, <1>4
    <3> HIDE DEF a, b
    <3>2. seq[o[i]] \in Hits(E) /\ seq[o[j]] \in Hits(E)
      BY <3>1
    <3>3. \/ LessKey(seq[o[i]].key, seq[o[j]].key)
          \/ seq[o[i]].key = seq[o[j]].key /\ o[i] < o[j]
      BY <3>1 DEF ByKey
    <3> QED BY <3>1, <3>2, <3>3
  <2> HIDE DEF a, b
  <2>2. /\ a.key \in Keys /\ b.key \in Keys /\ a.key[1] = a.class /\ b.key[1] = b.class
        /\ a.class \in Int /\ b.class \in Int
    BY <1>1, <2>1
  <2>3. ASSUME a.key = b.key PROVE a.class >= b.class
    BY <2>2, <2>3
  <2>4. ASSUME LessKey(a.key, b.key) PROVE a.class >= b.class
    <3> DEFINE k == a.key
               l == b.key
    <3>1. PICK t \in 1 .. 9 : k[t] > l[t] /\ \A u \in 1 .. t - 1 : k[u] = l[u]
      BY <2>2, <2>4, LessKeyIs
    <3>2. k[1] \in Int /\ l[1] \in Int
      BY <2>2
    <3> HIDE DEF k, l
    <3>3. k[1] >= l[1]
      <4>1. t = 1 \/ 1 \in 1 .. t - 1
        BY <3>1
      <4> QED BY <3>1, <3>2, <4>1
    <3> QED BY <2>2, <3>3 DEF k, l
  <2> QED BY <2>1, <2>3, <2>4 DEF a, b
<1>5. ASSUME NEW m, HoldsExact(seq, m) PROVE HoldsExact(x, m)
  <2>1. PICK a \in 1 .. n : seq[a].m = m /\ seq[a].class = Exact
    BY <1>5 DEF HoldsExact
  <2>2. PICK i \in 1 .. n : o[i] = a
    BY <1>3
  <2>3. x[i] = seq[a]
    BY <1>3, <2>2
  <2> QED BY <1>2, <2>1, <2>3 DEF HoldsExact
<1> QED BY <1>2, <1>4, <1>5 DEF ExactFirst, x

LEMMA MergedHas ==
  ASSUME NEW E \in SUBSET Ids, NEW lexical \in Seq(Hits(E)), NEW semantic \in Seq(Hits(E))
  PROVE  /\ ExactFirst(Merged("union", lexical, semantic))
         /\ \A m : HoldsExact(lexical, m) => HoldsExact(Merged("union", lexical, semantic), m)
<1> DEFINE H == Hits(E)
           other == Without(semantic, MemoriesOf(lexical))
           both == lexical \o other
<1>1. Merged("union", lexical, semantic) = SortedByKey(both)
  BY DEF Merged
<1>2. other \in Seq(H)
  BY WithoutIs
<1> HIDE DEF other
<1>3. both \in Seq(H) /\ \A i \in 1 .. Len(lexical) : Has(both, lexical[i])
  BY <1>2, JoinHas
<1> HIDE DEF both
<1>4. \A m : HoldsExact(lexical, m) => HoldsExact(both, m)
  BY <1>3 DEF HoldsExact, Has
<1> QED BY <1>1, <1>3, <1>4, SortedHas

\* An exact hit is among those kept, or as many others as its quota has are.
\* Those before it in its group are exact, as a sorted list begins with them.
LEMMA QuotaHas ==
  ASSUME NEW S, NEW ranked \in Seq(S), \A h \in S : h.class \in Classes, ExactFirst(ranked),
         NEW m, HoldsExact(ranked, m), NEW limit \in Nat, NEW identityLimit \in Nat,
         NEW w, w = WithinQuota(ranked, limit, identityLimit)
  PROVE  \/ Holds(w, m)
         \/ Cardinality({i \in DOMAIN w : /\ w[i].class = Exact
                                         /\ IdentityKind(Facts[w[i].m].kind) = IdentityKind(Facts[m].kind)})
              >= IF IdentityKind(Facts[m].kind) THEN identityLimit ELSE limit
<1> DEFINE N == Len(ranked)
           Bypasses(h) == IdentityKind(Facts[h.m].kind) /\ h.class >= OfSubject
           Before(i) == Cardinality({j \in 1 .. i - 1 : Bypasses(ranked[j]) = Bypasses(ranked[i])})
           L(i) == IF Bypasses(ranked[i]) THEN identityLimit ELSE limit
           K == {i \in DOMAIN ranked : Before(i) < L(i)}
           k == Cardinality(K)
<1>1. N \in Nat /\ DOMAIN ranked = 1 .. N /\ \A i \in 1 .. N : ranked[i].class \in 0 .. 5
  BY DEF Classes
<1>2. w = At(ranked, K)
  BY DEF WithinQuota
<1>3. PICK i \in 1 .. N : ranked[i].m = m /\ ranked[i].class = Exact
  BY DEF HoldsExact
<1>4. K \in SUBSET (1 .. N)
  OBVIOUS
<1> DEFINE G == {j \in 1 .. N : Bypasses(ranked[j]) = Bypasses(ranked[i])}
           l == L(i)
<1>5. \A j \in G : Bypasses(ranked[j]) = Bypasses(ranked[i]) /\ L(j) = l
  OBVIOUS
<1>6. ASSUME NEW j \in G PROVE Before(j) = Cardinality(Below(G, j))
  <2>1. j \in 1 .. N /\ Bypasses(ranked[j]) = Bypasses(ranked[i])
    OBVIOUS
  <2> DEFINE P(x) == Bypasses(ranked[x])
  <2>2. {x \in 1 .. j - 1 : P(x) = P(j)} = Below(G, j)
    <3>1. \A x : x \in 1 .. j - 1 <=> x \in 1 .. N /\ x < j
      BY <1>1, <2>1
    <3>2. P(j) = P(i) /\ \A x : x \in G <=> x \in 1 .. N /\ P(x) = P(i)
      BY <2>1
    <3> HIDE DEF P, G
    <3> QED BY <3>1, <3>2 DEF Below
  <2> HIDE DEF G
  <2> QED BY <2>2
<1>7. l \in {limit, identityLimit} /\ l \in Nat
  OBVIOUS
<1>8. \A j \in G : j \in K <=> Cardinality(Below(G, j)) < l
  <2>1. \A j \in G : j \in DOMAIN ranked
    BY <1>1
  <2>2. \A j : j \in K <=> j \in DOMAIN ranked /\ Before(j) < L(j)
    OBVIOUS
  <2> HIDE DEF G, K, Before, L, l
  <2> QED BY <1>5, <1>6, <2>1, <2>2
<1>9. G \in SUBSET (1 .. N) /\ i \in G
  OBVIOUS
<1> DEFINE Same(h) == IdentityKind(Facts[h.m].kind) = IdentityKind(Facts[m].kind)
<1>13. l = IF IdentityKind(Facts[m].kind) THEN identityLimit ELSE limit
  BY <1>3 DEF Exact, OfSubject
<1>14. ASSUME NEW j \in G, ranked[j].class = Exact PROVE Same(ranked[j])
  <2>1. Bypasses(ranked[j]) = Bypasses(ranked[i])
    OBVIOUS
  <2>2. Bypasses(ranked[j]) = IdentityKind(Facts[ranked[j].m].kind)
    BY <1>14 DEF IdentityKind, Exact, OfSubject
  <2>3. Bypasses(ranked[i]) = IdentityKind(Facts[m].kind)
    BY <1>3 DEF IdentityKind, Exact, OfSubject
  <2> QED BY <2>1, <2>2, <2>3
<1> HIDE DEF Bypasses, Before, L, K, l, G, N, Same
<1>10. G \in SUBSET Nat /\ IsFiniteSet(G)
  <2>1. IsFiniteSet(1 .. N)
    BY <1>1, FS_Interval
  <2>2. IsFiniteSet(G)
    BY <1>9, <2>1, FS_Subset
  <2> QED BY <1>1, <1>9, <2>2
<1>11. CASE i \in K
  <2>1. \E j \in 1 .. Len(At(ranked, K)) : At(ranked, K)[j] = ranked[i]
    BY <1>4, <1>11, PartHas DEF N
  <2> QED BY <1>2, <1>3, <2>1 DEF Holds
<1>12. CASE i \notin K
  <2> DEFINE g == Cardinality(G)
             o == InOrder(G)
             X == {n \in DOMAIN w : w[n].class = Exact /\ Same(w[n])}
  <2>1. /\ g \in Nat /\ \A n \in 1 .. g : o[n] \in G /\ Cardinality(Below(G, o[n])) = n - 1
        /\ \A a, b \in 1 .. g : a < b => o[a] < o[b]
        /\ \A a \in G : \E n \in 1 .. g : o[n] = a
    BY <1>10, InOrderLists
  <2> HIDE DEF o, g
  <2>2. PICK t \in 1 .. g : o[t] = i
    BY <1>9, <2>1
  <2>3. l < t
    <3>1. Cardinality(Below(G, i)) = t - 1 /\ ~(Cardinality(Below(G, i)) < l)
      BY <1>8, <1>9, <1>12, <2>1, <2>2
    <3> QED BY <1>7, <2>1, <3>1
  <2>4. ASSUME NEW n \in 1 .. l PROVE o[n] \in K /\ ranked[o[n]].class = Exact /\ Same(ranked[o[n]])
    <3>1. n \in 1 .. g /\ n < t /\ n - 1 < l
      BY <1>7, <2>1, <2>3
    <3>2. o[n] \in K
      BY <1>8, <2>1, <3>1
    <3>3. o[n] \in 1 .. N /\ o[n] < i
      BY <1>4, <2>1, <2>2, <3>1, <3>2
    <3>4. ranked[o[n]].class >= ranked[i].class
      BY <1>3, <3>3 DEF ExactFirst, N
    <3>5. ranked[o[n]].class \in 0 .. 5
      BY <1>1, <3>3
    <3>6. ranked[o[n]].class = Exact
      BY <1>3, <3>4, <3>5, SMTT(20) DEF Exact
    <3> QED BY <1>14, <2>1, <3>1, <3>2, <3>6
  <2>5. w \in Seq(S) /\ k \in Nat /\ Len(w) = k /\ Picks(w, ranked, K)
    BY <1>2, <1>4, AtPicks DEF N, k
  <2> HIDE DEF k
  <2>6. PICK p \in [1 .. k -> K] : /\ \A n \in 1 .. k : w[n] = ranked[p[n]]
                                   /\ \A a \in K : \E n \in 1 .. k : p[n] = a
    <3>1. \E p \in [1 .. Len(w) -> K] : /\ \A n \in 1 .. Len(w) : w[n] = ranked[p[n]]
                                        /\ \A a \in K : \E n \in 1 .. Len(w) : p[n] = a
      BY <2>5, Zenon DEF Picks
    <3>2. Len(w) = k
      BY <2>5
    <3> QED BY <3>1, <3>2
  <2> DEFINE f == [n \in 1 .. l |-> CHOOSE x \in 1 .. k : p[x] = o[n]]
  <2>7. ASSUME NEW n \in 1 .. l PROVE f[n] \in X /\ p[f[n]] = o[n]
    <3>1. f[n] \in 1 .. k /\ p[f[n]] = o[n]
      BY <2>4, <2>6
    <3> HIDE DEF f
    <3>2. w[f[n]] = ranked[o[n]] /\ f[n] \in DOMAIN w
      BY <2>5, <2>6, <3>1
    <3> QED BY <2>4, <3>1, <3>2
  <2>8. f \in Injection(1 .. l, X)
    <3>1. f \in [1 .. l -> X]
      BY <2>7
    <3>2. ASSUME NEW a \in 1 .. l, NEW b \in 1 .. l, f[a] = f[b] PROVE a = b
      <4>1. o[a] = o[b]
        BY <2>7, <3>2
      <4>2. a \in 1 .. g /\ b \in 1 .. g /\ a \in Nat /\ b \in Nat
        BY <1>7, <2>1, <2>3
      <4>3. o[a] \in Nat /\ (a < b => o[a] < o[b]) /\ (b < a => o[b] < o[a])
        BY <1>10, <2>1, <4>2
      <4> QED BY <4>1, <4>2, <4>3
    <3> HIDE DEF f
    <3>3. DOMAIN f = 1 .. l
      BY <3>1
    <3>4. IsInjective(f)
      BY <3>2, <3>3 DEF IsInjective
    <3> QED BY <3>1, <3>4 DEF Injection
  <2>9. IsFiniteSet(X)
    <3>1. IsFiniteSet(DOMAIN w)
      BY <2>5, RangeFinite
    <3> QED BY <3>1, FS_Subset
  <2> HIDE DEF X, f
  <2>10. Cardinality(1 .. l) = l
    <3>1. \A a, b \in Int : Cardinality(a .. b) = IF a > b THEN 0 ELSE b - a + 1
      BY FS_Interval
    <3>2. Cardinality(1 .. l) = IF 1 > l THEN 0 ELSE l - 1 + 1
      BY <1>7, <3>1
    <3> QED BY <1>7, <3>2
  <2>11. Cardinality(1 .. l) <= Cardinality(X) /\ Cardinality(X) \in Nat
    BY <2>8, <2>9, FS_Injection, FS_CardinalityType
  <2>12. Cardinality(X) >= l
    BY <1>7, <2>10, <2>11
  <2> QED BY <1>13, <2>12 DEF X, Same
<1> QED BY <1>11, <1>12
-----------------------------------------------------------------------------
(***************************************************************************)
(* What the tables find.  A memory whose subject is the query is among the *)
(* candidates for the query, by any of the tables and by the scan.         *)
(***************************************************************************)
\* Where there is a first place with a property, and it is the first, that
\* is the one selected.
LEMMA FirstSelected ==
  ASSUME NEW I \in SUBSET Nat, 1 \in I, \A i \in I : 1 <= i
  PROVE  Min(I) = 1
<1>1. \A x \in I : (\A y \in I : x <= y) => x = 1
  OBVIOUS
<1>2. Min(I) \in I /\ \A y \in I : Min(I) <= y
  BY DEF Min
<1> QED BY <1>1, <1>2

LEMMA LikeFinds ==
  ASSUME NEW r, NEW q \in Text, q # <<>>, NEW m \in Filtered(r), Facts[m].subject = q
  PROVE  m \in LikeCandidates(r, q)
<1> DEFINE p == Prefixes2(q)
           tried == <<q>> \o p
           I == {i \in 1 .. Len(tried) : Holding(r, tried[i]) # {}}
           i == SelectInSeq(tried, LAMBDA t : Holding(r, t) # {})
<1>1. p \in Seq(Text)
  BY BeginningsAre
<1> HIDE DEF p
<1>2. tried \in Seq(Text) /\ Len(tried) = 1 + Len(p) /\ tried[1] = q /\ Len(p) \in Nat
  BY <1>1
<1>3. LikeCandidates(r, q) = IF i = 0 THEN {} ELSE Holding(r, tried[i])
  BY DEF LikeCandidates, p
<1>4. i = IF I # {} THEN Min(I) ELSE 0
  BY DEF SelectInSeq
<1>5. Within(q, q)
  <2> DEFINE n == Len(q)
  <2>1. n \in Nat /\ n # 0
    BY DEF Text
  <2>2. SubSeq(q, 1, n) = q
    BY <2>1 DEF Text
  <2> HIDE DEF n
  <2>3. 0 \in 0 .. n - n /\ 0 + 1 = 1 /\ 0 + n = n
    BY <2>1
  <2>4. \E x \in 0 .. n - n : SubSeq(q, x + 1, x + n) = q
    BY <2>2, <2>3
  <2> QED BY <2>4 DEF Within, n
<1>6. m \in Holding(r, q)
  BY <1>5 DEF Holding
<1> HIDE DEF tried, i
<1>7. I \in SUBSET Nat /\ 1 \in I /\ \A x \in I : 1 <= x
  BY <1>2, <1>6
<1> HIDE DEF I
<1>8. i = 1
  BY <1>4, <1>7, FirstSelected
<1> QED BY <1>2, <1>3, <1>6, <1>8

\* What is short of the limit is all there is, in any order.
LEMMA UnorderedAll ==
  ASSUME NEW S \in SUBSET Ids, NEW list \in Unordered(S), Len(list) # CandidateCap, NEW m \in S
  PROVE  Holds(list, m)
<1> DEFINE n == Min({Cardinality(S), CandidateCap})
<1>1. PICK s \in UNION {SetToSeqs(k) : k \in kSubset(n, S)} :
        list = [i \in 1 .. n |-> [m |-> s[i], relevance |-> 0]]
  BY DEF Unordered
<1>2. PICK k \in kSubset(n, S) : s \in SetToSeqs(k)
  BY <1>1
<1>3. k \in SUBSET S /\ Cardinality(k) = n
  BY <1>2 DEF kSubset
<1>4. IsFiniteSet(S) /\ Cardinality(S) \in Nat
  BY IdsFinite, FS_Subset, FS_CardinalityType
<1>5. n \in Nat /\ (n = Cardinality(S) \/ n = CandidateCap)
  BY <1>4, SearchAssumption, SmallerOf
<1> HIDE DEF n
<1>6. Len(list) = n /\ \A i \in 1 .. n : list[i].m = s[i]
  BY <1>1, <1>5
<1>7. n = Cardinality(S) /\ k = S
  BY <1>3, <1>4, <1>5, <1>6, FS_Subset
<1>8. s \in [1 .. n -> S] /\ \A i, j \in 1 .. n : i # j => s[i] # s[j]
  BY <1>2, <1>7 DEF SetToSeqs
<1>9. s \in Injection(1 .. n, S)
  <2>1. DOMAIN s = 1 .. n
    BY <1>8
  <2> QED BY <1>8, <2>1 DEF Injection, IsInjective
<1>10. Cardinality(1 .. n) = n
  <2>1. \A a, b \in Int : Cardinality(a .. b) = IF a > b THEN 0 ELSE b - a + 1
    BY FS_Interval
  <2>2. Cardinality(1 .. n) = IF 1 > n THEN 0 ELSE n - 1 + 1
    BY <1>5, <2>1
  <2> QED BY <1>5, <2>2
<1>11. s \in Surjection(1 .. n, S)
  BY <1>4, <1>7, <1>9, <1>10, FS_Injection
<1>12. \E i \in 1 .. n : s[i] = m
  BY <1>11 DEF Surjection
<1> QED BY <1>6, <1>12 DEF Holds

\* A score that is not zero is a relevance that is not zero.
LEMMA ShareIs ==
  ASSUME NEW s \in Nat, s > 0
  PROVE  Share(s) > 0
<1> DEFINE a == 1000 * s
           b == 1 + s
           d == a \div b
<1>1. a \in Nat /\ b \in Nat /\ b > 0 /\ a >= b
  OBVIOUS
<1>2. Share(s) = d
  BY DEF Share, Permille
<1> HIDE DEF a, b
<1>3. d \in Int /\ b * d <= a /\ a < b * (d + 1)
  BY <1>1
<1> HIDE DEF d
<1>4. ASSUME ~(d > 0) PROVE FALSE
  <2>1. d + 1 <= 1 /\ d + 1 \in Int
    BY <1>3, <1>4
  <2>2. b * (d + 1) <= b
    BY <1>1, <2>1
  <2> QED BY <1>1, <1>3, <2>2
<1> QED BY <1>2, <1>4
\* Sorting leaves no memory out.
LEMMA SortedAll ==
  ASSUME NEW S \in SUBSET Ids, NEW f, \A a \in S : f[a] \in Int, NEW o, Descends(o, f, S)
  PROVE  o \in Seq(S) /\ \A a \in S : \E i \in 1 .. Len(o) : o[i] = a
<1>1. IsFiniteSet(S) /\ S \in SUBSET Nat
  BY IdsFinite, FS_Subset
<1>2. Orders(o, Falling(f, S), S)
  BY <1>1, SortedFalling DEF Descends
<1> QED BY <1>2 DEF Orders

\* Some of the terms of a memory, and not none, are a score.
LEMMA ScoreOfOwn ==
  ASSUME NEW m \in Ids, NEW terms, terms \subseteq SubjectTerms[m], terms # {}
  PROVE  Score(m, terms) \in Nat /\ Score(m, terms) > 0
<1> DEFINE s == SubjectTerms[m]
           a == Cardinality(terms \cap s)
           b == Cardinality(terms \cap ContentTerms[m])
<1>1. /\ Facts[m].subject \in Text /\ Facts[m].content \in Text
      /\ s = Terms(Tokens(Facts[m].subject)) /\ ContentTerms[m] = Terms(Tokens(Facts[m].content))
  BY FactsAre DEF SubjectTerms, ContentTerms
<1>2. a \in Nat /\ b \in Nat /\ IsFiniteSet(s)
  BY <1>1, TermsOfText
<1>3. terms \cap s = terms /\ IsFiniteSet(terms)
  BY <1>2, FS_Subset
<1>4. a # 0
  BY <1>3, FS_EmptySet
<1>5. Score(m, terms) = 4 * a + b
  BY DEF Score
<1> HIDE DEF a, b
<1> QED BY <1>2, <1>4, <1>5

\* A text without CJK characters has a term.
LEMMA TermsExist ==
  ASSUME NEW q \in Text, q # <<>>, ~HasCJK(q)
  PROVE  TermsOf(q) # {}
<1>1. q[1] \in Range(q) \ CJK
  <2>1. 1 \in DOMAIN q
    BY DEF Text
  <2>2. q[1] \in Range(q)
    BY <2>1 DEF Range
  <2> QED BY <2>2 DEF HasCJK
<1>2. <<q[1]>> \in Tokens(q)
  BY <1>1 DEF Tokens
<1>3. \A T : T # {} => Terms(T) # {}
  BY DEF Terms
<1> QED BY <1>2, <1>3 DEF TermsOf

LEMMA BM25All ==
  ASSUME NEW r, NEW terms, NEW must, NEW m \in Filtered(r), Relevance(m, terms) > 0,
         must = {} \/ Score(m, must) > 0
  PROVE  Holds(BM25(r, terms, must), m)
<1> DEFINE f == [n \in Ids |-> Relevance(n, terms)]
           S == {n \in Filtered(r) : f[n] > 0 /\ (must = {} \/ Score(n, must) > 0)}
           o == Sorted(S, LAMBDA k, n : f[k] > f[n] \/ (f[k] = f[n] /\ k < n))
           x == BM25(r, terms, must)
           L == Len(o)
<1>1. x = [i \in DOMAIN o |-> [m |-> o[i], relevance |-> f[o[i]]]]
  BY DEF BM25
<1>2. \A n \in Ids : f[n] \in Nat
  BY RelevanceIs
<1>3. S \in SUBSET Ids
  BY DEF Filtered
<1>4. Descends(o, f, S)
  BY DEF Sorted, Descends
<1>5. m \in S
  <2>1. m \in Ids
    BY DEF Filtered
  <2> QED BY <2>1
<1> HIDE DEF f, S, o, x
<1>6. \A a \in S : f[a] \in Int
  BY <1>2, <1>3
<1>7. o \in Seq(S) /\ \A a \in S : \E i \in 1 .. Len(o) : o[i] = a
  BY <1>3, <1>4, <1>6, SortedAll
<1>8. L \in Nat /\ DOMAIN o = 1 .. L /\ \E i \in 1 .. L : o[i] = m
  BY <1>5, <1>7
<1> HIDE DEF L
<1>9. Len(x) = L /\ \A i \in 1 .. L : x[i].m = o[i]
  BY <1>1, <1>8
<1> QED BY <1>8, <1>9 DEF Holds, x

\* A list that is short of its limit has not been cut.
LEMMA Uncut ==
  ASSUME NEW S, NEW seq \in Seq(S), NEW n \in Nat, Len(Upto(seq, n)) # n
  PROVE  Upto(seq, n) = seq
<1>1. CASE Len(seq) <= n
  BY <1>1 DEF Upto
<1>2. CASE ~(Len(seq) <= n)
  <2>1. n \in 0 .. Len(seq)
    BY <1>2
  <2>2. Len(SubSeq(seq, 1, n)) = n
    BY <2>1, BeginningIs
  <2> QED BY <1>2, <2>2 DEF Upto
<1> QED BY <1>1, <1>2

LEMMA BM25Finds ==
  ASSUME NEW r, NEW q \in Text, q # <<>>, ~HasCJK(q), NEW m \in Filtered(r), Facts[m].subject = q,
         Len(BM25Candidates(r, q)) # CandidateCap
  PROVE  Holds(BM25Candidates(r, q), m)
<1> DEFINE terms == TermsOf(q)
           must == Anchors(terms)
           a == BM25(r, terms, must)
           b == BM25(r, terms, {})
<1>1. m \in Ids
  BY DEF Filtered
<1>2. terms # {} /\ must \subseteq terms /\ terms = SubjectTerms[m]
  BY <1>1, TermsExist DEF Anchors, TermsOf, SubjectTerms
<1>3. Relevance(m, terms) > 0
  BY <1>1, <1>2, ScoreOfOwn, ShareIs DEF Relevance
<1>4. must = {} \/ Score(m, must) > 0
  BY <1>1, <1>2, ScoreOfOwn
<1>5. BM25Candidates(r, q) = Upto(OrElse(a, b), CandidateCap)
  BY DEF BM25Candidates, BM25Of
<1>6. Holds(a, m)
  BY <1>3, <1>4, BM25All
<1>7. a \in Seq(Candidates)
  BY BM25Is
<1> HIDE DEF a, b
<1>8. OrElse(a, b) = a
  BY <1>6 DEF Holds, OrElse
<1>9. CandidateCap \in Nat
  BY SearchAssumption
<1> QED BY <1>5, <1>6, <1>7, <1>8, <1>9, Uncut

\* Whatever table answers a query whose candidates are not cut, a memory
\* whose subject it is is among them.
LEMMA CandidatesHave ==
  ASSUME NEW r, NEW q \in Text, q # <<>>, NEW m \in Filtered(r), Facts[m].subject = q,
         NEW c \in RankedCandidates(r, q), Len(c.list) # CandidateCap
  PROVE  ~c.failed => Holds(c.list, m)
<1> DEFINE legacy(why) == {Found(list, why) : list \in Unordered(LikeCandidates(r, q))}
                            \cup (IF "fts" \in Faults THEN {QueryFailed} ELSE {})
<1>1. ASSUME NEW why, c \in legacy(why) PROVE ~c.failed => Holds(c.list, m)
  <2>1. LikeCandidates(r, q) \in SUBSET Ids
    BY DEF LikeCandidates, Holding, Filtered
  <2>2. CASE c = QueryFailed
    BY <2>2 DEF QueryFailed
  <2>3. CASE c \in {Found(list, why) : list \in Unordered(LikeCandidates(r, q))}
    <3>1. PICK list \in Unordered(LikeCandidates(r, q)) : c = Found(list, why)
      BY <2>3
    <3>2. c.list = list
      BY <3>1 DEF Found
    <3> QED BY <2>1, <3>2, LikeFinds, UnorderedAll
  <2> QED BY <1>1, <2>2, <2>3
<1>2. \/ c = Found(BM25Candidates(r, q), {}) /\ ~HasCJK(q)
      \/ \E why : c \in legacy(why)
  BY DEF RankedCandidates
<1>3. CASE c = Found(BM25Candidates(r, q), {}) /\ ~HasCJK(q)
  <2>1. c.list = BM25Candidates(r, q)
    BY <1>3 DEF Found
  <2> QED BY <1>3, <2>1, BM25Finds
<1> HIDE DEF legacy
<1> QED BY <1>1, <1>2, <1>3

\* A failed query says so, and only a failed one does.
LEMMA FailureTold ==
  ASSUME NEW r, NEW q, NEW c \in RankedCandidates(r, q)
  PROVE  c.failed => "error" \in c.why
<1> DEFINE legacy(why) == {Found(list, why) : list \in Unordered(LikeCandidates(r, q))}
                            \cup (IF "fts" \in Faults THEN {QueryFailed} ELSE {})
<1>1. \/ \E list, why : c = Found(list, why)
      \/ c = QueryFailed
  BY DEF RankedCandidates
<1>2. \A list, why : Found(list, why).failed = FALSE
  BY DEF Found
<1>3. "error" \in QueryFailed.why
  BY DEF QueryFailed
<1> QED BY <1>1, <1>2, <1>3

\* The scan finds every eligible memory.
LEMMA ScanFinds ==
  ASSUME NEW r, NEW m \in Filtered(r)
  PROVE  Holds(EligibleRows(r), m)
<1> DEFINE S == Filtered(r)
           f == [n \in Ids |-> Facts[n].updated]
           o == Sorted(S, LAMBDA k, n : \/ Facts[k].updated > Facts[n].updated
                                        \/ Facts[k].updated = Facts[n].updated /\ k < n)
           x == EligibleRows(r)
           L == Len(o)
<1>1. x = [i \in DOMAIN o |-> [m |-> o[i], query |-> r.query, relevance |-> 0, row |-> current[o[i]]]]
  BY DEF EligibleRows
<1>2. S \in SUBSET Ids
  BY DEF Filtered
<1>3. \A n \in S : f[n] = Facts[n].updated /\ f[n] \in Int
  BY <1>2, FactsAre
<1>4. Descends(o, f, S)
  <2>1. \A a, b \in S : (Facts[b].updated > Facts[a].updated \/ (Facts[b].updated = Facts[a].updated /\ b < a))
                          <=> (f[b] > f[a] \/ (f[b] = f[a] /\ b < a))
    BY <1>3
  <2> DEFINE B(a) == {b \in S : Facts[b].updated > Facts[a].updated \/ (Facts[b].updated = Facts[a].updated /\ b < a)}
             C(a) == {b \in S : f[b] > f[a] \/ (f[b] = f[a] /\ b < a)}
             V(i) == CHOOSE a \in S : Cardinality(B(a)) = i - 1
             W(i) == CHOOSE a \in S : Cardinality(C(a)) = i - 1
  <2>2. \A a \in S : B(a) = C(a)
    BY <2>1
  <2>3. o = [i \in 1 .. Cardinality(S) |-> V(i)]
    BY DEF Sorted
  <2> HIDE DEF B, C, S, f
  <2>4. \A i : V(i) = W(i)
    BY <2>2
  <2> HIDE DEF V, o
  <2>5. o = [i \in 1 .. Cardinality(S) |-> W(i)]
    BY <2>3, <2>4
  <2> QED BY <2>5 DEF Descends, C
<1> HIDE DEF S, f, o, x
<1>5. o \in Seq(S) /\ \A a \in S : \E i \in 1 .. Len(o) : o[i] = a
  BY <1>2, <1>3, <1>4, SortedAll
<1>6. L \in Nat /\ DOMAIN o = 1 .. L /\ \E i \in 1 .. L : o[i] = m
  BY <1>5 DEF S
<1> HIDE DEF L
<1>7. Len(x) = L /\ \A i \in 1 .. L : x[i].m = o[i]
  BY <1>1, <1>6
<1> QED BY <1>6, <1>7 DEF Holds, x
\* Hydration keeps a candidate that is still eligible.
LEMMA HydratedHas ==
  ASSUME NEW r, r.batch \in Seq(Candidates), NEW m, Holds(r.batch, m),
         Eligible(r.project, m, current[m]) /\ KindRequested(m, r.kinds)
  PROVE  Holds(HydratedOf(r), m)
<1> DEFINE batch == r.batch
           Now(n) == Eligible(r.project, n, current[n]) /\ KindRequested(n, r.kinds)
           I == {i \in DOMAIN batch : Now(batch[i].m)}
           new == At(batch, I)
           One(c) == [m |-> c.m, query |-> Head(r.todo), relevance |-> c.relevance, row |-> current[c.m]]
           L == Len(new)
           x == HydratedOf(r)
<1>1. x = [i \in DOMAIN new |-> One(new[i])]
  BY DEF HydratedOf
<1>2. PICK i \in 1 .. Len(batch) : batch[i].m = m
  BY DEF Holds
<1> HIDE DEF batch
<1>3. batch \in Seq(Candidates)
  BY DEF batch
<1>4. I \in SUBSET (1 .. Len(batch)) /\ i \in I
  BY <1>2, <1>3
<1> HIDE DEF I
<1>5. new \in Seq(Candidates) /\ \E j \in 1 .. L : new[j] = batch[i]
  BY <1>3, <1>4, PartIs, PartHas
<1> HIDE DEF new, x
<1>6. L \in Nat /\ DOMAIN new = 1 .. L
  BY <1>5
<1> HIDE DEF L
<1>7. Len(x) = L /\ \A j \in 1 .. L : x[j].m = new[j].m
  BY <1>1, <1>6
<1> QED BY <1>2, <1>5, <1>7 DEF Holds, x

\* Joining loses nothing of either list.
LEMMA JoinedHas ==
  ASSUME NEW S, NEW a \in Seq(S), NEW b \in Seq(S), NEW m, Holds(a, m) \/ Holds(b, m)
  PROVE  Holds(Joined(a, b), m)
<1> DEFINE other == Without(b, MemoriesOf(a))
<1>1. Joined(a, b) = a \o other
  BY DEF Joined
<1>2. other \in Seq(S)
  BY WithoutIs
<1>3. Holds(a, m) \/ Holds(other, m)
  <2>1. CASE Holds(a, m)
    BY <2>1
  <2>2. CASE ~Holds(a, m)
    <3>1. PICK i \in 1 .. Len(b) : b[i].m = m
      BY <2>2 DEF Holds
    <3>2. m \notin MemoriesOf(a)
      BY <2>2, MemoriesAre DEF Holds
    <3>3. \E j \in 1 .. Len(other) : other[j] = b[i]
      BY <3>1, <3>2, WithoutHas
    <3> QED BY <3>1, <3>3 DEF Holds
  <2> QED BY <2>1, <2>2
<1> HIDE DEF other
<1> DEFINE c == a \o other
<1>4. \A i \in 1 .. Len(a) : Has(c, a[i])
  BY <1>2, JoinHas
<1>5. \A i \in 1 .. Len(other) : Has(c, other[i])
  BY <1>2, JoinHas
<1> HIDE DEF c
<1>6. Holds(c, m)
  BY <1>3, <1>4, <1>5 DEF Holds, Has
<1> QED BY <1>1, <1>6 DEF c

-----------------------------------------------------------------------------
(***************************************************************************)
(* What a search carries of a memory whose subject is the query.  The      *)
(* query is asked first.  As long as nothing is excused, either the        *)
(* memory is in the list that the search is working on, or the index has   *)
(* failed for every text so far and the scan is still to come.             *)
(***************************************************************************)
Ranking == {"vectors", "load", "reply", "answered"}
Asked(s) == Len(s.todo) < Len(Expanded[s.query])

Whole(how, s, d) ==
  /\ how = "union" /\ d \cap {"hydrate", "capped"} = {}
  /\ "error" \in d => ~s.ok

Kept(s, m) ==
  /\ s.pc = "query" /\ Asked(s) /\ s.ok => Holds(s.found, m)
  /\ s.pc = "hydrate" => Holds(IF Asked(s) THEN s.found ELSE s.batch, m)
  /\ s.pc \in Ranking => HoldsExact(s.ranked, m)

Begun(s, d) ==
  /\ s.todo = Expanded[s.query] \/ Asked(s)
  /\ s.pc = "hydrate" => s.ok
  /\ ~s.ok => s.found = <<>>
  /\ Asked(s) /\ ~s.ok => "error" \in d

Carries(how, s, d, all) ==
  /\ Begun(s, d)
  /\ how = "union" /\ s.pc \in Ranking => ExactFirst(s.ranked)
  /\ Whole(how, s, d) => \A m \in all : Matches[m][s.query].class = Exact => Kept(s, m)

KeptInv ==
  search.pc # "idle" =>
    always \subseteq EligibleNow(search, rows) /\ Carries(merge, search, disturbed, always)

\* The query is the first text of its expansion.
LEMMA FirstText ==
  ASSUME NEW q \in Queries
  PROVE  /\ Expanded[q] \in Seq(Texts) /\ Len(Expanded[q]) \in Nat /\ Len(Expanded[q]) > 0
         /\ Expanded[q] # <<>> /\ Head(Expanded[q]) = q /\ q \in Text /\ q # <<>>
<1>1. q \in Text /\ q # <<>> /\ Expanded[q] \in Seq(Texts)
  BY TextsAre, SearchAssumption
<1>2. Len(Expand(q)) > 0 /\ Expand(q)[1] = q
  BY <1>1, ExpandIs
<1>3. Expanded[q] = Expand(q)
  BY DEF Expanded
<1> QED BY <1>1, <1>2, <1>3

\* What the session is entitled to all along is eligible in the index too.
LEMMA AlwaysFiltered ==
  ASSUME SearchInv, KeptInv, search.pc # "idle", NEW m \in always
  PROVE  m \in Ids /\ m \in Filtered(search)
BY DEF KeptInv, EligibleNow, SearchInv, IndexInv, Filtered, Eligible

\* A step of the search itself changes nothing but the search.
LEMMA CarriedOn ==
  ASSUME KeptInv, search.pc # "idle", Step,
         search'.project = search.project, search'.kinds = search.kinds,
         Carries(merge, search', disturbed', always)
  PROVE  KeptInv'
<1>1. rows' = rows /\ merge' = merge /\ always' = always
  BY DEF Step
<1>2. always \subseteq EligibleNow(search, rows)
  BY DEF KeptInv
<1>3. always' \subseteq EligibleNow(search', rows')
  BY <1>1, <1>2 DEF EligibleNow
<1> QED BY <1>1, <1>3 DEF KeptInv
LEMMA BeginCarries == SearchInv /\ Begin => KeptInv'
<1> SUFFICES ASSUME SearchInv, Begin PROVE KeptInv'
  OBVIOUS
<1>1. PICK query \in Queries, project \in Projects, kinds \in Kinds, limit \in Limits, mode \in SearchModes :
        search' = [pc |-> "query", query |-> query, project |-> project, kinds |-> kinds,
                   limit |-> limit, mode |-> mode, todo |-> Expanded[query], batch |-> <<>>,
                   found |-> <<>>, ok |-> FALSE, near |-> <<>>, read |-> NothingRead, ranked |-> <<>>]
  BY DEF Begin
<1>2. always' = EligibleNow(search', rows) /\ rows' = rows /\ merge' = merge
  BY DEF Begin
<1> DEFINE s == search'
<1>3. s.pc = "query" /\ s.query = query /\ s.todo = Expanded[query] /\ s.ok = FALSE /\ s.found = <<>>
  BY <1>1
<1> HIDE DEF s
<1>4. Len(Expanded[query]) \in Nat
  BY FirstText
<1>5. ~Asked(s)
  BY <1>3, <1>4 DEF Asked
<1>6. \A d : Begun(s, d)
  BY <1>3, <1>5 DEF Begun
<1>7. \A m : Kept(s, m)
  BY <1>3, <1>5 DEF Kept, Ranking
<1>8. \A how, d, all : Carries(how, s, d, all)
  BY <1>3, <1>6, <1>7 DEF Carries, Ranking
<1>9. EligibleNow(search', rows') = EligibleNow(search', rows)
  BY <1>2
<1> QED BY <1>2, <1>8, <1>9 DEF KeptInv, s

\* A query of the index: the first one finds every exact memory, or fails;
\* later ones add to what there is.
LEMMA QueryIndexCarries == SearchInv /\ KeptInv /\ QueryIndex => KeptInv'
<1> SUFFICES ASSUME SearchInv, KeptInv, QueryIndex PROVE KeptInv'
  OBVIOUS
<1>1. search.pc = "query" /\ search.todo # <<>> /\ Step
  BY DEF QueryIndex
<1>2. PICK c \in RankedCandidates(search, Head(search.todo)) :
        /\ search' = IF c.failed THEN [search EXCEPT !.todo = Tail(@)]
                     ELSE [search EXCEPT !.pc = "hydrate", !.batch = c.list, !.ok = TRUE]
        /\ disturbed' = disturbed \cup (c.why \cup (IF Len(c.list) = CandidateCap THEN {"capped"} ELSE {}))
  BY DEF QueryIndex, Disturb
<1>3. c.failed \in BOOLEAN /\ (c.failed => "error" \in c.why)
  BY RankedCandidatesAre, FailureTold
<1>4. search \in Searches(May) /\ search.pc # "idle" /\ search.query \in Queries
  BY <1>1, Typed
<1> DEFINE q == search.query
           N == Len(Expanded[q])
           s == search
           t == search'
           d == disturbed
           e == disturbed'
<1>5. s.todo \in Seq(Texts) /\ s.ok \in BOOLEAN
  BY <1>4 DEF Searches
<1>6. Carries(merge, s, d, always)
  BY <1>4 DEF KeptInv
<1>7. Begun(s, d) /\ N \in Nat /\ N > 0
  BY <1>4, <1>6, FirstText DEF Carries
<1>8. CASE c.failed
  <2>1. t = [s EXCEPT !.todo = Tail(s.todo)]
    BY <1>2, <1>8
  <2>2. /\ t.pc = "query" /\ t.query = q /\ t.project = s.project /\ t.kinds = s.kinds
        /\ t.todo = Tail(s.todo) /\ t.ok = s.ok /\ t.found = s.found
    BY <1>1, <1>4, <2>1 DEF Searches
  <2>3. Len(t.todo) \in Nat /\ Len(t.todo) < N
    <3>1. s.todo = Expanded[q] \/ Len(s.todo) < N
      BY <1>7 DEF Begun, Asked
    <3>2. Len(s.todo) <= N
      BY <1>5, <1>7, <3>1
    <3>3. Len(t.todo) = Len(s.todo) - 1 /\ Len(s.todo) \in Nat /\ Len(s.todo) > 0
      BY <1>1, <1>5, <2>2
    <3> QED BY <1>7, <3>2, <3>3
  <2>4. "error" \in e
    BY <1>2, <1>3, <1>8
  <2> HIDE DEF s, t, d, e
  <2>5. Begun(t, e)
    BY <1>7, <2>2, <2>3, <2>4 DEF Begun, Asked
  <2>6. Whole(merge, t, e) => ~t.ok
    BY <2>4 DEF Whole
  <2>7. Carries(merge, t, e, always)
    BY <2>2, <2>5, <2>6 DEF Carries, Ranking, Kept
  <2> QED BY <1>1, <1>4, <2>2, <2>7, CarriedOn DEF s, t, e
<1>9. CASE ~c.failed
  <2>1. t = [s EXCEPT !.pc = "hydrate", !.batch = c.list, !.ok = TRUE]
    BY <1>2, <1>9
  <2>2. /\ t.pc = "hydrate" /\ t.query = q /\ t.project = s.project /\ t.kinds = s.kinds
        /\ t.todo = s.todo /\ t.ok = TRUE /\ t.found = s.found /\ t.batch = c.list
    BY <1>4, <2>1 DEF Searches
  <2>3. Begun(t, e)
    BY <1>7, <2>2 DEF Begun, Asked
  <2>4. ASSUME Whole(merge, t, e), NEW m \in always, Matches[m][q].class = Exact PROVE Kept(t, m)
    <3>1. "error" \notin e /\ "capped" \notin e /\ merge = "union" /\ e \cap {"hydrate", "capped"} = {}
      BY <2>2, <2>4 DEF Whole
    <3>2. d \subseteq e /\ Len(c.list) # CandidateCap
      BY <1>2, <3>1
    <3>3. Whole(merge, s, d) /\ "error" \notin d
      BY <3>1, <3>2 DEF Whole
    <3>4. Kept(s, m)
      BY <1>6, <2>4, <3>3 DEF Carries
    <3>5. CASE Asked(s)
      <4>1. s.ok
        BY <1>7, <3>3, <3>5 DEF Begun
      <4>2. Holds(s.found, m)
        BY <1>1, <3>4, <3>5, <4>1 DEF Kept
      <4>3. Asked(t)
        BY <2>2, <3>5 DEF Asked
      <4> HIDE DEF t, s
      <4> QED BY <2>2, <4>2, <4>3 DEF Kept, Ranking
    <3>6. CASE ~Asked(s)
      <4>1. Head(s.todo) = q /\ q \in Text /\ q # <<>>
        BY <1>4, <1>7, <3>6, FirstText DEF Begun
      <4>2. m \in Ids /\ m \in Filtered(s)
        BY <1>4, <2>4, AlwaysFiltered
      <4>3. Facts[m].subject = q
        BY <1>4, <2>4, <4>2, ExactIs
      <4>4. c \in RankedCandidates(s, q)
        BY <4>1
      <4>5. Holds(c.list, m)
        BY <1>9, <3>2, <4>1, <4>2, <4>3, <4>4, CandidatesHave
      <4>6. ~Asked(t)
        BY <2>2, <3>6 DEF Asked
      <4> HIDE DEF t, s
      <4> QED BY <2>2, <4>5, <4>6 DEF Kept, Ranking
    <3> QED BY <3>5, <3>6
  <2> HIDE DEF s, t, d, e
  <2>5. Carries(merge, t, e, always)
    BY <2>2, <2>3, <2>4 DEF Carries, Ranking
  <2> QED BY <1>1, <1>4, <2>2, <2>5, CarriedOn DEF s, t, e
<1> QED BY <1>3, <1>8, <1>9

\* The rows of a batch are read: what is exact and still eligible is kept.
LEMMA HydrateCarries == SearchInv /\ KeptInv /\ Hydrate => KeptInv'
<1> SUFFICES ASSUME SearchInv, KeptInv, Hydrate PROVE KeptInv'
  OBVIOUS
<1>1. search.pc = "hydrate" /\ Step
  BY DEF Hydrate
<1>2. \E found :
        /\ search' = [search EXCEPT !.pc = "query", !.todo = Tail(@), !.batch = <<>>, !.found = found]
        /\ \/ found = Joined(search.found, HydratedOf(search)) /\ disturbed' = disturbed \cup {}
           \/ disturbed' = disturbed \cup {"hydrate"}
  BY DEF Hydrate, HydratedOf, Disturb
<1> DEFINE h == HydratedOf(search)
           q == search.query
           N == Len(Expanded[q])
           s == search
           t == search'
           d == disturbed
           e == disturbed'
<1>3. PICK found :
        /\ t = [s EXCEPT !.pc = "query", !.todo = Tail(@), !.batch = <<>>, !.found = found]
        /\ (found = Joined(s.found, h) /\ e = d) \/ "hydrate" \in e
  BY <1>2
<1>4. /\ s \in Searches(May) /\ s.pc # "idle" /\ q \in Queries /\ May \in SUBSET Ids
      /\ \A m \in Ids : Eligible(s.project, m, current[m]) => m \in May
      /\ current \in [Ids -> Rows]
  BY <1>1, Typed
<1>5. s.todo \in Seq(Texts) /\ s.batch \in Seq(Candidates) /\ s.found \in Seq(Finds(May)) /\ s.todo # <<>>
  <2>1. s.todo # <<>>
    BY <1>1, <1>4, IdleIs DEF SearchInv, InProgress
  <2> QED BY <1>4, <2>1 DEF Searches
<1>6. Carries(merge, s, d, always)
  BY <1>4 DEF KeptInv
<1>7. Begun(s, d) /\ N \in Nat /\ N > 0 /\ s.ok
  BY <1>1, <1>4, <1>6, FirstText DEF Carries, Begun
<1>8. h \in Seq(Finds(May))
  <2>1. Head(s.todo) \in Texts
    BY <1>5
  <2> QED BY <1>4, <1>5, <2>1, HydratedIs
<1>9. /\ t.pc = "query" /\ t.query = q /\ t.project = s.project /\ t.kinds = s.kinds
      /\ t.todo = Tail(s.todo) /\ t.ok = s.ok /\ t.found = found
  BY <1>3, <1>4 DEF Searches
<1>10. Len(t.todo) \in Nat /\ Len(t.todo) < N
  <2>1. s.todo = Expanded[q] \/ Len(s.todo) < N
    BY <1>7 DEF Begun, Asked
  <2>2. Len(s.todo) <= N
    BY <1>5, <1>7, <2>1
  <2>3. Len(t.todo) = Len(s.todo) - 1 /\ Len(s.todo) \in Nat /\ Len(s.todo) > 0
    BY <1>5, <1>9
  <2> QED BY <1>7, <2>2, <2>3
<1>11. Begun(t, e)
  <2> HIDE DEF t, s
  <2> QED BY <1>7, <1>9, <1>10 DEF Begun, Asked
<1>12. ASSUME Whole(merge, t, e), NEW m \in always, Matches[m][q].class = Exact PROVE Holds(found, m)
  <2>1. found = Joined(s.found, h) /\ e = d
    BY <1>3, <1>12 DEF Whole
  <2>2. Whole(merge, s, d)
    BY <1>9, <1>12, <2>1 DEF Whole
  <2>3. Kept(s, m)
    BY <1>6, <1>12, <2>2 DEF Carries
  <2>4. Holds(s.found, m) \/ Holds(s.batch, m)
    BY <1>1, <2>3 DEF Kept
  <2>5. m \in Filtered(s)
    BY <1>4, <1>12, AlwaysFiltered
  <2>6. Eligible(s.project, m, current[m]) /\ KindRequested(m, s.kinds)
    BY <2>5 DEF Filtered
  <2>7. Holds(s.found, m) \/ Holds(h, m)
    BY <1>5, <2>4, <2>6, HydratedHas
  <2> QED BY <1>5, <1>8, <2>1, <2>7, JoinedHas
<1> HIDE DEF s, t, d, e
<1>13. Carries(merge, t, e, always)
  BY <1>9, <1>11, <1>12 DEF Carries, Ranking, Kept
<1> QED BY <1>1, <1>4, <1>9, <1>13, CarriedOn, SMTT(20) DEF s, t, e
\* Ranking.  If the index has answered once the hits are scored, and if it
\* never has, all rows are.
LEMMA LexicalCarries == SearchInv /\ KeptInv /\ Lexical => KeptInv'
<1> SUFFICES ASSUME SearchInv, KeptInv, Lexical PROVE KeptInv'
  OBVIOUS
<1> DEFINE found == IF NeedsScan THEN EligibleRows(search) ELSE search.found
           ranked == Scored(found, search.query)
<1>1. search.pc = "query" /\ search.todo = <<>> /\ Step
  BY DEF Lexical
<1>2. /\ \/ search' = [search EXCEPT !.ranked = SortedByKey(ranked),
                        !.pc = IF RunsSemantic(search, ranked) THEN "vectors" ELSE "reply"]
         \/ search' = [search EXCEPT !.pc = "failed"]
      /\ disturbed' = disturbed \cup {} \/ disturbed' = disturbed \cup {"scan"}
  BY DEF Lexical, Disturb
<1> DEFINE q == search.query
           N == Len(Expanded[q])
           s == search
           t == search'
           d == disturbed
           e == disturbed'
<1>3. /\ s \in Searches(May) /\ s.pc # "idle" /\ q \in Queries /\ May \in SUBSET Ids
      /\ \A m \in Ids : Eligible(s.project, m, current[m]) => m \in May
      /\ current \in [Ids -> Rows]
  BY <1>1, Typed
<1>4. s.found \in Seq(Finds(May))
  BY <1>3 DEF Searches
<1>5. found \in Seq(Finds(May))
  <2>1. EligibleRows(search) \in Seq(Finds(May))
    BY <1>3, EligibleRowsIs
  <2> QED BY <1>4, <2>1
<1>6. Carries(merge, s, d, always)
  BY <1>3 DEF KeptInv
<1>7. Begun(s, d) /\ N \in Nat /\ N > 0
  BY <1>3, <1>6, FirstText DEF Carries
<1>8. Asked(s)
  BY <1>1, <1>7 DEF Asked
<1> DEFINE pc == IF RunsSemantic(search, ranked) THEN "vectors" ELSE "reply"
           sorted == SortedByKey(ranked)
<1>9. pc \in {"vectors", "reply"}
  OBVIOUS
<1>10. ASSUME Whole(merge, s, d), NEW m \in always, Matches[m][q].class = Exact PROVE Holds(found, m)
  <2>1. CASE s.ok
    <3>1. Holds(s.found, m)
      BY <1>1, <1>6, <1>8, <1>10, <2>1 DEF Carries, Kept
    <3>2. found = s.found
      BY <2>1 DEF NeedsScan
    <3> QED BY <3>1, <3>2
  <2>2. CASE ~s.ok
    <3>1. NeedsScan
      BY <1>7, <2>2 DEF Begun, NeedsScan
    <3>2. m \in Filtered(s)
      BY <1>3, <1>10, AlwaysFiltered
    <3> QED BY <3>1, <3>2, ScanFinds
  <2> QED BY <2>1, <2>2
<1> HIDE DEF found
<1>11. ranked \in Seq(Hits(May))
  BY <1>3, <1>5, ScoredIs
<1>12. ASSUME Whole(merge, s, d), NEW m \in always, Matches[m][q].class = Exact PROVE HoldsExact(ranked, m)
  BY <1>3, <1>5, <1>10, <1>12, ScoredHas
<1>13. t = [s EXCEPT !.ranked = sorted, !.pc = pc] \/ t = [s EXCEPT !.pc = "failed"]
  BY <1>2
<1>14. d \subseteq e /\ (e = d \/ e = d \cup {"scan"})
  BY <1>2
<1> HIDE DEF ranked
<1>15. ExactFirst(sorted) /\ \A m : HoldsExact(ranked, m) => HoldsExact(sorted, m)
  BY <1>3, <1>11, SortedHas
<1> HIDE DEF sorted, pc
<1>16. /\ t.query = s.query /\ s.query = q /\ t.project = s.project /\ t.kinds = s.kinds
       /\ t.todo = s.todo /\ t.ok = s.ok /\ t.found = s.found
       /\ t.pc \notin {"query", "hydrate"}
       /\ t.pc \in Ranking => t.ranked = sorted
  BY <1>3, <1>9, <1>13 DEF Searches, Ranking
<1> HIDE DEF s, t, d, e
<1>17. Begun(t, e)
  BY <1>7, <1>14, <1>16 DEF Begun, Asked
<1>18. Whole(merge, t, e) => Whole(merge, s, d)
  BY <1>14, <1>16 DEF Whole
<1>19. Carries(merge, t, e, always)
  <2>1. ASSUME Whole(merge, t, e), NEW m \in always, Matches[m][t.query].class = Exact PROVE Kept(t, m)
    <3>1. HoldsExact(sorted, m)
      BY <1>12, <1>15, <1>16, <1>18, <2>1
    <3> QED BY <1>16, <3>1 DEF Kept
  <2> QED BY <1>15, <1>16, <1>17, <2>1 DEF Carries
<1> QED BY <1>1, <1>3, <1>16, <1>19, CarriedOn DEF s, t, e

\* Once there is a ranking, a step that keeps its exact hits, in front
\* where they have to be, carries them on.
LEMMA RankingCarries ==
  ASSUME SearchInv, KeptInv, search.pc \in Ranking, search'.pc \in Ranking, Step,
         NEW ranked, search'.ranked = ranked,
         search'.query = search.query, search'.project = search.project, search'.kinds = search.kinds,
         search'.todo = search.todo, search'.ok = search.ok, search'.found = search.found,
         disturbed' = disturbed \/ disturbed' = disturbed \cup {"vector"},
         merge = "union" =>
           ExactFirst(ranked) /\ \A m : HoldsExact(search.ranked, m) => HoldsExact(ranked, m)
  PROVE  KeptInv'
<1> DEFINE s == search
           t == search'
           d == disturbed
           e == disturbed'
<1>1. s.pc # "idle" /\ s.pc \notin {"query", "hydrate"} /\ t.pc \notin {"query", "hydrate"}
  BY DEF Ranking
<1>2. Carries(merge, s, d, always)
  BY <1>1 DEF KeptInv
<1>3. d \subseteq e /\ (e = d \/ e = d \cup {"vector"})
  OBVIOUS
<1>4. /\ t.query = s.query /\ t.project = s.project /\ t.kinds = s.kinds
      /\ t.todo = s.todo /\ t.ok = s.ok /\ t.found = s.found /\ t.ranked = ranked
      /\ s.pc \in Ranking /\ t.pc \in Ranking
  OBVIOUS
<1>5. merge = "union" => ExactFirst(ranked) /\ \A m : HoldsExact(s.ranked, m) => HoldsExact(ranked, m)
  OBVIOUS
<1> HIDE DEF s, t, d, e
<1>6. Begun(t, e)
  BY <1>1, <1>2, <1>3, <1>4 DEF Begun, Asked, Carries
<1>7. Whole(merge, t, e) => Whole(merge, s, d) /\ merge = "union"
  BY <1>3, <1>4 DEF Whole
<1>8. ASSUME Whole(merge, t, e), NEW m \in always, Matches[m][t.query].class = Exact PROVE Kept(t, m)
  <2>1. HoldsExact(s.ranked, m)
    BY <1>2, <1>4, <1>7, <1>8 DEF Carries, Kept
  <2>2. HoldsExact(t.ranked, m)
    BY <1>4, <1>5, <1>7, <1>8, <2>1
  <2> QED BY <1>1, <2>2 DEF Kept
<1>9. Carries(merge, t, e, always)
  BY <1>4, <1>5, <1>6, <1>8 DEF Carries
<1> QED BY <1>1, <1>9, CarriedOn DEF s, t, e

\* The vectors leave the ranking alone until they are merged.
LEMMA VectorsCarry == SearchInv /\ KeptInv /\ (SemanticCandidates \/ LoadMemoryRow) => KeptInv'
<1> SUFFICES ASSUME SearchInv, KeptInv, SemanticCandidates \/ LoadMemoryRow PROVE KeptInv'
  OBVIOUS
<1>1. search.pc \in {"vectors", "load"} /\ Step
  BY DEF SemanticCandidates, LoadMemoryRow
<1>2. search \in Searches(May) /\ search.pc # "idle"
  BY <1>1, Typed
<1>3. /\ search'.query = search.query /\ search'.project = search.project /\ search'.kinds = search.kinds
      /\ search'.todo = search.todo /\ search'.ok = search.ok /\ search'.found = search.found
      /\ search'.ranked = search.ranked /\ search'.pc \in Ranking
  <2>1. CASE SemanticCandidates
    BY <1>2, <2>1 DEF SemanticCandidates, Searches, Ranking
  <2>2. CASE LoadMemoryRow
    BY <1>2, <2>2 DEF LoadMemoryRow, Searches, Ranking
  <2> QED BY <2>1, <2>2
<1>4. disturbed' = disturbed \/ disturbed' = disturbed \cup {"vector"}
  BY DEF SemanticCandidates, LoadMemoryRow, Disturb
<1>5. search.pc \in Ranking
  BY <1>1 DEF Ranking
<1>6. merge = "union" => ExactFirst(search.ranked)
  BY <1>2, <1>5 DEF KeptInv, Carries
<1> QED BY <1>1, <1>3, <1>4, <1>5, <1>6, RankingCarries

\* Merging semantic hits in keeps the exact ones in front.
LEMMA MergeCarries == SearchInv /\ KeptInv /\ MergeSemantic => KeptInv'
<1> SUFFICES ASSUME SearchInv, KeptInv, MergeSemantic PROVE KeptInv'
  OBVIOUS
<1> DEFINE v == VectorHits(search, search.read)
           merged == Merged(merge, search.ranked, v)
<1>1. search.pc = "load" /\ Step /\ disturbed' = disturbed
  BY DEF MergeSemantic, Disturb
<1>2. search' = [search EXCEPT !.pc = "reply", !.read = NothingRead, !.ranked = merged]
  BY DEF MergeSemantic
<1>3. search \in Searches(May) /\ search.pc # "idle" /\ May \in SUBSET Ids
  BY <1>1, Typed
<1>4. v \in Seq(Hits(May)) /\ search.ranked \in Seq(Hits(May))
  BY <1>3, ReadOf DEF Searches
<1> HIDE DEF v
<1>5. ASSUME merge = "union"
      PROVE  ExactFirst(merged) /\ \A m : HoldsExact(search.ranked, m) => HoldsExact(merged, m)
  <2>1. merged = Merged("union", search.ranked, v)
    BY <1>5
  <2> HIDE DEF merged
  <2> QED BY <1>3, <1>4, <2>1, MergedHas
<1> HIDE DEF merged
<1>6. /\ search'.query = search.query /\ search'.project = search.project /\ search'.kinds = search.kinds
      /\ search'.todo = search.todo /\ search'.ok = search.ok /\ search'.found = search.found
      /\ search'.ranked = merged /\ search'.pc = "reply"
  BY <1>2, <1>3 DEF Searches
<1>7. search.pc \in Ranking /\ search'.pc \in Ranking
  BY <1>1, <1>6 DEF Ranking
<1> QED BY <1>1, <1>5, <1>6, <1>7, RankingCarries

LEMMA ReplyCarries == SearchInv /\ KeptInv /\ Reply => KeptInv'
<1> SUFFICES ASSUME SearchInv, KeptInv, Reply PROVE KeptInv'
  OBVIOUS
<1>1. search.pc = "reply" /\ search' = [search EXCEPT !.pc = "answered"]
      /\ UNCHANGED <<merge, history, behind, ever, always, disturbed>>
  BY DEF Reply
<1>2. Step
  BY <1>1, ReplyChangesNothing DEF Step
<1> DEFINE s == search
           t == search'
           d == disturbed
<1>3. s \in Searches(May) /\ s.pc # "idle"
  BY <1>1, Typed
<1>4. disturbed' = d /\ Carries(merge, s, d, always)
  BY <1>1, <1>3 DEF KeptInv
<1>5. /\ t.query = s.query /\ t.project = s.project /\ t.kinds = s.kinds
      /\ t.todo = s.todo /\ t.ok = s.ok /\ t.found = s.found
      /\ t.pc = "answered" /\ t.ranked = s.ranked /\ s.pc = "reply"
  BY <1>1, <1>3 DEF Searches
<1> HIDE DEF s, t, d
<1>6. Begun(t, d) /\ (Whole(merge, t, d) <=> Whole(merge, s, d))
  BY <1>4, <1>5 DEF Begun, Asked, Carries, Whole
<1>7. \A m : Kept(s, m) => Kept(t, m)
  BY <1>5 DEF Kept, Ranking
<1>8. Carries(merge, t, d, always)
  BY <1>4, <1>5, <1>6, <1>7 DEF Carries, Ranking
<1> QED BY <1>2, <1>3, <1>4, <1>5, <1>8, CarriedOn DEF s, t, d

\* A change of a row concerns the search only by what is eligible all along.
LEMMA WriteCarries ==
  ASSUME SearchInv, KeptInv, NEW m, NEW row, Write(m, row)
  PROVE  KeptInv'
<1>1. search' = search /\ merge' = merge
  BY DEF Write
<1>2. SUFFICES ASSUME search.pc # "idle"
               PROVE  always' \subseteq EligibleNow(search, rows') /\ Carries(merge, search, disturbed', always')
  BY <1>1 DEF KeptInv
<1>3. always' = always \cap EligibleNow(search, rows') /\ disturbed' = disturbed \cup {"change"}
  BY <1>2 DEF Write, Disturb
<1>4. Carries(merge, search, disturbed, always)
  BY <1>2 DEF KeptInv
<1> DEFINE s == search
           d == disturbed
           e == disturbed'
<1>5. d \subseteq e /\ ("error" \in d <=> "error" \in e)
  BY <1>3
<1>6. always' \subseteq always
  BY <1>3
<1> HIDE DEF s, d, e
<1>7. Carries(merge, s, d, always)
  BY <1>4 DEF s, d
<1>8. Whole(merge, s, e) => Whole(merge, s, d)
  BY <1>5 DEF Whole
<1>9. Carries(merge, s, e, always')
  BY <1>5, <1>6, <1>7, <1>8 DEF Carries, Begun
<1> QED BY <1>3, <1>9 DEF s, e

LEMMA KeptStep == SearchInv /\ KeptInv /\ [Next]_vars => KeptInv'
<1> SUFFICES ASSUME SearchInv, KeptInv, [Next]_vars PROVE KeptInv'
  OBVIOUS
<1>1. CASE UNCHANGED vars
  BY <1>1 DEF vars, KeptInv, EligibleNow, Carries, Begun, Asked, Whole, Kept
<1>2. CASE Finish \/ Restart
  <2>1. search'.pc = "idle"
    BY <1>2 DEF Finish, Restart, Idle
  <2> QED BY <2>1 DEF KeptInv
<1>3. CASE Retire \/ Mislead \/ Recall
  <2>1. \E m, row : Write(m, row)
    BY <1>3 DEF Retire, Mislead, Recall
  <2> QED BY <2>1, WriteCarries
<1>4. CASE Begin
  BY <1>4, BeginCarries
<1>5. CASE SearchStep
  BY <1>2, <1>5, QueryIndexCarries, HydrateCarries, LexicalCarries,
     VectorsCarry, MergeCarries, ReplyCarries DEF SearchStep
<1> QED BY <1>1, <1>2, <1>3, <1>4, <1>5 DEF Next

\* The property of the run "search", for every corpus, whatever fails and
\* whatever changes: a memory that the query names is not lost on the way
\* from the index, or from the scan, to the answer.
THEOREM ExactlyServed == Spec => []ExactIsServed
<1>1. Init => KeptInv
  BY DEF Init, Idle, KeptInv
<1>2. SearchInv /\ KeptInv => ExactIsServed
  <2> SUFFICES ASSUME SearchInv, KeptInv, search.pc = "answered", merge = "union",
                      disturbed \cap {"hydrate", "capped"} = {}, "error" \in disturbed => ~search.ok,
                      NEW m \in always, Matches[m][search.query].class = Exact
               PROVE  m \in Served \/ Cardinality(Rivals(m)) >= QuotaOf(m)
    BY DEF ExactIsServed
  <2> DEFINE ranked == search.ranked
             w == Answer
  <2>1. search.pc # "idle" /\ search.pc \in Ranking
    BY DEF Ranking
  <2>2. /\ search \in Searches(May) /\ search.limit \in Nat /\ May \in SUBSET Ids /\ IdentityMax \in Nat
        /\ ranked \in Seq(Hits(May))
    BY <2>1, Typed, SearchAssumption DEF Searches
  <2>3. Carries(merge, search, disturbed, always) /\ Whole(merge, search, disturbed)
    BY <2>1 DEF KeptInv, Whole
  <2>4. ExactFirst(ranked) /\ HoldsExact(ranked, m)
    BY <2>1, <2>3 DEF Carries, Kept
  <2>5. w = WithinQuota(ranked, search.limit, IdentityMax)
    BY DEF Answer, Quota
  <2>6. \A h \in Hits(May) : h.class \in Classes
    BY DEF Hits
  <2> HIDE DEF w, ranked
  <2>7. \/ Holds(w, m)
        \/ Cardinality({i \in DOMAIN w : /\ w[i].class = Exact
                                        /\ IdentityKind(Facts[w[i].m].kind) = IdentityKind(Facts[m].kind)})
             >= QuotaOf(m)
    BY <2>2, <2>4, <2>5, <2>6, QuotaHas DEF QuotaOf
  <2>8. w \in Seq(Hits(May))
    BY <2>1, AnswerIs DEF w
  <2>9. Holds(w, m) => m \in MemoriesOf(w)
    BY <2>8, MemoriesAre DEF Holds
  <2> QED BY <2>7, <2>9 DEF Served, Rivals, w
<1>3. Spec => []KeptInv
  BY <1>1, KeptStep, SearchInvariant, PTL DEF Spec
<1> QED BY <1>2, <1>3, SearchInvariant, PTL
-----------------------------------------------------------------------------
(***************************************************************************)
(* A list is its elements and their order: two lists that are strictly     *)
(* ordered in the same way and have the same elements are equal.           *)
(***************************************************************************)
Once(seq) == \A i, j \in 1 .. Len(seq) : seq[i].m = seq[j].m => i = j
Rises(seq, R) == \A i, j \in 1 .. Len(seq) : i < j => <<seq[i], seq[j]>> \in R

\* Of two such lists one begins with the other.
LEMMA SameBeginning ==
  ASSUME NEW S, NEW a \in Seq(S), NEW b \in Seq(S), NEW R,
         \A x, y \in S : <<x, y>> \in R => <<y, x>> \notin R,
         Rises(a, R), Rises(b, R), Range(a) = Range(b),
         NEW i \in 1 .. Len(a), i <= Len(b)
  PROVE  a[i] = b[i]
<1> DEFINE T == {k \in 1 .. Len(a) : k <= Len(b) /\ a[k] # b[k]}
<1>1. Len(a) \in Nat /\ Len(b) \in Nat
  OBVIOUS
<1>2. SUFFICES ASSUME T # {} PROVE FALSE
  <2>1. i \notin T => a[i] = b[i]
    OBVIOUS
  <2> HIDE DEF T
  <2> QED BY <1>2, <2>1
<1>3. PICK x \in T : \A y \in T : x <= y
  <2>1. T \in SUBSET Nat
    BY <1>1
  <2> HIDE DEF T
  <2> QED BY <1>2, <2>1, LeastNumber
<1>4. /\ x \in 1 .. Len(a) /\ x \in 1 .. Len(b) /\ a[x] # b[x] /\ a[x] \in S /\ b[x] \in S
      /\ \A k \in 1 .. Len(a) : k < x => a[k] = b[k]
  <2>1. x \in 1 .. Len(a) /\ x <= Len(b) /\ a[x] # b[x]
    OBVIOUS
  <2>2. x \in 1 .. Len(b)
    BY <1>1, <2>1
  <2>3. ASSUME NEW k \in 1 .. Len(a), k < x PROVE a[k] = b[k]
    <3>1. k \notin T
      BY <1>1, <1>3, <2>1, <2>3
    <3>2. k <= Len(b)
      BY <1>1, <2>1, <2>3
    <3> QED BY <3>1, <3>2
  <2> QED BY <2>1, <2>2, <2>3
<1> HIDE DEF T
<1>5. PICK j \in 1 .. Len(b) : a[x] = b[j]
  <2>1. a[x] \in Range(a)
    BY <1>4, RangeIs
  <2> QED BY <2>1, RangeIs
<1>6. PICK k \in 1 .. Len(a) : b[x] = a[k]
  <2>1. b[x] \in Range(b)
    BY <1>4, RangeIs
  <2> QED BY <2>1, RangeIs
<1>7. \A n \in 1 .. Len(a) : a[n] = a[x] => ~(n < x)
  BY <1>4 DEF Rises
<1>8. \A n \in 1 .. Len(b) : b[n] = b[x] => ~(n < x)
  BY <1>4 DEF Rises
<1>9. j > x
  <2>1. j # x
    BY <1>4, <1>5
  <2>2. ASSUME j < x PROVE FALSE
    <3>1. j \in 1 .. Len(a)
      BY <1>1, <1>4, <2>2
    <3>2. a[j] = b[j]
      BY <1>4, <2>2, <3>1
    <3> QED BY <1>5, <1>7, <2>2, <3>1, <3>2
  <2> QED BY <1>1, <1>4, <2>1, <2>2
<1>10. k > x
  <2>1. k # x
    BY <1>4, <1>6
  <2>2. ASSUME k < x PROVE FALSE
    <3>1. k \in 1 .. Len(b)
      BY <1>1, <1>4, <2>2
    <3>2. a[k] = b[k]
      BY <1>4, <2>2
    <3> QED BY <1>6, <1>8, <2>2, <3>1, <3>2
  <2> QED BY <1>1, <1>4, <2>1, <2>2
<1>11. <<b[x], b[j]>> \in R /\ <<a[x], a[k]>> \in R
  BY <1>4, <1>9, <1>10 DEF Rises
<1> QED BY <1>4, <1>5, <1>6, <1>11

\* Such a list is no longer than the other.
LEMMA NoLonger ==
  ASSUME NEW S, NEW a \in Seq(S), NEW b \in Seq(S), NEW R,
         \A x, y \in S : <<x, y>> \in R => <<y, x>> \notin R,
         Rises(a, R), Rises(b, R), Range(a) = Range(b)
  PROVE  Len(a) <= Len(b)
<1> SUFFICES ASSUME Len(a) > Len(b) PROVE FALSE
  OBVIOUS
<1> DEFINE n == Len(b) + 1
<1>1. n \in 1 .. Len(a)
  OBVIOUS
<1>2. PICK j \in 1 .. Len(b) : a[n] = b[j]
  <2>1. a[n] \in Range(a)
    BY <1>1, RangeIs
  <2> QED BY <2>1, RangeIs
<1>3. j \in 1 .. Len(a) /\ j <= Len(b) /\ j < n
  OBVIOUS
<1>4. a[j] = b[j]
  BY <1>3, SameBeginning
<1>5. <<a[j], a[n]>> \in R /\ a[n] \in S
  BY <1>1, <1>3 DEF Rises
<1> QED BY <1>2, <1>4, <1>5

LEMMA SameList ==
  ASSUME NEW S, NEW a \in Seq(S), NEW b \in Seq(S), NEW R,
         \A x, y \in S : <<x, y>> \in R => <<y, x>> \notin R,
         Rises(a, R), Rises(b, R), Range(a) = Range(b)
  PROVE  a = b
<1>1. Len(a) = Len(b)
  <2>1. Len(a) <= Len(b)
    BY NoLonger
  <2>2. Len(b) <= Len(a)
    BY NoLonger
  <2> QED BY <2>1, <2>2
<1>2. \A i \in 1 .. Len(a) : a[i] = b[i]
  <2> TAKE i \in 1 .. Len(a)
  <2>1. i <= Len(b)
    BY <1>1
  <2> QED BY <2>1, SameBeginning
<1> QED BY <1>1, <1>2

\* Hits in the order of their keys.
KeyLess == {p \in Hits(Ids) \X Hits(Ids) : LessKey(p[1].key, p[2].key)}

LEMMA KeyLessOnce ==
  \A x, y \in Hits(Ids) : <<x, y>> \in KeyLess => <<y, x>> \notin KeyLess
<1> TAKE x, y \in Hits(Ids)
<1> HAVE <<x, y>> \in KeyLess
<1>1. x.key \in Keys /\ y.key \in Keys
  BY HitsAre
<1>2. LessKey(x.key, y.key)
  BY DEF KeyLess
<1>3. ~LessKey(y.key, x.key)
  BY <1>1, <1>2, KeysChain, KeysSelf
<1> QED BY <1>3 DEF KeyLess

LEMMA SameKey ==
  ASSUME NEW x \in Hits(Ids), NEW y \in Hits(Ids), x.key = y.key
  PROVE  x.m = y.m
<1>1. x.key[9] = -x.m /\ y.key[9] = -y.m /\ x.m \in Nat /\ y.m \in Nat
  BY HitsAre
<1> DEFINE a == x.m
           b == y.m
<1>2. -a = -b /\ a \in Nat /\ b \in Nat
  BY <1>1
<1> HIDE DEF a, b
<1>3. a = b
  BY <1>2
<1> QED BY <1>3 DEF a, b

\* Sorting the hits of different memories keeps every one, once, in the
\* order of their keys, which differ at least in the id.
LEMMA SortedRises ==
  ASSUME NEW seq \in Seq(Hits(Ids)), Once(seq)
  PROVE  /\ SortedByKey(seq) \in Seq(Hits(Ids)) /\ Once(SortedByKey(seq))
         /\ Range(SortedByKey(seq)) = Range(seq) /\ Rises(SortedByKey(seq), KeyLess)
<1> DEFINE n == Len(seq)
           x == SortedByKey(seq)
<1>1. \A h \in Hits(Ids) : h.key \in Keys /\ h.key[9] = -h.m /\ h.m \in Nat
  BY HitsAre
<1>2. /\ n \in Nat /\ x \in Seq(Hits(Ids)) /\ Len(x) = n
      /\ \E o \in [1 .. n -> 1 .. n] :
           /\ \A i \in 1 .. n : x[i] = seq[o[i]]
           /\ \A i, j \in 1 .. n : o[i] = o[j] => i = j
           /\ \A a \in 1 .. n : \E i \in 1 .. n : o[i] = a
           /\ \A i, j \in 1 .. n : i < j <=> ByKey(seq, o[i], o[j])
  BY <1>1, SortedByKeyIs
<1> HIDE DEF x
<1>3. PICK o \in [1 .. n -> 1 .. n] :
           /\ \A i \in 1 .. n : x[i] = seq[o[i]]
           /\ \A i, j \in 1 .. n : o[i] = o[j] => i = j
           /\ \A a \in 1 .. n : \E i \in 1 .. n : o[i] = a
           /\ \A i, j \in 1 .. n : i < j <=> ByKey(seq, o[i], o[j])
  BY <1>2
<1>4. \A i \in 1 .. n : seq[i] \in Hits(Ids) /\ o[i] \in 1 .. n
  OBVIOUS
<1>5. \A i, j \in 1 .. n : seq[i].m = seq[j].m => i = j
  BY DEF Once
<1> HIDE DEF n
<1>6. Once(x)
  <2> SUFFICES ASSUME NEW i \in 1 .. n, NEW j \in 1 .. n, x[i].m = x[j].m PROVE i = j
    BY <1>2 DEF Once
  <2>1. o[i] \in 1 .. n /\ o[j] \in 1 .. n /\ x[i] = seq[o[i]] /\ x[j] = seq[o[j]]
    BY <1>3, <1>4
  <2>2. seq[o[i]].m = seq[o[j]].m
    BY <2>1
  <2>3. o[i] = o[j]
    BY <1>5, <2>1, <2>2
  <2>4. \A a, b \in 1 .. n : o[a] = o[b] => a = b
    BY <1>3
  <2> QED BY <2>3, <2>4, Zenon
<1> HIDE DEF Once
<1>7. Range(x) = Range(seq)
  <2>1. \A z : z \in Range(x) <=> \E i \in 1 .. n : z = x[i]
    <3>1. x \in Seq(Hits(Ids)) /\ Len(x) = n
      BY <1>2
    <3>2. \A z : z \in Range(x) <=> \E i \in 1 .. Len(x) : z = x[i]
      BY <3>1, RangeIs
    <3> QED BY <3>1, <3>2
  <2>2. \A z : z \in Range(seq) <=> \E i \in 1 .. n : z = seq[i]
    BY RangeIs DEF n
  <2>3. \A z : z \in Range(x) => z \in Range(seq)
    BY <1>3, <1>4, <2>1, <2>2, SMTT(20)
  <2>4. ASSUME NEW z \in Range(seq) PROVE z \in Range(x)
    <3>1. PICK a \in 1 .. n : z = seq[a]
      BY <2>2
    <3>2. PICK i \in 1 .. n : o[i] = a
      BY <1>3
    <3> QED BY <1>3, <2>1, <3>1, <3>2
  <2> QED BY <2>3, <2>4
<1>8. Rises(x, KeyLess)
  <2>1. ASSUME NEW i \in 1 .. n, NEW j \in 1 .. n, i < j PROVE <<x[i], x[j]>> \in KeyLess
    <3> DEFINE g == seq[o[i]]
               h == seq[o[j]]
    <3>1. ByKey(seq, o[i], o[j]) /\ o[i] \in 1 .. n /\ o[j] \in 1 .. n
      BY <1>3, <1>4, <2>1
    <3>2. LessKey(g.key, h.key) \/ (g.key = h.key /\ o[i] < o[j])
      BY <3>1 DEF ByKey
    <3>3. g \in Hits(Ids) /\ h \in Hits(Ids) /\ x[i] = g /\ x[j] = h
      BY <1>3, <1>4, <3>1
    <3>4. ASSUME g.key = h.key PROVE o[i] = o[j]
      <4>1. g.m = h.m
        BY <3>3, <3>4, SameKey
      <4> QED BY <1>5, <3>1, <4>1
    <3>5. LessKey(g.key, h.key)
      BY <1>2, <3>1, <3>2, <3>4
    <3> HIDE DEF g, h
    <3> QED BY <3>3, <3>5 DEF KeyLess
  <2> QED BY <1>2, <2>1 DEF Rises
<1> QED BY <1>2, <1>6, <1>7, <1>8 DEF x

\* Whatever order hits come in, sorted they are the same list; and sorting a
\* sorted list changes nothing.
LEMMA SortedSame ==
  ASSUME NEW a \in Seq(Hits(Ids)), NEW b \in Seq(Hits(Ids)), Once(a), Once(b), Range(a) = Range(b)
  PROVE  SortedByKey(a) = SortedByKey(b)
<1>1. /\ SortedByKey(a) \in Seq(Hits(Ids)) /\ SortedByKey(b) \in Seq(Hits(Ids))
      /\ Range(SortedByKey(a)) = Range(SortedByKey(b))
      /\ Rises(SortedByKey(a), KeyLess) /\ Rises(SortedByKey(b), KeyLess)
  BY SortedRises
<1> QED BY <1>1, KeyLessOnce, SameList

\* Two lists of the same elements are about the same memories.
LEMMA SameMemories ==
  ASSUME NEW S, NEW a \in Seq(S), NEW T, NEW b \in Seq(T), Range(a) = Range(b)
  PROVE  MemoriesOf(a) = MemoriesOf(b)
<1>1. \A m : m \in MemoriesOf(a) <=> \E x \in Range(a) : x.m = m
  BY MemoriesAre, RangeIs
<1>2. \A m : m \in MemoriesOf(b) <=> \E x \in Range(b) : x.m = m
  BY MemoriesAre, RangeIs
<1> QED BY <1>1, <1>2

\* A part of a list has its elements at the chosen places, and none twice.
LEMMA PartOnce ==
  ASSUME NEW S, NEW seq \in Seq(S), NEW I \in SUBSET (1 .. Len(seq))
  PROVE  /\ At(seq, I) \in Seq(S) /\ (Once(seq) => Once(At(seq, I)))
         /\ \A x : x \in Range(At(seq, I)) <=> \E i \in I : x = seq[i]
<1> DEFINE x == At(seq, I)
<1>1. x \in Seq(S) /\ Picks(x, seq, I)
  BY AtPicks
<1> HIDE DEF x
<1>2. PICK o \in [1 .. Len(x) -> I] :
        /\ \A n \in 1 .. Len(x) : x[n] = seq[o[n]]
        /\ \A n, l \in 1 .. Len(x) : n < l => o[n] < o[l]
        /\ \A i \in I : \E n \in 1 .. Len(x) : o[n] = i
  BY <1>1 DEF Picks
<1>3. Len(x) \in Nat /\ \A n \in 1 .. Len(x) : o[n] \in I /\ o[n] \in 1 .. Len(seq) /\ x[n] = seq[o[n]]
  <2>1. Len(x) \in Nat
    BY <1>1
  <2>2. \A n \in 1 .. Len(x) : o[n] \in I
    OBVIOUS
  <2>3. \A i \in I : i \in 1 .. Len(seq)
    OBVIOUS
  <2> QED BY <1>2, <2>1, <2>2, <2>3, Zenon
<1>4. ASSUME Once(seq) PROVE Once(x)
  <2> SUFFICES ASSUME NEW i \in 1 .. Len(x), NEW j \in 1 .. Len(x), x[i].m = x[j].m PROVE i = j
    BY DEF Once
  <2>1. o[i] = o[j] /\ o[i] \in Nat
    <3>1. seq[o[i]].m = seq[o[j]].m /\ o[i] \in 1 .. Len(seq) /\ o[j] \in 1 .. Len(seq)
      BY <1>3
    <3>2. o[i] = o[j]
      BY <1>4, <3>1, Zenon DEF Once
    <3>3. o[i] \in Nat
      BY <3>1
    <3> QED BY <3>2, <3>3
  <2>2. ~(o[i] < o[j]) /\ ~(o[j] < o[i])
    <3> DEFINE a == o[i]
    <3> HIDE DEF a
    <3>1. a \in Nat => ~(a < a)
      OBVIOUS
    <3> QED BY <2>1, <3>1 DEF a
  <2> QED BY <1>2, <1>3, <2>2
<1>5. \A z : z \in Range(x) <=> \E n \in 1 .. Len(x) : z = x[n]
  BY <1>1, RangeIs
<1>6. \A z : z \in Range(x) <=> \E i \in I : z = seq[i]
  <2>1. ASSUME NEW z \in Range(x) PROVE \E i \in I : z = seq[i]
    <3>1. PICK n \in 1 .. Len(x) : z = x[n]
      BY <1>5
    <3>2. o[n] \in I /\ z = seq[o[n]]
      BY <1>3, <3>1
    <3> QED BY <3>2
  <2>2. ASSUME NEW i \in I PROVE seq[i] \in Range(x)
    <3>1. PICK n \in 1 .. Len(x) : o[n] = i
      BY <1>2
    <3>2. seq[i] = x[n]
      BY <1>3, <3>1
    <3> QED BY <1>5, <3>2
  <2> QED BY <2>1, <2>2
<1> QED BY <1>1, <1>4, <1>6 DEF x
LEMMA WithoutOnce ==
  ASSUME NEW S, NEW seq \in Seq(S), NEW T
  PROVE  /\ Without(seq, T) \in Seq(S) /\ (Once(seq) => Once(Without(seq, T)))
         /\ \A x : x \in Range(Without(seq, T)) <=> x \in Range(seq) /\ x.m \notin T
<1> DEFINE I == {i \in DOMAIN seq : seq[i].m \notin T}
<1>1. I \in SUBSET (1 .. Len(seq)) /\ \A i : i \in I <=> i \in 1 .. Len(seq) /\ seq[i].m \notin T
  OBVIOUS
<1>2. Without(seq, T) = At(seq, I)
  BY DEF Without
<1> HIDE DEF I
<1>3. /\ At(seq, I) \in Seq(S) /\ (Once(seq) => Once(At(seq, I)))
      /\ \A x : x \in Range(At(seq, I)) <=> \E i \in I : x = seq[i]
  BY <1>1, PartOnce
<1>4. \A x : x \in Range(seq) <=> \E i \in 1 .. Len(seq) : x = seq[i]
  BY RangeIs
<1>5. \A x : x \in Range(At(seq, I)) <=> x \in Range(seq) /\ x.m \notin T
  BY <1>1, <1>3, <1>4
<1> QED BY <1>2, <1>3, <1>5

\* One list after another, about other memories.
LEMMA JoinOnce ==
  ASSUME NEW S, NEW a \in Seq(S), NEW b \in Seq(S)
  PROVE  /\ a \o b \in Seq(S)
         /\ \A x : x \in Range(a \o b) <=> x \in Range(a) \/ x \in Range(b)
         /\ Once(a) /\ Once(b) /\ (\A x \in Range(b) : x.m \notin MemoriesOf(a)) => Once(a \o b)
<1> DEFINE c == a \o b
           k == Len(a)
           l == Len(b)
<1>1. /\ c \in Seq(S) /\ Len(c) = k + l
      /\ \A i \in 1 .. k + l : c[i] = IF i <= k THEN a[i] ELSE b[i - k]
  BY ConcatProperties
<1>2. k \in Nat /\ l \in Nat
  OBVIOUS
<1> HIDE DEF c
<1>3. \A x : x \in Range(c) <=> \E i \in 1 .. k + l : x = c[i]
  <2>1. \A x : x \in Range(c) <=> \E i \in 1 .. Len(c) : x = c[i]
    BY <1>1, RangeIs
  <2> QED BY <1>1, <2>1
<1>4. \A x : x \in Range(a) <=> \E i \in 1 .. k : x = a[i]
  BY RangeIs
<1>5. \A x : x \in Range(b) <=> \E i \in 1 .. l : x = b[i]
  BY RangeIs
<1>6. \A m : m \in MemoriesOf(a) <=> \E i \in 1 .. k : a[i].m = m
  BY MemoriesAre
<1>7. ASSUME Once(a), Once(b), \A x \in Range(b) : x.m \notin MemoriesOf(a) PROVE Once(c)
  <2>1. \A i, j \in 1 .. k : a[i].m = a[j].m => i = j
    BY <1>7 DEF Once
  <2>2. \A i, j \in 1 .. l : b[i].m = b[j].m => i = j
    BY <1>7 DEF Once
  <2> HIDE DEF k, l
  <2> SUFFICES ASSUME NEW i \in 1 .. k + l, NEW j \in 1 .. k + l, c[i].m = c[j].m PROVE i = j
    BY <1>1 DEF Once
  <2>3. ASSUME NEW p \in 1 .. k, NEW q \in 1 .. l PROVE a[p].m # b[q].m
    <3>1. b[q] \in Range(b)
      BY <1>5
    <3> QED BY <1>6, <1>7, <3>1
  <2>4. CASE i <= k /\ j <= k
    <3>1. i \in 1 .. k /\ j \in 1 .. k /\ c[i] = a[i] /\ c[j] = a[j]
      BY <1>1, <1>2, <2>4
    <3> QED BY <2>1, <3>1
  <2>5. CASE i > k /\ j > k
    <3> DEFINE p == i - k
               q == j - k
    <3>1. p \in 1 .. l /\ q \in 1 .. l /\ c[i] = b[p] /\ c[j] = b[q]
      BY <1>1, <1>2, <2>5
    <3>2. p = q
      <4> HIDE DEF p, q
      <4> QED BY <2>2, <3>1
    <3> QED BY <1>2, <3>2
  <2>6. CASE i <= k /\ j > k
    <3> DEFINE q == j - k
    <3>1. i \in 1 .. k /\ q \in 1 .. l /\ c[i] = a[i] /\ c[j] = b[q]
      BY <1>1, <1>2, <2>6
    <3> QED BY <2>3, <3>1
  <2>7. CASE i > k /\ j <= k
    <3> DEFINE p == i - k
    <3>1. p \in 1 .. l /\ j \in 1 .. k /\ c[i] = b[p] /\ c[j] = a[j]
      BY <1>1, <1>2, <2>7
    <3> QED BY <2>3, <3>1
  <2> QED BY <1>2, <2>4, <2>5, <2>6, <2>7
<1>8. \A x : x \in Range(c) <=> x \in Range(a) \/ x \in Range(b)
  <2>1. ASSUME NEW i \in 1 .. k PROVE a[i] \in Range(c)
    <3>1. i \in 1 .. k + l /\ c[i] = a[i]
      BY <1>1, <1>2
    <3> QED BY <1>3, <3>1
  <2>2. ASSUME NEW i \in 1 .. l PROVE b[i] \in Range(c)
    <3>1. k + i \in 1 .. k + l /\ ~(k + i <= k) /\ (k + i) - k = i
      BY <1>2
    <3>2. c[k + i] = b[i]
      BY <1>1, <3>1
    <3> QED BY <1>3, <3>1, <3>2
  <2>3. ASSUME NEW i \in 1 .. k + l PROVE c[i] \in Range(a) \/ c[i] \in Range(b)
    <3>1. CASE i <= k
      <4>1. i \in 1 .. k /\ c[i] = a[i]
        BY <1>1, <1>2, <3>1
      <4> QED BY <1>4, <4>1
    <3>2. CASE ~(i <= k)
      <4>1. i - k \in 1 .. l /\ c[i] = b[i - k]
        BY <1>1, <1>2, <3>2
      <4> QED BY <1>5, <4>1
    <3> QED BY <3>1, <3>2
  <2> QED BY <1>3, <1>4, <1>5, <2>1, <2>2, <2>3
<1> QED BY <1>1, <1>7, <1>8 DEF c

\* Merging in the semantic hits does not depend on the order of the others.
LEMMA MergedSame ==
  ASSUME NEW a \in Seq(Hits(Ids)), NEW b \in Seq(Hits(Ids)), NEW v \in Seq(Hits(Ids)),
         Once(a), Once(b), Once(v), Range(a) = Range(b), NEW how
  PROVE  Merged(how, a, v) = Merged(how, b, v)
<1>1. SortedByKey(a) = SortedByKey(b)
  BY SortedSame
<1>2. MemoriesOf(a) = MemoriesOf(b)
  BY SameMemories
<1> DEFINE w == Without(v, MemoriesOf(a))
<1>3. /\ w \in Seq(Hits(Ids)) /\ Once(w)
      /\ \A x : x \in Range(w) <=> x \in Range(v) /\ x.m \notin MemoriesOf(a)
  BY WithoutOnce
<1>4. w = Without(v, MemoriesOf(b))
  BY <1>2
<1> HIDE DEF w
<1>5. /\ a \o w \in Seq(Hits(Ids)) /\ Once(a \o w)
      /\ \A x : x \in Range(a \o w) <=> x \in Range(a) \/ x \in Range(w)
  BY <1>3, JoinOnce
<1>6. /\ b \o w \in Seq(Hits(Ids)) /\ Once(b \o w)
      /\ \A x : x \in Range(b \o w) <=> x \in Range(b) \/ x \in Range(w)
  BY <1>2, <1>3, JoinOnce
<1>7. Range(a \o w) = Range(b \o w)
  BY <1>5, <1>6
<1>8. SortedByKey(a \o w) = SortedByKey(b \o w)
  BY <1>5, <1>6, <1>7, SortedSame
<1>9. Fused(a, v) = Fused(b, v)
  BY <1>1 DEF Fused
<1> QED BY <1>1, <1>4, <1>8, <1>9 DEF Merged, w

LEMMA SemanticSame ==
  ASSUME NEW S, NEW a \in Seq(S), NEW b \in Seq(S), Range(a) = Range(b), NEW r
  PROVE  RunsSemantic(r, a) <=> RunsSemantic(r, b)
<1>1. \A x : x \in Range(a) <=> \E i \in 1 .. Len(a) : x = a[i]
  BY RangeIs
<1>2. \A x : x \in Range(b) <=> \E i \in 1 .. Len(b) : x = b[i]
  BY RangeIs
<1>3. DOMAIN a = 1 .. Len(a) /\ DOMAIN b = 1 .. Len(b)
  OBVIOUS
<1>4. (\A i \in DOMAIN a : a[i].class < Phrase) <=> (\A i \in DOMAIN b : b[i].class < Phrase)
  BY <1>1, <1>2, <1>3
<1> QED BY <1>4 DEF RunsSemantic

-----------------------------------------------------------------------------
(***************************************************************************)
(* Scoring says the same of the same finds, and the vectors, the BM25      *)
(* table and the sort of any ids yield each memory once.                   *)
(***************************************************************************)
ScoreOf(f, query) == Ranked(f.m, f.row, MatchFor(f, query))

LEMMA ScoredAre ==
  ASSUME NEW found \in Seq(Finds(Ids)), NEW query \in Queries
  PROVE  /\ Scored(found, query) \in Seq(Hits(Ids))
         /\ (Once(found) => Once(Scored(found, query)))
         /\ \A h : h \in Range(Scored(found, query)) <=>
              \E f \in Range(found) : h = ScoreOf(f, query) /\ h.class # NoMatch.class
<1> DEFINE N == Len(found)
           all == [i \in DOMAIN found |-> ScoreOf(found[i], query)]
           I == {i \in DOMAIN all : all[i].class # NoMatch.class}
<1>1. N \in Nat /\ DOMAIN found = 1 .. N /\ \A i \in 1 .. N : found[i] \in Finds(Ids)
  OBVIOUS
<1>2. ASSUME NEW c \in Finds(Ids) PROVE ScoreOf(c, query) \in Hits(Ids) /\ ScoreOf(c, query).m = c.m
  <2>1. c.m \in Ids /\ c.row \in Rows
    BY DEF Finds
  <2>2. MatchFor(c, query) \in AMatch
    BY MatchForIs
  <2>3. ScoreOf(c, query) \in Hits(Ids)
    BY <2>1, <2>2, RankedIs DEF ScoreOf
  <2> QED BY <2>3 DEF ScoreOf, Ranked
<1>3. Scored(found, query) = At(all, I)
  BY DEF Scored, ScoreOf
<1>4. all \in [1 .. N -> Hits(Ids)] /\ \A i \in 1 .. N : all[i] = ScoreOf(found[i], query) /\ all[i].m = found[i].m
  <2> HIDE DEF N
  <2>1. \A i \in 1 .. N : ScoreOf(found[i], query) \in Hits(Ids) /\ ScoreOf(found[i], query).m = found[i].m
    BY <1>1, <1>2
  <2> QED BY <1>1, <2>1
<1> HIDE DEF all
<1>5. all \in Seq(Hits(Ids)) /\ Len(all) = N
  BY <1>1, <1>4
<1>6. I \in SUBSET (1 .. Len(all)) /\ \A i : i \in I <=> i \in 1 .. N /\ all[i].class # NoMatch.class
  BY <1>5
<1>7. Once(found) => Once(all)
  BY <1>4, <1>5 DEF Once
<1> HIDE DEF I
<1>8. /\ At(all, I) \in Seq(Hits(Ids)) /\ (Once(all) => Once(At(all, I)))
      /\ \A x : x \in Range(At(all, I)) <=> \E i \in I : x = all[i]
  BY <1>5, <1>6, PartOnce
<1>9. \A f : f \in Range(found) <=> \E i \in 1 .. N : f = found[i]
  BY RangeIs
<1> HIDE DEF N
<1>10. \A h : h \in Range(At(all, I)) <=> \E f \in Range(found) : h = ScoreOf(f, query) /\ h.class # NoMatch.class
  <2>1. ASSUME NEW h \in Range(At(all, I))
        PROVE  \E f \in Range(found) : h = ScoreOf(f, query) /\ h.class # NoMatch.class
    <3>1. PICK i \in I : h = all[i]
      BY <1>8
    <3>2. i \in 1 .. N /\ h = ScoreOf(found[i], query) /\ h.class # NoMatch.class
      BY <1>4, <1>6, <3>1
    <3>3. found[i] \in Range(found)
      BY <1>9, <3>2
    <3> QED BY <3>2, <3>3
  <2>2. ASSUME NEW f \in Range(found), ScoreOf(f, query).class # NoMatch.class
        PROVE  ScoreOf(f, query) \in Range(At(all, I))
    <3>1. PICK i \in 1 .. N : f = found[i]
      BY <1>9
    <3>2. all[i] = ScoreOf(f, query)
      BY <1>4, <3>1
    <3>3. i \in I
      BY <1>6, <2>2, <3>2
    <3> QED BY <1>8, <3>2, <3>3
  <2> QED BY <2>1, <2>2
<1> QED BY <1>3, <1>7, <1>8, <1>10

LEMMA ScoredSame ==
  ASSUME NEW a \in Seq(Finds(Ids)), NEW b \in Seq(Finds(Ids)), Range(a) = Range(b), NEW query \in Queries
  PROVE  Range(Scored(a, query)) = Range(Scored(b, query))
<1>1. \A h : h \in Range(Scored(a, query)) <=>
              \E f \in Range(a) : h = ScoreOf(f, query) /\ h.class # NoMatch.class
  BY ScoredAre
<1>2. \A h : h \in Range(Scored(b, query)) <=>
              \E f \in Range(b) : h = ScoreOf(f, query) /\ h.class # NoMatch.class
  BY ScoredAre
<1> QED BY <1>1, <1>2

\* Ids, sorted, are each there once.
Distinct(seq) == \A i, j \in 1 .. Len(seq) : seq[i] = seq[j] => i = j

LEMMA SortedOnce ==
  ASSUME NEW S \in SUBSET Ids, NEW f, \A a \in S : f[a] \in Int, NEW o, Descends(o, f, S)
  PROVE  o \in Seq(S) /\ Distinct(o) /\ Range(o) = S
<1>1. IsFiniteSet(S) /\ S \in SUBSET Nat
  BY IdsFinite, FS_Subset
<1>2. Orders(o, Falling(f, S), S)
  BY <1>1, SortedFalling DEF Descends
<1>3. /\ o \in Seq(S) /\ Distinct(o) /\ \A a \in S : \E i \in 1 .. Len(o) : o[i] = a
  BY <1>2 DEF Orders, Distinct
<1>4. \A x : x \in Range(o) <=> \E i \in 1 .. Len(o) : x = o[i]
  BY <1>3, RangeIs
<1>5. Range(o) \subseteq S
  BY <1>3, RangeIs
<1> QED BY <1>3, <1>4, <1>5

LEMMA UptoDistinct ==
  ASSUME NEW S, NEW seq \in Seq(S), NEW n \in Nat, Distinct(seq)
  PROVE  Distinct(Upto(seq, n))
<1>1. CASE Len(seq) <= n
  BY <1>1 DEF Upto
<1>2. CASE ~(Len(seq) <= n)
  <2>1. n \in 0 .. Len(seq)
    BY <1>2
  <2> DEFINE x == SubSeq(seq, 1, n)
  <2>2. Len(x) = n /\ \A i \in 1 .. n : x[i] = seq[i]
    BY <2>1, BeginningIs
  <2> HIDE DEF x
  <2>3. \A i \in 1 .. n : i \in 1 .. Len(seq)
    BY <2>1
  <2>4. Distinct(x)
    BY <2>2, <2>3 DEF Distinct
  <2> QED BY <1>2, <2>4 DEF Upto, x
<1> QED BY <1>1, <1>2

LEMMA PartDistinct ==
  ASSUME NEW S, NEW seq \in Seq(S), NEW I \in SUBSET (1 .. Len(seq)), Distinct(seq)
  PROVE  Distinct(At(seq, I))
<1> DEFINE x == At(seq, I)
<1>1. x \in Seq(S) /\ Picks(x, seq, I)
  BY AtPicks
<1> HIDE DEF x
<1>2. PICK o \in [1 .. Len(x) -> I] :
        /\ \A n \in 1 .. Len(x) : x[n] = seq[o[n]]
        /\ \A n, l \in 1 .. Len(x) : n < l => o[n] < o[l]
        /\ \A i \in I : \E n \in 1 .. Len(x) : o[n] = i
  BY <1>1 DEF Picks
<1>3. Len(x) \in Nat /\ \A n \in 1 .. Len(x) : o[n] \in I /\ o[n] \in 1 .. Len(seq) /\ x[n] = seq[o[n]]
  <2>1. Len(x) \in Nat
    BY <1>1
  <2>2. \A n \in 1 .. Len(x) : o[n] \in I
    OBVIOUS
  <2>3. \A i \in I : i \in 1 .. Len(seq)
    OBVIOUS
  <2> QED BY <1>2, <2>1, <2>2, <2>3, Zenon
<1>4. Distinct(x)
  <2> SUFFICES ASSUME NEW i \in 1 .. Len(x), NEW j \in 1 .. Len(x), x[i] = x[j] PROVE i = j
    BY DEF Distinct
  <2>1. o[i] = o[j] /\ o[i] \in Nat
    BY <1>3 DEF Distinct
  <2>2. ~(o[i] < o[j]) /\ ~(o[j] < o[i])
    <3> DEFINE a == o[i]
    <3> HIDE DEF a
    <3>1. a \in Nat => ~(a < a)
      OBVIOUS
    <3> QED BY <2>1, <3>1 DEF a
  <2> QED BY <1>2, <1>3, <2>2
<1> QED BY <1>4 DEF x

LEMMA HeadRest ==
  ASSUME NEW S, NEW seq \in Seq(S), seq # <<>>
  PROVE  \A x : x \in Range(seq) <=> x = Head(seq) \/ x \in Range(Tail(seq))
<1> DEFINE rest == Tail(seq)
           n == Len(rest)
<1>1. /\ rest \in Seq(S) /\ n \in Nat /\ Len(seq) = n + 1 /\ Head(seq) = seq[1]
      /\ \A i \in 1 .. n : rest[i] = seq[i + 1]
  OBVIOUS
<1>2. \A x : x \in Range(seq) <=> \E i \in 1 .. n + 1 : x = seq[i]
  BY <1>1, RangeIs
<1>3. \A x : x \in Range(rest) <=> \E i \in 1 .. n : x = rest[i]
  BY <1>1, RangeIs
<1> HIDE DEF rest, n
<1>4. ASSUME NEW x, NEW i \in 1 .. n + 1, x = seq[i] PROVE x = seq[1] \/ \E j \in 1 .. n : x = rest[j]
  <2>1. CASE i = 1
    BY <1>4, <2>1
  <2>2. CASE i # 1
    <3>1. i - 1 \in 1 .. n /\ (i - 1) + 1 = i
      BY <1>1, <2>2
    <3>2. rest[i - 1] = x
      BY <1>1, <1>4, <3>1
    <3> QED BY <3>1, <3>2
  <2> QED BY <2>1, <2>2
<1>5. ASSUME NEW x, NEW j \in 1 .. n, x = rest[j] PROVE \E i \in 1 .. n + 1 : x = seq[i]
  <2>1. j + 1 \in 1 .. n + 1 /\ x = seq[j + 1]
    BY <1>1, <1>5
  <2> QED BY <2>1
<1>6. 1 \in 1 .. n + 1
  BY <1>1
<1> QED BY <1>1, <1>2, <1>3, <1>4, <1>5, <1>6 DEF rest

LEMMA EligibleOfHas ==
  ASSUME NEW r, NEW S, NEW top \in Seq(S), NEW held
  PROVE  \A m : m \in Range(EligibleOf(r, top, held)) <=>
                 m \in Range(top) /\ Eligible(r.project, m, held[m])
<1> DEFINE I == {i \in DOMAIN top : Eligible(r.project, top[i], held[top[i]])}
<1>1. EligibleOf(r, top, held) = At(top, I)
  BY DEF EligibleOf
<1>2. I \in SUBSET (1 .. Len(top))
  OBVIOUS
<1>3. \A m : (\E i \in I : m = top[i]) <=> (m \in Range(top) /\ Eligible(r.project, m, held[m]))
  BY DEF Range
<1> HIDE DEF I
<1>4. \A m : m \in Range(At(top, I)) <=> \E i \in I : m = top[i]
  BY <1>2, PartOnce
<1> QED BY <1>1, <1>3, <1>4

LEMMA NearestOnce ==
  ASSUME NEW r, r.query \in Queries, r.limit \in Nat
  PROVE  Distinct(Nearest(r))
<1> DEFINE f == Cosine[r.query]
           near == {m \in Ids : f[m] >= 680}
           o == Sorted(near, LAMBDA m, n : f[m] > f[n] \/ (f[m] = f[n] /\ m < n))
<1>1. Nearest(r) = Upto(o, 3 * r.limit)
  BY DEF Nearest
<1>2. \A m \in Ids : f[m] \in Nat
  BY NearestIs
<1>3. near \in SUBSET Ids
  OBVIOUS
<1>4. Descends(o, f, near)
  BY DEF Sorted, Descends
<1> HIDE DEF f, near, o
<1>5. \A a \in near : f[a] \in Int
  BY <1>2, <1>3
<1>6. o \in Seq(near) /\ Distinct(o)
  BY <1>3, <1>4, <1>5, SortedOnce
<1>7. 3 * r.limit \in Nat
  OBVIOUS
<1> QED BY <1>1, <1>6, <1>7, UptoIs, UptoDistinct

LEMMA VectorHitsOnce ==
  ASSUME NEW r, r.query \in Queries, r.limit \in Nat, NEW held \in [Ids -> Rows]
  PROVE  VectorHits(r, held) \in Seq(Hits(Ids)) /\ Once(VectorHits(r, held))
<1> DEFINE top == Nearest(r)
           I == {i \in DOMAIN top : Eligible(r.project, top[i], held[top[i]])}
           kept == EligibleOf(r, top, held)
           match(m) == [class |-> IF Cosine[r.query][m] >= 780 THEN Phrase ELSE 1, strength |-> Cosine[r.query][m]]
           x == VectorHits(r, held)
<1>1. x = [i \in DOMAIN kept |-> Ranked(kept[i], held[kept[i]], match(kept[i]))]
  BY DEF VectorHits
<1>2. top \in Seq(Ids) /\ Distinct(top)
  BY NearestIs, NearestOnce
<1>3. kept = At(top, I)
  BY DEF EligibleOf
<1> HIDE DEF top, match
<1>4. I \in SUBSET (1 .. Len(top))
  BY <1>2
<1> HIDE DEF I, kept
<1>5. kept \in Seq(Ids) /\ Distinct(kept)
  BY <1>2, <1>3, <1>4, PartIs, PartDistinct
<1> DEFINE L == Len(kept)
<1>6. L \in Nat /\ DOMAIN kept = 1 .. L
  BY <1>5
<1>7. \A i, j \in 1 .. L : kept[i] = kept[j] => i = j
  BY <1>5 DEF Distinct
<1> HIDE DEF L, x
<1>8. Len(x) = L /\ \A i \in 1 .. L : x[i].m = kept[i]
  <2> DEFINE R(i) == Ranked(kept[i], held[kept[i]], match(kept[i]))
  <2>1. \A i : R(i).m = kept[i]
    BY DEF Ranked
  <2>2. x = [i \in 1 .. L |-> R(i)]
    BY <1>1, <1>6
  <2> HIDE DEF R
  <2> QED BY <1>6, <2>1, <2>2
<1>9. Once(x)
  BY <1>7, <1>8 DEF Once
<1>10. x \in Seq(Hits(Ids))
  BY VectorHitsIs DEF x
<1> QED BY <1>9, <1>10 DEF x

\* The hits depend on the rows of what is near only where these are eligible.
LEMMA VectorHitsAlike ==
  ASSUME NEW r, r.query \in Queries, r.limit \in Nat, NEW held, NEW other,
         \A m \in Range(Nearest(r)) :
           /\ Eligible(r.project, m, held[m]) <=> Eligible(r.project, m, other[m])
           /\ Eligible(r.project, m, held[m]) => held[m] = other[m]
  PROVE  VectorHits(r, held) = VectorHits(r, other)
<1> DEFINE top == Nearest(r)
           kept == EligibleOf(r, top, held)
           match(m) == [class |-> IF Cosine[r.query][m] >= 780 THEN Phrase ELSE 1, strength |-> Cosine[r.query][m]]
<1>1. top \in Seq(Ids)
  BY NearestIs
<1>2. \A i \in DOMAIN top : top[i] \in Range(top)
  BY DEF Range
<1>3. EligibleOf(r, top, other) = kept
  <2> DEFINE I(h) == {i \in DOMAIN top : Eligible(r.project, top[i], h[top[i]])}
  <2>1. I(held) = I(other)
    BY <1>2
  <2>2. \A h : EligibleOf(r, top, h) = At(top, I(h))
    BY DEF EligibleOf
  <2> HIDE DEF I
  <2> QED BY <2>1, <2>2
<1>4. /\ VectorHits(r, held) = [i \in DOMAIN kept |-> Ranked(kept[i], held[kept[i]], match(kept[i]))]
      /\ VectorHits(r, other) = [i \in DOMAIN kept |-> Ranked(kept[i], other[kept[i]], match(kept[i]))]
  <2>1. \A h, k : k = EligibleOf(r, top, h) =>
          VectorHits(r, h) = [i \in DOMAIN k |-> Ranked(k[i], h[k[i]], match(k[i]))]
    BY DEF VectorHits
  <2> QED BY <1>3, <2>1
<1>5. \A m \in Range(kept) : held[m] = other[m]
  BY <1>1, EligibleOfHas
<1>6. \A i \in DOMAIN kept : kept[i] \in Range(kept)
  BY DEF Range
<1> HIDE DEF top, kept, match
<1>7. \A i \in DOMAIN kept : held[kept[i]] = other[kept[i]]
  BY <1>5, <1>6
<1> QED BY <1>4, <1>7

-----------------------------------------------------------------------------
(***************************************************************************)
(* A search that nothing gets in the way of.  What it recalls and how it   *)
(* ranks is said here for any rows held, so that it can be compared before *)
(* and after a step.                                                       *)
(***************************************************************************)
HoldingIn(F, text) == {m \in F : Within(Facts[m].subject, text) \/ Within(Facts[m].content, text)}

LikeIn(F, query) ==
  LET tried == <<query>> \o Prefixes2(query)
      i == SelectInSeq(tried, LAMBDA t : HoldingIn(F, t) # {})
  IN  IF i = 0 THEN {} ELSE HoldingIn(F, tried[i])

BM25In(F, terms, must) ==
  LET relevance == [m \in Ids |-> Relevance(m, terms)]
      hits == {m \in F : relevance[m] > 0 /\ (must = {} \/ Score(m, must) > 0)}
      Before(m, n) == relevance[m] > relevance[n] \/ (relevance[m] = relevance[n] /\ m < n)
      ids == Sorted(hits, Before)
  IN  [i \in DOMAIN ids |-> [m |-> ids[i], relevance |-> relevance[ids[i]]]]

BM25OfIn(F, terms) == Upto(OrElse(BM25In(F, terms, Anchors(terms)), BM25In(F, terms, {})), CandidateCap)

RecalledIn(F, text) ==
  IF HasCJK(text) THEN LikeIn(F, text)
  ELSE {c.m : c \in Range(BM25OfIn(F, TermsOf(text)))}

\* What a text says of a memory it recalls, as a candidate and with its row.
RelevanceTo(m, text) == IF HasCJK(text) THEN 0 ELSE Relevance(m, TermsOf(text))
Candidate(m, text) == [m |-> m, relevance |-> RelevanceTo(m, text)]
Find(m, text, held) == [m |-> m, query |-> text, relevance |-> RelevanceTo(m, text), row |-> held[m]]

\* The operators of Search say the same of the rows in the index.
LEMMA InIndex ==
  ASSUME NEW r, NEW text
  PROVE  /\ LikeCandidates(r, text) = LikeIn(EligibleNow(r, current), text)
         /\ BM25Candidates(r, text) = BM25OfIn(EligibleNow(r, current), TermsOf(text))
         /\ Recalled(r, text) = RecalledIn(EligibleNow(r, current), text)
<1> DEFINE F == Filtered(r)
<1>1. F = EligibleNow(r, current)
  BY DEF Filtered, EligibleNow
<1>2. LikeCandidates(r, text) = LikeIn(F, text)
  BY DEF LikeCandidates, LikeIn, Holding, HoldingIn
<1>3. \A terms, must : BM25(r, terms, must) = BM25In(F, terms, must)
  BY DEF BM25, BM25In
<1>4. BM25Candidates(r, text) = BM25OfIn(F, TermsOf(text))
  BY <1>3 DEF BM25Candidates, BM25Of, BM25OfIn
<1> HIDE DEF F
<1>5. Recalled(r, text) = RecalledIn(F, text)
  BY <1>2, <1>4 DEF Recalled, RecalledIn
<1> QED BY <1>1, <1>2, <1>4, <1>5

LEMMA BM25Once ==
  ASSUME NEW F \in SUBSET Ids, NEW terms, NEW must
  PROVE  /\ BM25In(F, terms, must) \in Seq(Candidates) /\ Once(BM25In(F, terms, must))
         /\ \A c \in Range(BM25In(F, terms, must)) : c.m \in F /\ c.relevance = Relevance(c.m, terms)
<1> DEFINE f == [m \in Ids |-> Relevance(m, terms)]
           S == {m \in F : f[m] > 0 /\ (must = {} \/ Score(m, must) > 0)}
           o == Sorted(S, LAMBDA m, n : f[m] > f[n] \/ (f[m] = f[n] /\ m < n))
           x == BM25In(F, terms, must)
           L == Len(o)
<1>1. x = [i \in DOMAIN o |-> [m |-> o[i], relevance |-> f[o[i]]]]
  BY DEF BM25In
<1>2. \A m \in Ids : f[m] \in Nat /\ f[m] = Relevance(m, terms)
  BY RelevanceIs
<1>3. S \in SUBSET Ids /\ S \subseteq F
  OBVIOUS
<1>4. Descends(o, f, S)
  BY DEF Sorted, Descends
<1> HIDE DEF f, S, o, x
<1>5. \A a \in S : f[a] \in Int
  BY <1>2, <1>3
<1>6. o \in Seq(S) /\ Distinct(o)
  BY <1>3, <1>4, <1>5, SortedOnce
<1>7. L \in Nat /\ DOMAIN o = 1 .. L /\ \A i \in 1 .. L : o[i] \in S
  BY <1>6
<1>8. \A i, j \in 1 .. L : o[i] = o[j] => i = j
  BY <1>6 DEF Distinct
<1> HIDE DEF L
<1>9. Len(x) = L /\ \A i \in 1 .. L : x[i].m = o[i] /\ x[i].relevance = f[o[i]]
  BY <1>1, <1>7
<1>10. x \in [1 .. L -> Candidates]
  BY <1>1, <1>2, <1>3, <1>7 DEF Candidates
<1>11. x \in Seq(Candidates)
  BY <1>7, <1>10, ListIs
<1>12. Once(x)
  BY <1>8, <1>9 DEF Once
<1>13. ASSUME NEW c \in Range(x) PROVE c.m \in F /\ c.relevance = Relevance(c.m, terms)
  <2>1. PICK i \in 1 .. L : c = x[i]
    BY <1>9, <1>11, RangeIs
  <2>2. c.m = o[i] /\ c.relevance = f[o[i]] /\ o[i] \in S
    BY <1>7, <1>9, <2>1
  <2> QED BY <1>2, <1>3, <2>2
<1> QED BY <1>11, <1>12, <1>13 DEF x

LEMMA UptoOnce ==
  ASSUME NEW S, NEW seq \in Seq(S), NEW n \in Nat
  PROVE  /\ Upto(seq, n) \in Seq(S) /\ (Once(seq) => Once(Upto(seq, n)))
         /\ Range(Upto(seq, n)) \subseteq Range(seq)
<1>1. CASE Len(seq) <= n
  BY <1>1 DEF Upto
<1>2. CASE ~(Len(seq) <= n)
  <2>1. n \in 0 .. Len(seq)
    BY <1>2
  <2> DEFINE x == SubSeq(seq, 1, n)
  <2>2. x \in Seq(S) /\ Len(x) = n /\ \A i \in 1 .. n : x[i] = seq[i]
    BY <2>1, BeginningIs
  <2> HIDE DEF x
  <2>3. \A i \in 1 .. n : i \in 1 .. Len(seq)
    BY <2>1
  <2>4. Once(seq) => Once(x)
    BY <2>2, <2>3 DEF Once
  <2>5. ASSUME NEW z \in Range(x) PROVE z \in Range(seq)
    <3>1. PICK i \in 1 .. n : z = x[i]
      BY <2>2, RangeIs
    <3> QED BY <2>2, <2>3, <3>1, RangeIs
  <2> QED BY <1>2, <2>2, <2>4, <2>5 DEF Upto, x
<1> QED BY <1>1, <1>2

LEMMA BM25OfOnce ==
  ASSUME NEW F \in SUBSET Ids, NEW terms
  PROVE  /\ BM25OfIn(F, terms) \in Seq(Candidates) /\ Once(BM25OfIn(F, terms))
         /\ \A c \in Range(BM25OfIn(F, terms)) : c.m \in F /\ c.relevance = Relevance(c.m, terms)
<1> DEFINE a == BM25In(F, terms, Anchors(terms))
           b == BM25In(F, terms, {})
           s == OrElse(a, b)
<1>1. BM25OfIn(F, terms) = Upto(s, CandidateCap)
  BY DEF BM25OfIn
<1>2. /\ a \in Seq(Candidates) /\ Once(a)
      /\ \A c \in Range(a) : c.m \in F /\ c.relevance = Relevance(c.m, terms)
  BY BM25Once
<1>3. /\ b \in Seq(Candidates) /\ Once(b)
      /\ \A c \in Range(b) : c.m \in F /\ c.relevance = Relevance(c.m, terms)
  BY BM25Once
<1> HIDE DEF a, b
<1>4. /\ s \in Seq(Candidates) /\ Once(s)
      /\ \A c \in Range(s) : c.m \in F /\ c.relevance = Relevance(c.m, terms)
  BY <1>2, <1>3 DEF OrElse
<1> HIDE DEF s
<1>5. CandidateCap \in Nat
  BY SearchAssumption
<1>6. /\ Upto(s, CandidateCap) \in Seq(Candidates) /\ Once(Upto(s, CandidateCap))
      /\ Range(Upto(s, CandidateCap)) \subseteq Range(s)
  BY <1>4, <1>5, UptoOnce
<1> QED BY <1>1, <1>4, <1>6

LEMMA UnorderedOnce ==
  ASSUME NEW S \in SUBSET Ids, NEW list \in Unordered(S), Len(list) # CandidateCap
  PROVE  /\ list \in Seq(Candidates) /\ Once(list)
         /\ \A c : c \in Range(list) <=> \E m \in S : c = [m |-> m, relevance |-> 0]
<1> DEFINE n == Min({Cardinality(S), CandidateCap})
<1>1. PICK s \in UNION {SetToSeqs(k) : k \in kSubset(n, S)} :
        list = [i \in 1 .. n |-> [m |-> s[i], relevance |-> 0]]
  BY DEF Unordered
<1>2. PICK k \in kSubset(n, S) : s \in SetToSeqs(k)
  BY <1>1
<1>3. k \in SUBSET S /\ Cardinality(k) = n
  BY <1>2 DEF kSubset
<1>4. s \in [1 .. n -> k] /\ \A i, j \in 1 .. n : i # j => s[i] # s[j]
  BY <1>2, <1>3 DEF SetToSeqs
<1>5. IsFiniteSet(S) /\ Cardinality(S) \in Nat
  BY IdsFinite, FS_Subset, FS_CardinalityType
<1>6. n \in Nat
  BY <1>5, SearchAssumption, SmallerOf
<1>7. list \in Seq(Candidates)
  BY UnorderedIs
<1> HIDE DEF n
<1>8. Len(list) = n /\ \A i \in 1 .. n : list[i].m = s[i] /\ list[i] = [m |-> s[i], relevance |-> 0] /\ s[i] \in S
  BY <1>1, <1>3, <1>4, <1>6
<1>9. Once(list)
  BY <1>4, <1>8 DEF Once
<1>10. \A c : c \in Range(list) <=> \E i \in 1 .. n : c = list[i]
  BY <1>7, <1>8, RangeIs
<1>11. ASSUME NEW m \in S PROVE \E i \in 1 .. n : list[i].m = m
  BY <1>8, UnorderedAll DEF Holds
<1>12. \A c : c \in Range(list) <=> \E m \in S : c = [m |-> m, relevance |-> 0]
  <2>1. ASSUME NEW c \in Range(list) PROVE \E m \in S : c = [m |-> m, relevance |-> 0]
    BY <1>8, <1>10
  <2>2. ASSUME NEW m \in S PROVE [m |-> m, relevance |-> 0] \in Range(list)
    <3>1. PICK i \in 1 .. n : list[i].m = m
      BY <1>11
    <3>2. list[i] = [m |-> m, relevance |-> 0]
      BY <1>8, <3>1
    <3> QED BY <1>10, <3>2
  <2> QED BY <2>1, <2>2
<1> QED BY <1>7, <1>9, <1>12

LEMMA RecalledAre ==
  ASSUME NEW F \in SUBSET Ids, NEW text
  PROVE  RecalledIn(F, text) \subseteq F
<1>1. CASE HasCJK(text)
  <2>1. LikeIn(F, text) \subseteq F
    BY DEF LikeIn, HoldingIn
  <2> QED BY <1>1, <2>1 DEF RecalledIn
<1>2. CASE ~HasCJK(text)
  BY <1>2, BM25OfOnce DEF RecalledIn
<1> QED BY <1>1, <1>2

\* A query of the index that is neither cut nor in trouble returns what the
\* reference recalls for its text, each memory once.
LEMMA CandidatesAre ==
  ASSUME NEW r, NEW text, NEW c \in RankedCandidates(r, text), c.why = {}, Len(c.list) # CandidateCap
  PROVE  /\ ~c.failed /\ c.list \in Seq(Candidates) /\ Once(c.list)
         /\ \A x : x \in Range(c.list) <=>
              \E m \in RecalledIn(EligibleNow(r, current), text) : x = Candidate(m, text)
<1> DEFINE F == EligibleNow(r, current)
           legacy(why) == {Found(list, why) : list \in Unordered(LikeCandidates(r, text))}
                            \cup (IF "fts" \in Faults THEN {QueryFailed} ELSE {})
           R == RecalledIn(F, text)
<1>1. F \in SUBSET Ids
  BY DEF EligibleNow
<1>2. \/ c = Found(BM25Candidates(r, text), {}) /\ ~HasCJK(text)
      \/ c \in legacy({}) /\ HasCJK(text)
      \/ c \in legacy({"bm25"})
  BY DEF RankedCandidates
<1>3. c # QueryFailed
  BY DEF QueryFailed
<1>4. \A list, why : Found(list, why).list = list /\ Found(list, why).why = why /\ Found(list, why).failed = FALSE
  BY DEF Found
<1>5. CASE c = Found(BM25Candidates(r, text), {}) /\ ~HasCJK(text)
  <2> DEFINE x == BM25OfIn(F, TermsOf(text))
  <2>1. c.list = x /\ ~c.failed
    BY <1>4, <1>5, InIndex
  <2>2. R = {y.m : y \in Range(x)}
    BY <1>5 DEF RecalledIn
  <2>3. /\ x \in Seq(Candidates) /\ Once(x)
        /\ \A y \in Range(x) : y.m \in F /\ y.relevance = Relevance(y.m, TermsOf(text))
    BY <1>1, BM25OfOnce
  <2> HIDE DEF x, R
  <2>4. \A y \in Range(x) : y \in Candidates
    BY <2>3, RangeIs
  <2>5. \A y \in Range(x) : y = Candidate(y.m, text)
    <3> TAKE y \in Range(x)
    <3>1. y = [m |-> y.m, relevance |-> y.relevance]
      BY <2>4 DEF Candidates
    <3>2. Candidate(y.m, text) = [m |-> y.m, relevance |-> Relevance(y.m, TermsOf(text))]
      BY <1>5 DEF Candidate, RelevanceTo
    <3> QED BY <2>3, <3>1, <3>2
  <2>6. \A m : m \in R <=> \E y \in Range(x) : m = y.m
    BY <2>2
  <2>7. \A z : z \in Range(x) <=> \E m \in R : z = Candidate(m, text)
    BY <2>5, <2>6
  <2> QED BY <2>1, <2>3, <2>7 DEF R
<1>6. CASE c \in legacy({}) /\ HasCJK(text)
  <2>1. PICK list \in Unordered(LikeCandidates(r, text)) : c = Found(list, {})
    BY <1>3, <1>6
  <2>2. c.list = list /\ ~c.failed
    BY <1>4, <2>1
  <2>3. LikeCandidates(r, text) = R
    BY <1>6, InIndex DEF RecalledIn
  <2>4. R \in SUBSET Ids
    BY <1>1, RecalledAre
  <2> HIDE DEF R
  <2>5. /\ list \in Seq(Candidates) /\ Once(list)
        /\ \A x : x \in Range(list) <=> \E m \in R : x = [m |-> m, relevance |-> 0]
    BY <2>1, <2>2, <2>3, <2>4, UnorderedOnce
  <2>6. \A m : Candidate(m, text) = [m |-> m, relevance |-> 0]
    BY <1>6 DEF Candidate, RelevanceTo
  <2> QED BY <2>2, <2>5, <2>6 DEF R
<1>7. CASE c \in legacy({"bm25"})
  <2>1. \E list : c = Found(list, {"bm25"})
    BY <1>3, <1>7
  <2> QED BY <1>4, <2>1
<1> QED BY <1>2, <1>5, <1>6, <1>7

\* With what each text recalls given, the first text that recalls a memory,
\* and what the first n texts have found.
FirstBy(recalled, m, i) == m \in recalled[i] /\ \A j \in 1 .. i - 1 : m \notin recalled[j]
FoundBy(texts, recalled, held, n) ==
  {Find(p[1], texts[p[2]], held) : p \in {p \in Ids \X (1 .. n) : FirstBy(recalled, p[1], p[2])}}

FoundIn(texts, recalled, held) ==
  LET by(m) == texts[SelectInSeq(recalled, LAMBDA S : m \in S)]
      pool == InOrder(UNION Range(recalled))
  IN  [i \in DOMAIN pool |-> Find(pool[i], by(pool[i]), held)]

\* What the texts of a search recall with the rows in held, its keyword hits,
\* and how these and the vector hits are ranked.
RecalledBy(s, texts, held) == [i \in DOMAIN texts |-> RecalledIn(EligibleNow(s, held), texts[i])]
LexicalIn(s, texts, held) == Scored(FoundIn(texts, RecalledBy(s, texts, held), held), s.query)
RankIn(how, s, held, lexical) ==
  IF RunsSemantic(s, lexical) THEN Merged(how, lexical, VectorHits(s, held)) ELSE SortedByKey(lexical)

\* The texts tried so far, and that the others are still to do.
Tried(s) == Len(Expanded[s.query]) - Len(s.todo)

Tries(s) ==
  /\ Tried(s) >= 0
  /\ \A i \in 1 .. Len(s.todo) : s.todo[i] = Expanded[s.query][Tried(s) + i]

\* In any order, what the texts tried have found; and in any order, what the
\* text that is tried recalls.
Collects(s, held) ==
  LET texts == Expanded[s.query]
  IN  Once(s.found) /\ Range(s.found) = FoundBy(texts, RecalledBy(s, texts, held), held, Tried(s))

Queried(s, held) ==
  LET text == Head(s.todo)
  IN  /\ Once(s.batch)
      /\ Range(s.batch) = {Candidate(m, text) : m \in RecalledIn(EligibleNow(s, held), text)}

\* Of what is near, the rows that are eligible are loaded or still to load.
Loads(s, held) ==
  \A m \in Range(Nearest(s)) :
    LET eligible == Eligible(s.project, m, held[m])
    IN  /\ m \in Range(s.near) => eligible
        /\ ~eligible => ~Eligible(s.project, m, s.read[m])
        /\ eligible => m \in Range(s.near) \/ s.read[m] = held[m]

\* Where a search stands that nothing has got in the way of so far: before it
\* ranks, its lists have the elements that the reference has, and then they
\* are its lists.
Undisturbed(how, s, held) ==
  LET lexical == LexicalIn(s, Expanded[s.query], held)
  IN  /\ s.pc \in {"query", "hydrate"} => Tries(s) /\ Collects(s, held)
      /\ s.pc = "hydrate" => Queried(s, held)
      /\ s.pc \in {"vectors", "load"} => s.ranked = SortedByKey(lexical) /\ RunsSemantic(s, lexical)
      /\ s.pc = "load" => Loads(s, held)
      /\ s.pc \in {"reply", "answered"} => s.ranked = RankIn(how, s, held, lexical)

IdealInv == search.pc # "idle" /\ disturbed = {} => Undisturbed(merge, search, current)

LEMMA FoundByIs ==
  ASSUME NEW texts, NEW recalled, NEW held, NEW n, NEW x
  PROVE  x \in FoundBy(texts, recalled, held, n) <=>
           \E m \in Ids, i \in 1 .. n : FirstBy(recalled, m, i) /\ x = Find(m, texts[i], held)
<1> DEFINE P == {p \in Ids \X (1 .. n) : FirstBy(recalled, p[1], p[2])}
<1>1. x \in FoundBy(texts, recalled, held, n) <=> \E p \in P : x = Find(p[1], texts[p[2]], held)
  BY DEF FoundBy
<1>2. ASSUME NEW p \in P
      PROVE  p[1] \in Ids /\ p[2] \in 1 .. n /\ FirstBy(recalled, p[1], p[2])
  OBVIOUS
<1>3. ASSUME NEW m \in Ids, NEW i \in 1 .. n, FirstBy(recalled, m, i)
      PROVE  <<m, i>> \in P /\ <<m, i>>[1] = m /\ <<m, i>>[2] = i
  BY <1>3
<1> HIDE DEF P
<1>4. ASSUME NEW p \in P, x = Find(p[1], texts[p[2]], held)
      PROVE  \E m \in Ids, i \in 1 .. n : FirstBy(recalled, m, i) /\ x = Find(m, texts[i], held)
  BY <1>2, <1>4
<1>5. ASSUME NEW m \in Ids, NEW i \in 1 .. n, FirstBy(recalled, m, i), x = Find(m, texts[i], held)
      PROVE  \E p \in P : x = Find(p[1], texts[p[2]], held)
  <2> DEFINE p == <<m, i>>
  <2>1. p \in P /\ p[1] = m /\ p[2] = i
    BY <1>3, <1>5
  <2> HIDE DEF p
  <2>2. x = Find(p[1], texts[p[2]], held)
    BY <1>5, <2>1
  <2> QED BY <2>1, <2>2
<1> QED BY <1>1, <1>4, <1>5

\* What some text recalls, a first text recalls; and only one text is first.
LEMMA FirstExists ==
  ASSUME NEW recalled, NEW m, NEW n \in Nat, NEW i \in 1 .. n, m \in recalled[i]
  PROVE  \E k \in 1 .. n : FirstBy(recalled, m, k)
<1> DEFINE T == {k \in 1 .. n : m \in recalled[k]}
<1>1. T \in SUBSET Nat /\ T # {}
  OBVIOUS
<1>2. PICK x \in T : \A y \in T : x <= y
  <2> HIDE DEF T
  <2> QED BY <1>1, LeastNumber
<1>3. x \in 1 .. n /\ m \in recalled[x]
  OBVIOUS
<1>4. ASSUME NEW j \in 1 .. x - 1 PROVE m \notin recalled[j]
  <2>1. j \in 1 .. n /\ ~(x <= j)
    BY <1>3
  <2> QED BY <1>2, <2>1
<1> QED BY <1>3, <1>4 DEF FirstBy

LEMMA FirstOnce ==
  ASSUME NEW recalled, NEW m, NEW n \in Nat, NEW i \in 1 .. n, NEW k \in 1 .. n,
         FirstBy(recalled, m, i), FirstBy(recalled, m, k)
  PROVE  i = k
<1>1. i < k => i \in 1 .. k - 1
  OBVIOUS
<1>2. k < i => k \in 1 .. i - 1
  OBVIOUS
<1> QED BY <1>1, <1>2 DEF FirstBy

LEMMA FoundMemories ==
  ASSUME NEW texts, NEW recalled, NEW held, NEW n \in Nat, NEW m \in Ids
  PROVE  (\E x \in FoundBy(texts, recalled, held, n) : x.m = m) <=> \E i \in 1 .. n : m \in recalled[i]
<1>1. \A k, text : Find(k, text, held).m = k
  BY DEF Find
<1>2. ASSUME NEW x \in FoundBy(texts, recalled, held, n), x.m = m PROVE \E i \in 1 .. n : m \in recalled[i]
  <2>1. PICK k \in Ids, i \in 1 .. n : FirstBy(recalled, k, i) /\ x = Find(k, texts[i], held)
    BY FoundByIs
  <2>2. k = m
    BY <1>1, <1>2, <2>1
  <2> QED BY <2>1, <2>2 DEF FirstBy
<1>3. ASSUME NEW i \in 1 .. n, m \in recalled[i] PROVE \E x \in FoundBy(texts, recalled, held, n) : x.m = m
  <2>1. PICK k \in 1 .. n : FirstBy(recalled, m, k)
    BY <1>3, FirstExists
  <2>2. Find(m, texts[k], held) \in FoundBy(texts, recalled, held, n)
    BY <2>1, FoundByIs
  <2> QED BY <1>1, <2>2
<1> QED BY <1>2, <1>3

\* One text more adds what no text before it recalls.
LEMMA FoundGrows ==
  ASSUME NEW texts, NEW recalled, NEW held, NEW n \in Nat, recalled[n + 1] \in SUBSET Ids, NEW x
  PROVE  x \in FoundBy(texts, recalled, held, n + 1) <=>
           \/ x \in FoundBy(texts, recalled, held, n)
           \/ \E m \in recalled[n + 1] : /\ x = Find(m, texts[n + 1], held)
                                         /\ \A y \in FoundBy(texts, recalled, held, n) : y.m # m
<1>1. \A i : i \in 1 .. n + 1 <=> i \in 1 .. n \/ i = n + 1
  OBVIOUS
<1>2. (n + 1) - 1 = n /\ n + 1 \in 1 .. n + 1
  OBVIOUS
<1>3. \A m : FirstBy(recalled, m, n + 1) <=> m \in recalled[n + 1] /\ \A j \in 1 .. n : m \notin recalled[j]
  BY <1>2 DEF FirstBy
<1>4. \A m \in Ids : (\A y \in FoundBy(texts, recalled, held, n) : y.m # m) <=> \A j \in 1 .. n : m \notin recalled[j]
  BY FoundMemories
<1>5. ASSUME x \in FoundBy(texts, recalled, held, n + 1)
      PROVE  \/ x \in FoundBy(texts, recalled, held, n)
             \/ \E m \in recalled[n + 1] : /\ x = Find(m, texts[n + 1], held)
                                           /\ \A y \in FoundBy(texts, recalled, held, n) : y.m # m
  <2>1. PICK m \in Ids, i \in 1 .. n + 1 : FirstBy(recalled, m, i) /\ x = Find(m, texts[i], held)
    BY <1>5, FoundByIs
  <2>2. CASE i \in 1 .. n
    BY <2>1, <2>2, FoundByIs
  <2>3. CASE i = n + 1
    <3>1. m \in recalled[n + 1] /\ \A j \in 1 .. n : m \notin recalled[j]
      BY <1>3, <2>1, <2>3
    <3>2. \A y \in FoundBy(texts, recalled, held, n) : y.m # m
      BY <1>4, <3>1
    <3> QED BY <2>1, <2>3, <3>1, <3>2
  <2> QED BY <1>1, <2>2, <2>3
<1>6. ASSUME x \in FoundBy(texts, recalled, held, n)
      PROVE  x \in FoundBy(texts, recalled, held, n + 1)
  <2>1. PICK m \in Ids, i \in 1 .. n : FirstBy(recalled, m, i) /\ x = Find(m, texts[i], held)
    BY <1>6, FoundByIs
  <2> QED BY <1>1, <2>1, FoundByIs
<1>7. ASSUME NEW m \in recalled[n + 1], x = Find(m, texts[n + 1], held),
             \A y \in FoundBy(texts, recalled, held, n) : y.m # m
      PROVE  x \in FoundBy(texts, recalled, held, n + 1)
  <2>1. m \in Ids
    OBVIOUS
  <2>2. FirstBy(recalled, m, n + 1)
    BY <1>3, <1>4, <1>7, <2>1
  <2> QED BY <1>2, <1>7, <2>1, <2>2, FoundByIs
<1> QED BY <1>5, <1>6, <1>7

LEMMA FindIs ==
  ASSUME NEW m \in Ids, NEW text \in Texts, NEW held \in [Ids -> Rows]
  PROVE  Find(m, text, held) \in Finds(Ids)
<1>1. RelevanceTo(m, text) \in Nat
  BY RelevanceIs DEF RelevanceTo
<1> QED BY <1>1 DEF Find, Finds

\* The list of the reference: what the texts find, each memory once.
LEMMA FoundInIs ==
  ASSUME NEW texts \in Seq(Texts), NEW held \in [Ids -> Rows],
         NEW recalled \in [1 .. Len(texts) -> SUBSET Ids]
  PROVE  /\ FoundIn(texts, recalled, held) \in Seq(Finds(Ids)) /\ Once(FoundIn(texts, recalled, held))
         /\ Range(FoundIn(texts, recalled, held)) = FoundBy(texts, recalled, held, Len(texts))
<1> DEFINE N == Len(texts)
           S == UNION Range(recalled)
           pool == InOrder(S)
           C == Cardinality(S)
           k(m) == SelectInSeq(recalled, LAMBDA T : m \in T)
           One(m) == Find(m, texts[k(m)], held)
           x == FoundIn(texts, recalled, held)
<1>1. x = [i \in DOMAIN pool |-> One(pool[i])]
  BY DEF FoundIn
<1>2. N \in Nat /\ recalled \in Seq(SUBSET Ids) /\ Len(recalled) = N
  <2>1. N \in Nat
    OBVIOUS
  <2> HIDE DEF N
  <2> QED BY <2>1, ListIs DEF N
<1>3. \A T : T \in Range(recalled) <=> \E i \in 1 .. N : T = recalled[i]
  BY <1>2, RangeIs
<1>4. \A m : m \in S <=> \E i \in 1 .. N : m \in recalled[i]
  BY <1>3
<1>5. S \in SUBSET Ids
  BY <1>2, <1>4
<1>6. S \in SUBSET Nat /\ IsFiniteSet(S)
  BY <1>5, IdsFinite, FS_Subset
<1>7. ASSUME NEW m \in S
      PROVE  k(m) \in 1 .. N /\ FirstBy(recalled, m, k(m)) /\ m \in Ids /\ One(m) \in Finds(Ids) /\ One(m).m = m
  <2> DEFINE I == {i \in 1 .. Len(recalled) : m \in recalled[i]}
  <2>1. k(m) = IF I # {} THEN Min(I) ELSE 0
    BY DEF SelectInSeq
  <2>2. I \in SUBSET Nat /\ I # {} /\ I \subseteq 1 .. N /\ \A i : i \in I <=> i \in 1 .. N /\ m \in recalled[i]
    <3>1. \A i : i \in I <=> i \in 1 .. N /\ m \in recalled[i]
      BY <1>2
    <3>2. \E i \in 1 .. N : m \in recalled[i]
      BY <1>4
    <3> HIDE DEF I, S
    <3>3. I # {} /\ I \subseteq 1 .. N
      BY <3>1, <3>2
    <3>4. 1 .. N \subseteq Nat
      BY <1>2
    <3> QED BY <3>1, <3>3, <3>4
  <2> HIDE DEF I, k, S
  <2>3. \E y \in I : \A z \in I : y <= z
    BY <2>2, LeastNumber
  <2>4. Min(I) \in I /\ \A z \in I : Min(I) <= z
    BY <2>3 DEF Min
  <2> DEFINE n == Min(I)
  <2>5. n \in 1 .. N /\ m \in recalled[n] /\ \A z \in I : n <= z
    BY <2>2, <2>4
  <2>6. k(m) = n
    BY <2>1, <2>2
  <2> HIDE DEF n
  <2>7. ASSUME NEW j \in 1 .. n - 1 PROVE m \notin recalled[j]
    <3>1. j \in 1 .. N /\ ~(n <= j)
      BY <1>2, <2>5
    <3> QED BY <2>2, <2>5, <3>1
  <2>8. FirstBy(recalled, m, n)
    BY <2>5, <2>7 DEF FirstBy
  <2>9. m \in Ids /\ texts[n] \in Texts
    BY <1>5, <2>5
  <2>10. One(m) \in Finds(Ids)
    BY <2>6, <2>9, FindIs
  <2> QED BY <2>5, <2>6, <2>8, <2>9, <2>10 DEF Find
<1> HIDE DEF k, S
<1>8. /\ C \in Nat /\ DOMAIN pool = 1 .. C
      /\ \A i \in 1 .. C : pool[i] \in S
      /\ \A i, j \in 1 .. C : i < j => pool[i] < pool[j]
      /\ \A a \in S : \E i \in 1 .. C : pool[i] = a
  BY <1>6, InOrderLists
<1>9. \A i, j \in 1 .. C : pool[i] = pool[j] => i = j
  <2> SUFFICES ASSUME NEW i \in 1 .. C, NEW j \in 1 .. C, pool[i] = pool[j], i < j PROVE FALSE
    BY <1>8
  <2>1. pool[i] < pool[j] /\ pool[i] \in Nat
    BY <1>6, <1>8
  <2> DEFINE a == pool[i]
  <2>2. a < a /\ a \in Nat
    BY <2>1
  <2> HIDE DEF a
  <2> QED BY <2>2
<1> HIDE DEF pool, C, One, x, N
<1>10. x \in [1 .. C -> Finds(Ids)] /\ \A i \in 1 .. C : x[i] = One(pool[i])
  BY <1>1, <1>7, <1>8
<1>11. x \in Seq(Finds(Ids)) /\ Len(x) = C
  BY <1>8, <1>10, ListIs
<1>12. Once(x)
  <2>1. \A i \in 1 .. C : x[i].m = pool[i]
    BY <1>7, <1>8, <1>10
  <2> QED BY <1>9, <1>11, <2>1 DEF Once
<1>13. \A z : z \in Range(x) <=> \E m \in S : z = One(m)
  <2>1. \A z : z \in Range(x) <=> \E i \in 1 .. C : z = x[i]
    BY <1>11, RangeIs
  <2> QED BY <1>8, <1>10, <2>1
<1>14. ASSUME NEW z PROVE z \in Range(x) <=> z \in FoundBy(texts, recalled, held, N)
  <2>1. ASSUME NEW m \in S PROVE One(m) \in FoundBy(texts, recalled, held, N)
    <3>1. k(m) \in 1 .. N /\ FirstBy(recalled, m, k(m)) /\ m \in Ids
      BY <1>7
    <3>2. One(m) = Find(m, texts[k(m)], held)
      BY DEF One
    <3> QED BY <3>1, <3>2, FoundByIs
  <2>2. ASSUME z \in FoundBy(texts, recalled, held, N) PROVE \E m \in S : z = One(m)
    <3>1. PICK m \in Ids, i \in 1 .. N : FirstBy(recalled, m, i) /\ z = Find(m, texts[i], held)
      BY <2>2, FoundByIs
    <3>2. m \in S
      BY <1>4, <3>1 DEF FirstBy
    <3>3. k(m) \in 1 .. N /\ FirstBy(recalled, m, k(m))
      BY <1>7, <3>2
    <3>4. k(m) = i
      BY <1>2, <3>1, <3>3, FirstOnce
    <3> QED BY <3>1, <3>2, <3>4 DEF One
  <2> QED BY <1>13, <2>1, <2>2
<1> QED BY <1>11, <1>12, <1>14 DEF x, N

LEMMA RecallsAre ==
  ASSUME NEW s, NEW texts \in Seq(Texts), NEW held
  PROVE  /\ RecalledBy(s, texts, held) \in [1 .. Len(texts) -> SUBSET Ids]
         /\ \A i \in 1 .. Len(texts) :
              RecalledBy(s, texts, held)[i] = RecalledIn(EligibleNow(s, held), texts[i])
<1> DEFINE F == EligibleNow(s, held)
           r == RecalledBy(s, texts, held)
<1>1. F \in SUBSET Ids
  BY DEF EligibleNow
<1>2. r = [i \in DOMAIN texts |-> RecalledIn(F, texts[i])] /\ DOMAIN texts = 1 .. Len(texts)
  BY DEF RecalledBy
<1> HIDE DEF F, r
<1>3. \A text : RecalledIn(F, text) \in SUBSET Ids
  BY <1>1, RecalledAre
<1>4. r \in [1 .. Len(texts) -> SUBSET Ids] /\ \A i \in 1 .. Len(texts) : r[i] = RecalledIn(F, texts[i])
  BY <1>2, <1>3
<1> QED BY <1>4 DEF F, r

\* What was asked for is all that these say of a search.
Alike(s, t) ==
  /\ t.query = s.query /\ t.project = s.project /\ t.kinds = s.kinds
  /\ t.limit = s.limit /\ t.mode = s.mode

LEMMA SameQuestion ==
  ASSUME NEW s, NEW t, Alike(s, t), NEW held
  PROVE  /\ EligibleNow(t, held) = EligibleNow(s, held)
         /\ \A texts : RecalledBy(t, texts, held) = RecalledBy(s, texts, held)
         /\ \A texts : LexicalIn(t, texts, held) = LexicalIn(s, texts, held)
         /\ \A list : RunsSemantic(t, list) <=> RunsSemantic(s, list)
         /\ \A how, list : RankIn(how, t, held, list) = RankIn(how, s, held, list)
<1>1. EligibleNow(t, held) = EligibleNow(s, held)
  BY DEF EligibleNow, Alike
<1>2. \A texts : RecalledBy(t, texts, held) = RecalledBy(s, texts, held)
  BY <1>1 DEF RecalledBy
<1>3. \A texts : LexicalIn(t, texts, held) = LexicalIn(s, texts, held)
  BY <1>2 DEF LexicalIn, Alike
<1>4. \A list : RunsSemantic(t, list) <=> RunsSemantic(s, list)
  BY DEF RunsSemantic, Alike
<1>5. VectorHits(t, held) = VectorHits(s, held)
  BY DEF VectorHits, Nearest, EligibleOf, Alike
<1>6. \A how, list : RankIn(how, t, held, list) = RankIn(how, s, held, list)
  BY <1>4, <1>5 DEF RankIn
<1> QED BY <1>1, <1>2, <1>3, <1>4, <1>6

LEMMA SameTexts ==
  \A s, t, held, texts : Alike(s, t) => RecalledBy(t, texts, held) = RecalledBy(s, texts, held)
<1> TAKE s, t, held, texts
<1> HAVE Alike(s, t)
<1> QED BY SameQuestion

\* The keyword hits of the reference: each memory once, scored as the first
\* text that recalls it has it.
LEMMA LexicalAre ==
  ASSUME NEW s, s.query \in Queries, NEW texts \in Seq(Texts), NEW held \in [Ids -> Rows]
  PROVE  /\ LexicalIn(s, texts, held) \in Seq(Hits(Ids)) /\ Once(LexicalIn(s, texts, held))
         /\ \A h : h \in Range(LexicalIn(s, texts, held)) <=>
              \E f \in FoundBy(texts, RecalledBy(s, texts, held), held, Len(texts)) :
                h = ScoreOf(f, s.query) /\ h.class # NoMatch.class
<1> DEFINE R == RecalledBy(s, texts, held)
           x == FoundIn(texts, R, held)
<1>1. R \in [1 .. Len(texts) -> SUBSET Ids]
  BY RecallsAre
<1>2. LexicalIn(s, texts, held) = Scored(x, s.query)
  BY DEF LexicalIn
<1> HIDE DEF R
<1>3. x \in Seq(Finds(Ids)) /\ Once(x) /\ Range(x) = FoundBy(texts, R, held, Len(texts))
  BY <1>1, FoundInIs
<1> HIDE DEF x
<1>4. /\ Scored(x, s.query) \in Seq(Hits(Ids)) /\ (Once(x) => Once(Scored(x, s.query)))
      /\ \A h : h \in Range(Scored(x, s.query)) <=>
           \E f \in Range(x) : h = ScoreOf(f, s.query) /\ h.class # NoMatch.class
  BY <1>3, ScoredAre
<1> QED BY <1>2, <1>3, <1>4 DEF R

\* With every text tried, what was found is scored as in the reference, if
\* perhaps in another order.
LEMMA CollectedAre ==
  ASSUME NEW s, s.query \in Queries, NEW held \in [Ids -> Rows], s.found \in Seq(Finds(Ids)),
         s.todo = <<>>, Collects(s, held)
  PROVE  /\ Scored(s.found, s.query) \in Seq(Hits(Ids)) /\ Once(Scored(s.found, s.query))
         /\ Range(Scored(s.found, s.query)) = Range(LexicalIn(s, Expanded[s.query], held))
<1> DEFINE texts == Expanded[s.query]
           R == RecalledBy(s, texts, held)
           x == FoundIn(texts, R, held)
<1>1. texts \in Seq(Texts) /\ Len(texts) \in Nat
  BY FirstText
<1>2. Tried(s) = Len(texts)
  <2>1. Tried(s) = Len(texts) - Len(s.todo) /\ Len(s.todo) = 0
    BY DEF Tried
  <2> HIDE DEF texts
  <2> QED BY <1>1, <2>1
<1>3. Once(s.found) /\ Range(s.found) = FoundBy(texts, R, held, Len(texts))
  BY <1>2 DEF Collects
<1>4. R \in [1 .. Len(texts) -> SUBSET Ids]
  BY <1>1, RecallsAre
<1>5. LexicalIn(s, texts, held) = Scored(x, s.query)
  BY DEF LexicalIn
<1> HIDE DEF R, texts
<1>6. x \in Seq(Finds(Ids)) /\ Range(x) = FoundBy(texts, R, held, Len(texts))
  BY <1>1, <1>4, FoundInIs
<1> HIDE DEF x
<1>7. Range(Scored(s.found, s.query)) = Range(Scored(x, s.query))
  BY <1>3, <1>6, ScoredSame
<1> QED BY <1>3, <1>5, <1>7, ScoredAre DEF texts

\* With the rows unchanged since the query, hydration keeps every candidate
\* and reads its row.
LEMMA HydratedAll ==
  ASSUME NEW r, r.batch \in Seq(Candidates), Head(r.todo) \in Texts,
         current \in [Ids -> Rows], Queried(r, current)
  PROVE  /\ Once(HydratedOf(r))
         /\ \A x : x \in Range(HydratedOf(r)) <=>
              \E m \in RecalledIn(EligibleNow(r, current), Head(r.todo)) : x = Find(m, Head(r.todo), current)
<1> DEFINE batch == r.batch
           text == Head(r.todo)
           F == EligibleNow(r, current)
           Q == RecalledIn(F, text)
           Now(m) == Eligible(r.project, m, current[m]) /\ KindRequested(m, r.kinds)
           I == {i \in DOMAIN batch : Now(batch[i].m)}
           new == At(batch, I)
           L == Len(new)
           One(c) == [m |-> c.m, query |-> text, relevance |-> c.relevance, row |-> current[c.m]]
           x == HydratedOf(r)
<1>1. x = [i \in DOMAIN new |-> One(new[i])]
  BY DEF HydratedOf
<1>2. Once(batch) /\ \A c : c \in Range(batch) <=> \E m \in Q : c = Candidate(m, text)
  BY DEF Queried
<1>3. F \in SUBSET Ids /\ \A m \in F : Now(m)
  BY DEF EligibleNow
<1>4. \A m \in Q : m \in F
  <2> HIDE DEF F
  <2> QED BY <1>3, RecalledAre
<1>5. \A m : Candidate(m, text).m = m /\ One(Candidate(m, text)) = Find(m, text, current)
  BY DEF Candidate, Find
<1> HIDE DEF batch, F
<1>6. batch \in Seq(Candidates)
  BY DEF batch
<1>7. \A c : c \in Range(batch) <=> \E i \in 1 .. Len(batch) : c = batch[i]
  BY <1>6, RangeIs
<1>8. \A i \in 1 .. Len(batch) : Now(batch[i].m)
  <2> TAKE i \in 1 .. Len(batch)
  <2>1. PICK m \in Q : batch[i] = Candidate(m, text)
    BY <1>2, <1>7
  <2>2. batch[i].m = m
    BY <1>5, <2>1
  <2> HIDE DEF Now
  <2> QED BY <1>3, <1>4, <2>2
<1>9. I \in SUBSET (1 .. Len(batch)) /\ \A i : i \in I <=> i \in 1 .. Len(batch)
  <2>1. \A i : i \in I <=> i \in DOMAIN batch /\ Now(batch[i].m)
    OBVIOUS
  <2>2. DOMAIN batch = 1 .. Len(batch)
    BY <1>6
  <2> HIDE DEF I, Now
  <2> QED BY <1>8, <2>1, <2>2
<1> HIDE DEF Now, I, Q, text
<1>10. /\ new \in Seq(Candidates) /\ Once(new)
       /\ \A c : c \in Range(new) <=> \E i \in I : c = batch[i]
  BY <1>2, <1>6, <1>9, PartOnce
<1>11. \A c : c \in Range(new) <=> \E m \in Q : c = Candidate(m, text)
  BY <1>2, <1>7, <1>9, <1>10
<1> HIDE DEF new, x, One
<1>12. L \in Nat /\ DOMAIN new = 1 .. L
  BY <1>10
<1>13. \A c : c \in Range(new) <=> \E i \in 1 .. L : c = new[i]
  BY <1>10, RangeIs
<1> HIDE DEF L
<1>14. DOMAIN x = 1 .. L /\ Len(x) = L /\ \A i \in 1 .. L : x[i] = One(new[i])
  BY <1>1, <1>12
<1>15. Once(x)
  <2>1. \A i \in 1 .. L : x[i].m = new[i].m
    BY <1>14 DEF One
  <2> QED BY <1>10, <1>14, <2>1 DEF Once, L
<1>16. \A z : z \in Range(x) <=> \E i \in 1 .. L : z = One(new[i])
  BY <1>14 DEF Range
<1>17. \A z : z \in Range(x) <=> \E m \in Q : z = Find(m, text, current)
  <2>1. \A z : z \in Range(x) <=> \E c \in Range(new) : z = One(c)
    BY <1>13, <1>16
  <2>2. \A m : One(Candidate(m, text)) = Find(m, text, current)
    BY <1>5
  <2> HIDE DEF Q
  <2> QED BY <1>11, <2>1, <2>2
<1> QED BY <1>15, <1>17 DEF x, Q, text, F

\* What the texts before have found and what the next one adds.
LEMMA JoinedAre ==
  ASSUME NEW found \in Seq(Finds(Ids)), NEW h \in Seq(Finds(Ids)), Once(found), Once(h)
  PROVE  /\ Once(Joined(found, h))
         /\ \A x : x \in Range(Joined(found, h)) <=>
              x \in Range(found) \/ (x \in Range(h) /\ \A y \in Range(found) : y.m # x.m)
<1> DEFINE w == Without(h, MemoriesOf(found))
<1>1. /\ w \in Seq(Finds(Ids)) /\ Once(w)
      /\ \A x : x \in Range(w) <=> x \in Range(h) /\ x.m \notin MemoriesOf(found)
  BY WithoutOnce
<1>2. Joined(found, h) = found \o w
  BY DEF Joined
<1> HIDE DEF w
<1>3. \A x : x \in Range(found \o w) <=> x \in Range(found) \/ x \in Range(w)
  BY <1>1, JoinOnce
<1>4. Once(found \o w)
  <2>1. \A x \in Range(w) : x.m \notin MemoriesOf(found)
    BY <1>1
  <2> QED BY <1>1, <2>1, JoinOnce
<1>5. \A m : m \in MemoriesOf(found) <=> \E y \in Range(found) : y.m = m
  <2>1. \A y : y \in Range(found) <=> \E i \in 1 .. Len(found) : y = found[i]
    BY RangeIs
  <2>2. \A m : m \in MemoriesOf(found) <=> \E i \in 1 .. Len(found) : found[i].m = m
    BY MemoriesAre
  <2> QED BY <2>1, <2>2
<1> QED BY <1>1, <1>2, <1>3, <1>4, <1>5

\* One text more: what is tried, and what is collected.
LEMMA CollectsOn ==
  ASSUME NEW s, NEW t, s.query \in Queries, s.todo \in Seq(Texts), s.todo # <<>>,
         s.found \in Seq(Finds(Ids)), s.batch \in Seq(Candidates), current \in [Ids -> Rows],
         Tries(s), Collects(s, current), Queried(s, current),
         Alike(s, t), t.todo = Tail(s.todo), t.found = Joined(s.found, HydratedOf(s))
  PROVE  Tries(t) /\ Collects(t, current)
<1> DEFINE texts == Expanded[s.query]
           R == RecalledBy(s, texts, current)
           n == Tried(s)
           h == HydratedOf(s)
           text == Head(s.todo)
           F == EligibleNow(s, current)
           l == Len(s.todo)
           N == Len(texts)
<1>1. texts \in Seq(Texts) /\ N \in Nat
  BY FirstText
<1>2. l \in Nat /\ l > 0 /\ text = s.todo[1] /\ text \in Texts
      /\ Len(t.todo) = l - 1 /\ \A i \in 1 .. l - 1 : t.todo[i] = s.todo[i + 1]
  <2> DEFINE o == s.todo
  <2>1. o \in Seq(Texts) /\ o # <<>> /\ t.todo = Tail(o)
    OBVIOUS
  <2> HIDE DEF o
  <2>2. Len(o) \in Nat /\ Len(o) > 0 /\ Head(o) = o[1] /\ Head(o) \in Texts /\ Len(Tail(o)) = Len(o) - 1
        /\ \A i \in 1 .. Len(o) - 1 : Tail(o)[i] = o[i + 1]
    BY <2>1
  <2> QED BY <2>1, <2>2 DEF o
<1>3. n = N - l /\ n >= 0 /\ \A i \in 1 .. l : s.todo[i] = texts[n + i]
  BY DEF Tries, Tried
<1>4. Tried(t) = N - Len(t.todo) /\ t.query = s.query
  BY DEF Tried, Alike
<1> HIDE DEF n, l, N
<1>5. n \in Nat /\ n + 1 \in 1 .. N /\ Tried(t) = n + 1
  BY <1>1, <1>2, <1>3, <1>4
<1>6. texts[n + 1] = text
  <2>1. 1 \in 1 .. l
    BY <1>2
  <2> QED BY <1>2, <1>3, <2>1
<1>7. ASSUME NEW i \in 1 .. l - 1 PROVE t.todo[i] = texts[n + 1 + i]
  <2>1. i + 1 \in 1 .. l /\ n + (i + 1) = n + 1 + i
    BY <1>2, <1>5
  <2> QED BY <1>2, <1>3, <2>1
<1>8. Tries(t)
  <2> HIDE DEF texts
  <2>1. \A i \in 1 .. Len(t.todo) : t.todo[i] = texts[Tried(t) + i]
    BY <1>2, <1>5, <1>7
  <2>2. Tried(t) >= 0
    BY <1>5
  <2> QED BY <1>4, <2>1, <2>2 DEF Tries, texts
<1>9. R \in [1 .. N -> SUBSET Ids] /\ R[n + 1] = RecalledIn(F, text)
  <2> HIDE DEF texts
  <2>1. R \in [1 .. N -> SUBSET Ids] /\ \A i \in 1 .. N : R[i] = RecalledIn(F, texts[i])
    <3>1. texts \in Seq(Texts)
      BY <1>1
    <3> QED BY <3>1, RecallsAre DEF N
  <2> HIDE DEF R, F, text
  <2> QED BY <1>5, <1>6, <2>1
<1>10. Once(s.found) /\ Range(s.found) = FoundBy(texts, R, current, n)
  BY DEF Collects, n
<1>11. Once(h) /\ \A x : x \in Range(h) <=> \E m \in RecalledIn(F, text) : x = Find(m, text, current)
  BY <1>2, HydratedAll
<1>12. h \in Seq(Finds(Ids))
  BY <1>2, HydratedIs
<1>13. RecalledBy(t, texts, current) = R
  BY SameTexts
<1> HIDE DEF R, h, text, F, texts
<1>14. R[n + 1] \in SUBSET Ids
  BY <1>5, <1>9
<1>15. Once(t.found)
  BY <1>10, <1>11, <1>12, JoinedAre DEF h
<1>16. ASSUME NEW x PROVE x \in Range(t.found) <=> x \in FoundBy(texts, R, current, n + 1)
  <2>1. x \in Range(t.found) <=>
          x \in Range(s.found) \/ (x \in Range(h) /\ \A y \in Range(s.found) : y.m # x.m)
    BY <1>10, <1>11, <1>12, JoinedAre DEF h
  <2>2. \A m : Find(m, text, current).m = m
    BY DEF Find
  <2>3. x \in FoundBy(texts, R, current, n + 1) <=>
           \/ x \in FoundBy(texts, R, current, n)
           \/ \E m \in R[n + 1] : /\ x = Find(m, texts[n + 1], current)
                                  /\ \A y \in FoundBy(texts, R, current, n) : y.m # m
    <3>1. n \in Nat
      BY <1>5
    <3> QED BY <1>14, <3>1, FoundGrows, SMTT(30)
  <2> QED BY <1>6, <1>9, <1>10, <1>11, <2>1, <2>2, <2>3
<1>17. Range(t.found) = FoundBy(texts, R, current, n + 1)
  <2> HIDE DEF Range
  <2> QED BY <1>16
<1>18. Collects(t, current)
  BY <1>4, <1>5, <1>13, <1>15, <1>17 DEF Collects, texts
<1> QED BY <1>8, <1>18

-----------------------------------------------------------------------------
(***************************************************************************)
(* The steps of a search that nothing gets in the way of.                  *)
(***************************************************************************)
LEMMA FindsAre ==
  ASSUME NEW E \in SUBSET Ids, NEW found \in Seq(Finds(E))
  PROVE  found \in Seq(Finds(Ids))
<1>1. Finds(E) \subseteq Finds(Ids)
  BY DEF Finds
<1> QED BY <1>1, SeqGrows

\* A search that begins has tried nothing and found nothing.
LEMMA BeginIdeal == SearchInv /\ Begin => IdealInv'
<1> SUFFICES ASSUME SearchInv, Begin PROVE IdealInv'
  OBVIOUS
<1>1. PICK query \in Queries, project \in Projects, kinds \in Kinds, limit \in Limits, mode \in SearchModes :
        search' = [pc |-> "query", query |-> query, project |-> project, kinds |-> kinds,
                   limit |-> limit, mode |-> mode, todo |-> Expanded[query], batch |-> <<>>,
                   found |-> <<>>, ok |-> FALSE, near |-> <<>>, read |-> NothingRead, ranked |-> <<>>]
  BY DEF Begin
<1> DEFINE s == search'
           held == current'
           N == Len(Expanded[query])
<1>2. s.pc = "query" /\ s.query = query /\ s.todo = Expanded[query] /\ s.found = <<>>
  BY <1>1
<1> HIDE DEF s, held
<1>3. N \in Nat
  BY FirstText
<1>4. Tried(s) = 0
  <2>1. Tried(s) = N - N
    BY <1>2 DEF Tried
  <2> HIDE DEF N
  <2> QED BY <1>3, <2>1
<1>5. Tries(s)
  <2>1. \A i \in 1 .. N : 0 + i = i
    BY <1>3
  <2> HIDE DEF N
  <2>2. \A i \in 1 .. Len(s.todo) : s.todo[i] = Expanded[s.query][0 + i]
    BY <1>2, <2>1 DEF N
  <2> QED BY <1>4, <2>2 DEF Tries
<1>6. Collects(s, held)
  <2>1. Once(s.found) /\ Range(s.found) = {}
    BY <1>2 DEF Once, Range
  <2>2. \A texts, recalled : FoundBy(texts, recalled, held, 0) = {}
    <3>1. \A texts, recalled, x : x \notin FoundBy(texts, recalled, held, 0)
      BY FoundByIs
    <3> QED BY <3>1
  <2> QED BY <1>4, <2>1, <2>2 DEF Collects
<1>7. \A how : Undisturbed(how, s, held)
  BY <1>2, <1>5, <1>6 DEF Undisturbed
<1> QED BY <1>7 DEF IdealInv, s, held

\* Without a fault or a cut the index returns what the text recalls.
LEMMA QueryIndexIdeal == SearchInv /\ IdealInv /\ QueryIndex => IdealInv'
<1> SUFFICES ASSUME SearchInv, IdealInv, QueryIndex, disturbed' = {} PROVE Undisturbed(merge', search', current')
  BY DEF IdealInv
<1>1. search.pc = "query" /\ search.todo # <<>> /\ current' = current /\ merge' = merge
  BY DEF QueryIndex, Step
<1>2. PICK c \in RankedCandidates(search, Head(search.todo)) :
        /\ search' = IF c.failed THEN [search EXCEPT !.todo = Tail(@)]
                     ELSE [search EXCEPT !.pc = "hydrate", !.batch = c.list, !.ok = TRUE]
        /\ disturbed' = disturbed \cup (c.why \cup (IF Len(c.list) = CandidateCap THEN {"capped"} ELSE {}))
  BY DEF QueryIndex, Disturb
<1>3. disturbed = {} /\ c.why = {} /\ Len(c.list) # CandidateCap
  BY <1>2
<1>4. search \in Searches(May) /\ search.pc # "idle"
  BY <1>1, Typed
<1> DEFINE s == search
           t == search'
           text == Head(search.todo)
           held == current
<1>5. Tries(s) /\ Collects(s, held)
  BY <1>1, <1>3, <1>4 DEF IdealInv, Undisturbed
<1>6. /\ ~c.failed /\ c.list \in Seq(Candidates) /\ Once(c.list)
      /\ \A x : x \in Range(c.list) <=> \E m \in RecalledIn(EligibleNow(s, held), text) : x = Candidate(m, text)
  BY <1>3, CandidatesAre
<1>7. t = [s EXCEPT !.pc = "hydrate", !.batch = c.list, !.ok = TRUE]
  BY <1>2, <1>6
<1>8. /\ t.pc = "hydrate" /\ Alike(s, t) /\ t.todo = s.todo /\ t.found = s.found /\ t.batch = c.list
      /\ t.query = s.query
  BY <1>4, <1>7 DEF Searches, Alike
<1> HIDE DEF s, t, held, text
<1>9. Tried(t) = Tried(s)
  BY <1>8 DEF Tried
<1>10. Tries(t)
  BY <1>5, <1>8, <1>9 DEF Tries
<1>11. /\ EligibleNow(t, held) = EligibleNow(s, held)
       /\ \A texts : RecalledBy(t, texts, held) = RecalledBy(s, texts, held)
  BY <1>8, SameQuestion
<1>12. Collects(t, held)
  BY <1>5, <1>8, <1>9, <1>11 DEF Collects
<1>13. Head(t.todo) = text
  BY <1>8 DEF text, s
<1>14. Range(t.batch) = {Candidate(m, text) : m \in RecalledIn(EligibleNow(t, held), text)}
  BY <1>6, <1>8, <1>11
<1>15. Queried(t, held)
  BY <1>6, <1>8, <1>13, <1>14 DEF Queried
<1>16. Undisturbed(merge, t, held)
  BY <1>8, <1>10, <1>12, <1>15 DEF Undisturbed
<1> QED BY <1>1, <1>16 DEF t, held

\* No row has changed since the query, so that hydration drops nothing.
LEMMA HydrateIdeal == SearchInv /\ IdealInv /\ Hydrate => IdealInv'
<1> SUFFICES ASSUME SearchInv, IdealInv, Hydrate, disturbed' = {} PROVE Undisturbed(merge', search', current')
  BY DEF IdealInv
<1>1. search.pc = "hydrate" /\ current' = current /\ merge' = merge
  BY DEF Hydrate, Step
<1>2. \E found :
        /\ search' = [search EXCEPT !.pc = "query", !.todo = Tail(@), !.batch = <<>>, !.found = found]
        /\ \/ found = Joined(search.found, HydratedOf(search)) /\ disturbed' = disturbed \cup {}
           \/ disturbed' = disturbed \cup {"hydrate"}
  BY DEF Hydrate, HydratedOf, Disturb
<1> DEFINE s == search
           t == search'
           h == HydratedOf(search)
<1>3. /\ disturbed = {}
      /\ t = [s EXCEPT !.pc = "query", !.todo = Tail(@), !.batch = <<>>, !.found = Joined(s.found, h)]
  BY <1>2
<1>4. s \in Searches(May) /\ s.pc # "idle" /\ s.query \in Queries /\ May \in SUBSET Ids /\ current \in [Ids -> Rows]
  BY <1>1, Typed
<1>5. s.todo \in Seq(Texts) /\ s.batch \in Seq(Candidates) /\ s.found \in Seq(Finds(May)) /\ s.todo # <<>>
  <2>1. s.todo # <<>>
    BY <1>1, <1>4, IdleIs DEF SearchInv, InProgress
  <2> QED BY <1>4, <2>1 DEF Searches
<1>6. s.found \in Seq(Finds(Ids))
  BY <1>4, <1>5, FindsAre
<1>7. Tries(s) /\ Collects(s, current) /\ Queried(s, current)
  BY <1>1, <1>3, <1>4 DEF IdealInv, Undisturbed
<1> HIDE DEF h
<1>8. t.pc = "query" /\ Alike(s, t) /\ t.todo = Tail(s.todo) /\ t.found = Joined(s.found, h)
  BY <1>3, <1>4 DEF Searches, Alike
<1> HIDE DEF t
<1>9. Tries(t) /\ Collects(t, current)
  BY <1>4, <1>5, <1>6, <1>7, <1>8, CollectsOn DEF h, s
<1>10. Undisturbed(merge, t, current)
  BY <1>8, <1>9 DEF Undisturbed
<1> QED BY <1>1, <1>10, SMTT(20) DEF t

\* Every text was tried and none failed: what is ranked is what the
\* reference ranks, whatever the order it was found in.
LEMMA LexicalIdeal == SearchInv /\ KeptInv /\ IdealInv /\ Lexical => IdealInv'
<1> SUFFICES ASSUME SearchInv, KeptInv, IdealInv, Lexical, disturbed' = {}
             PROVE  Undisturbed(merge', search', current')
  BY DEF IdealInv
<1>1. search.pc = "query" /\ search.todo = <<>> /\ current' = current /\ merge' = merge
  BY DEF Lexical, Step
<1> DEFINE found == IF NeedsScan THEN EligibleRows(search) ELSE search.found
           ranked == Scored(found, search.query)
           s == search
           t == search'
           q == search.query
           held == current
           lexical == LexicalIn(s, Expanded[q], held)
<1>2. \/ /\ t = [s EXCEPT !.ranked = SortedByKey(ranked), !.pc = IF RunsSemantic(s, ranked) THEN "vectors" ELSE "reply"]
         /\ disturbed' = disturbed \cup {}
      \/ disturbed' = disturbed \cup {"scan"}
  BY DEF Lexical, Disturb
<1>3. /\ disturbed = {}
      /\ t = [s EXCEPT !.ranked = SortedByKey(ranked), !.pc = IF RunsSemantic(s, ranked) THEN "vectors" ELSE "reply"]
  BY <1>2
<1>4. s \in Searches(May) /\ s.pc # "idle" /\ q \in Queries /\ May \in SUBSET Ids /\ held \in [Ids -> Rows]
  BY <1>1, Typed
<1>5. s.found \in Seq(Finds(Ids))
  <2>1. s.found \in Seq(Finds(May))
    BY <1>4 DEF Searches
  <2> QED BY <1>4, <2>1, FindsAre
<1>6. Collects(s, held)
  BY <1>1, <1>3, <1>4 DEF IdealInv, Undisturbed
<1>7. s.ok
  <2>1. Begun(s, disturbed)
    BY <1>4 DEF KeptInv, Carries
  <2>2. Asked(s)
    <3>1. Len(Expanded[q]) > 0 /\ Len(s.todo) = 0
      BY <1>1, <1>4, FirstText
    <3> QED BY <3>1 DEF Asked
  <2> QED BY <1>3, <2>1, <2>2 DEF Begun
<1>8. found = s.found
  BY <1>7 DEF NeedsScan
<1> HIDE DEF found
<1>9. ranked \in Seq(Hits(Ids)) /\ Once(ranked) /\ Range(ranked) = Range(lexical)
  BY <1>1, <1>4, <1>5, <1>6, <1>8, CollectedAre
<1>10. lexical \in Seq(Hits(Ids)) /\ Once(lexical)
  BY <1>4, FirstText, LexicalAre
<1> HIDE DEF ranked, lexical
<1>11. SortedByKey(ranked) = SortedByKey(lexical) /\ (RunsSemantic(s, ranked) <=> RunsSemantic(s, lexical))
  BY <1>9, <1>10, SortedSame, SemanticSame
<1> DEFINE sorted == SortedByKey(lexical)
           pc == IF RunsSemantic(s, lexical) THEN "vectors" ELSE "reply"
<1>12. t = [s EXCEPT !.ranked = sorted, !.pc = pc]
  BY <1>3, <1>11
<1> HIDE DEF sorted
<1>13. t.pc = pc /\ Alike(s, t) /\ t.ranked = sorted /\ t.query = q
  BY <1>4, <1>12 DEF Searches, Alike
<1> HIDE DEF s, t
<1>14. LexicalIn(t, Expanded[q], held) = lexical /\ (RunsSemantic(t, lexical) <=> RunsSemantic(s, lexical))
       /\ RankIn(merge, t, held, lexical) = RankIn(merge, s, held, lexical)
  BY <1>13, SameQuestion DEF lexical
<1>15. pc = "reply" => RankIn(merge, s, held, lexical) = sorted
  BY DEF RankIn, sorted
<1>16. pc = "vectors" => RunsSemantic(s, lexical)
  OBVIOUS
<1>17. pc \in {"vectors", "reply"}
  OBVIOUS
<1> HIDE DEF pc, held
<1>18. Undisturbed(merge, t, held)
  BY <1>13, <1>14, <1>15, <1>16, <1>17 DEF Undisturbed, sorted
<1> QED BY <1>1, <1>18 DEF t, held

\* A step that keeps the keyword ranking on the way through the vectors.
LEMMA RankedOn ==
  ASSUME NEW s, NEW t, Alike(s, t), t.ranked = s.ranked, NEW how, NEW held,
         s.pc \in {"vectors", "load"}, t.pc = "load", Loads(t, held), Undisturbed(how, s, held)
  PROVE  Undisturbed(how, t, held)
<1>1. t.query = s.query
  BY DEF Alike
<1>2. /\ \A texts : LexicalIn(t, texts, held) = LexicalIn(s, texts, held)
      /\ \A list : RunsSemantic(t, list) <=> RunsSemantic(s, list)
  BY SameQuestion
<1> QED BY <1>1, <1>2 DEF Undisturbed

LEMMA CandidatesIdeal == SearchInv /\ IdealInv /\ SemanticCandidates => IdealInv'
<1> SUFFICES ASSUME SearchInv, IdealInv, SemanticCandidates, disturbed' = {}
             PROVE  Undisturbed(merge', search', current')
  BY DEF IdealInv
<1>1. search.pc = "vectors" /\ current' = current /\ merge' = merge
  BY DEF SemanticCandidates, Step
<1> DEFINE s == search
           t == search'
           held == current
           near == EligibleOf(s, Nearest(s), held)
<1>2. \/ t = [s EXCEPT !.pc = "load", !.read = NothingRead, !.near = near] /\ disturbed' = disturbed \cup {}
      \/ disturbed' = disturbed \cup {"vector"}
  BY DEF SemanticCandidates, Disturb
<1>3. disturbed = {} /\ t = [s EXCEPT !.pc = "load", !.read = NothingRead, !.near = near]
  BY <1>2
<1>4. s \in Searches(May) /\ s.pc # "idle" /\ s.query \in Queries /\ s.limit \in Nat
  BY <1>1, Typed
<1>5. Undisturbed(merge, s, held)
  BY <1>3, <1>4 DEF IdealInv
<1>6. \A m \in Ids : ~Eligible(s.project, m, NothingRead[m])
  BY DEF NothingRead, Unread, NewRow, Eligible
<1>7. Nearest(s) \in Seq(Ids)
  BY <1>4, NearestIs
<1>8. \A m : m \in Range(near) <=> m \in Range(Nearest(s)) /\ Eligible(s.project, m, held[m])
  BY <1>7, EligibleOfHas
<1>9. \A m \in Range(Nearest(s)) : m \in Ids
  BY <1>7 DEF Range
<1> HIDE DEF near
<1>10. t.pc = "load" /\ Alike(s, t) /\ t.ranked = s.ranked /\ t.near = near /\ t.read = NothingRead
  BY <1>3, <1>4 DEF Searches, Alike
<1> HIDE DEF s, t, held
<1>11. Nearest(t) = Nearest(s) /\ t.project = s.project
  BY <1>10 DEF Nearest, Alike
<1>12. Loads(t, held)
  BY <1>6, <1>8, <1>9, <1>10, <1>11 DEF Loads
<1>13. Undisturbed(merge, t, held)
  BY <1>1, <1>5, <1>10, <1>12, RankedOn DEF s
<1> QED BY <1>1, <1>13 DEF t, held

LEMMA LoadIdeal == SearchInv /\ IdealInv /\ LoadMemoryRow => IdealInv'
<1> SUFFICES ASSUME SearchInv, IdealInv, LoadMemoryRow, disturbed' = {}
             PROVE  Undisturbed(merge', search', current')
  BY DEF IdealInv
<1>1. search.pc = "load" /\ search.near # <<>> /\ current' = current /\ merge' = merge
  BY DEF LoadMemoryRow, Step
<1> DEFINE s == search
           t == search'
           held == current
           k == Head(s.near)
           rest == Tail(s.near)
           read == RowRead(s, k)
<1>2. \/ t = [s EXCEPT !.near = rest, !.read = read] /\ disturbed' = disturbed \cup {}
      \/ disturbed' = disturbed \cup {"vector"}
  BY DEF LoadMemoryRow, Disturb
<1>3. disturbed = {} /\ t = [s EXCEPT !.near = rest, !.read = read]
  BY <1>2
<1>4. s \in Searches(May) /\ s.pc # "idle" /\ s.query \in Queries /\ s.limit \in Nat
  BY <1>1, Typed
<1>5. Undisturbed(merge, s, held) /\ Loads(s, held)
  BY <1>1, <1>3, <1>4 DEF IdealInv, Undisturbed
<1>6. s.near \in Seq(Ids) /\ s.read \in Reads(May)
  BY <1>4 DEF Searches
<1>7. \A m : m \in Range(s.near) <=> m = k \/ m \in Range(rest)
  BY <1>1, <1>6, HeadRest
<1>8. Nearest(s) \in Seq(Ids) /\ k \in Ids
  BY <1>1, <1>4, <1>6, NearestIs
<1>9. \A m \in Range(Nearest(s)) : m \in Ids
  BY <1>8 DEF Range
<1>10. \A m \in Ids : read[m] = IF m = k /\ Eligible(s.project, k, held[k]) THEN held[k] ELSE s.read[m]
  BY <1>6 DEF RowRead, Reads
<1> HIDE DEF k, rest, read
<1>11. t.pc = "load" /\ Alike(s, t) /\ t.ranked = s.ranked /\ t.near = rest /\ t.read = read
  BY <1>1, <1>3, <1>4 DEF Searches, Alike
<1> HIDE DEF s, t, held
<1>12. Nearest(t) = Nearest(s) /\ t.project = s.project
  BY <1>11 DEF Nearest, Alike
<1>13. Loads(t, held)
  BY <1>5, <1>7, <1>9, <1>10, <1>11, <1>12 DEF Loads
<1>14. Undisturbed(merge, t, held)
  BY <1>1, <1>5, <1>11, <1>13, RankedOn DEF s
<1> QED BY <1>1, <1>14 DEF t, held

LEMMA MergeIdeal == SearchInv /\ IdealInv /\ MergeSemantic => IdealInv'
<1> SUFFICES ASSUME SearchInv, IdealInv, MergeSemantic, disturbed' = {} PROVE Undisturbed(merge', search', current')
  BY DEF IdealInv
<1>1. search.pc = "load" /\ search.near = <<>> /\ current' = current /\ merge' = merge /\ disturbed = {}
  BY DEF MergeSemantic, Step, Disturb
<1> DEFINE s == search
           t == search'
           q == search.query
           held == current
           v == VectorHits(s, held)
           lexical == LexicalIn(s, Expanded[q], held)
<1>2. t = [s EXCEPT !.pc = "reply", !.read = NothingRead, !.ranked = Merged(merge, @, VectorHits(s, s.read))]
  BY DEF MergeSemantic
<1>3. s \in Searches(May) /\ s.pc # "idle" /\ q \in Queries /\ s.limit \in Nat /\ held \in [Ids -> Rows]
  BY <1>1, Typed
<1>4. s.ranked = SortedByKey(lexical) /\ RunsSemantic(s, lexical) /\ Loads(s, held)
  BY <1>1, <1>3 DEF IdealInv, Undisturbed
<1>5. VectorHits(s, s.read) = v
  <2>1. Range(s.near) = {}
    BY <1>1 DEF Range
  <2>2. \A m \in Range(Nearest(s)) :
          /\ Eligible(s.project, m, s.read[m]) <=> Eligible(s.project, m, held[m])
          /\ Eligible(s.project, m, s.read[m]) => s.read[m] = held[m]
    BY <1>4, <2>1 DEF Loads
  <2> QED BY <1>3, <2>2, VectorHitsAlike
<1>6. v \in Seq(Hits(Ids)) /\ Once(v)
  BY <1>3, VectorHitsOnce
<1>7. lexical \in Seq(Hits(Ids)) /\ Once(lexical)
  BY <1>3, FirstText, LexicalAre
<1> DEFINE merged == Merged(merge, s.ranked, v)
<1>8. RankIn(merge, s, held, lexical) = Merged(merge, lexical, v)
  BY <1>4 DEF RankIn
<1> HIDE DEF v, lexical
<1>9. merged = Merged(merge, lexical, v)
  <2>1. SortedByKey(lexical) \in Seq(Hits(Ids)) /\ Once(SortedByKey(lexical))
        /\ Range(SortedByKey(lexical)) = Range(lexical)
    BY <1>7, SortedRises
  <2> QED BY <1>4, <1>6, <1>7, <2>1, MergedSame
<1>10. t = [s EXCEPT !.pc = "reply", !.read = NothingRead, !.ranked = merged]
  BY <1>2, <1>5
<1> HIDE DEF merged
<1>11. t.pc = "reply" /\ Alike(s, t) /\ t.ranked = merged /\ t.query = q
  BY <1>3, <1>10 DEF Searches, Alike
<1> HIDE DEF s, t
<1>12. LexicalIn(t, Expanded[q], held) = lexical /\ RankIn(merge, t, held, lexical) = RankIn(merge, s, held, lexical)
  BY <1>11, SameQuestion DEF lexical
<1>13. Undisturbed(merge, t, held)
  BY <1>8, <1>9, <1>11, <1>12 DEF Undisturbed
<1> QED BY <1>1, <1>13 DEF t, held

LEMMA ReplyIdeal == SearchInv /\ IdealInv /\ Reply => IdealInv'
<1> SUFFICES ASSUME SearchInv, IdealInv, Reply, disturbed' = {} PROVE Undisturbed(merge', search', current')
  BY DEF IdealInv
<1>1. search.pc = "reply" /\ search' = [search EXCEPT !.pc = "answered"] /\ merge' = merge /\ disturbed = {}
  BY DEF Reply
<1>2. current' = current
  BY ReplyChangesNothing
<1>3. search \in Searches(May) /\ search.pc # "idle"
  BY <1>1, Typed
<1> DEFINE s == search
           t == search'
           held == current
<1>4. s.ranked = RankIn(merge, s, held, LexicalIn(s, Expanded[s.query], held))
  BY <1>1, <1>3 DEF IdealInv, Undisturbed
<1>5. t.pc = "answered" /\ Alike(s, t) /\ t.ranked = s.ranked /\ t.query = s.query
  BY <1>1, <1>3 DEF Searches, Alike
<1> HIDE DEF s, t, held
<1>6. /\ \A texts : LexicalIn(t, texts, held) = LexicalIn(s, texts, held)
      /\ \A how, list : RankIn(how, t, held, list) = RankIn(how, s, held, list)
  BY <1>5, SameQuestion
<1>7. Undisturbed(merge, t, held)
  BY <1>4, <1>5, <1>6 DEF Undisturbed
<1> QED BY <1>1, <1>2, <1>7 DEF t, held

\* A write during a search disturbs it.
LEMMA IdealStep == SearchInv /\ KeptInv /\ IdealInv /\ [Next]_vars => IdealInv'
<1> SUFFICES ASSUME SearchInv, KeptInv, IdealInv, [Next]_vars PROVE IdealInv'
  OBVIOUS
<1>1. CASE UNCHANGED vars
  BY <1>1 DEF vars, IdealInv
<1>2. CASE Finish \/ Restart
  <2>1. search'.pc = "idle"
    BY <1>2 DEF Finish, Restart, Idle
  <2> QED BY <2>1 DEF IdealInv
<1>3. CASE Retire \/ Mislead \/ Recall
  <2>1. PICK m, row : Write(m, row)
    BY <1>3 DEF Retire, Mislead, Recall
  <2>2. search' = search /\ (search.pc # "idle" => disturbed' = disturbed \cup {"change"})
    BY <2>1 DEF Write, Disturb
  <2>3. search'.pc = "idle" \/ disturbed' # {}
    BY <2>2
  <2> QED BY <2>3 DEF IdealInv
<1>4. CASE Begin
  BY <1>4, BeginIdeal
<1>5. CASE SearchStep
  BY <1>2, <1>5, QueryIndexIdeal, HydrateIdeal, LexicalIdeal,
     CandidatesIdeal, LoadIdeal, MergeIdeal, ReplyIdeal DEF SearchStep
<1> QED BY <1>1, <1>2, <1>3, <1>4, <1>5 DEF Next

-----------------------------------------------------------------------------
(***************************************************************************)
(* The answer.                                                             *)
(***************************************************************************)

\* The reference ranks what the invariant speaks of.
LEMMA IdealRankingIs ==
  ASSUME NEW s, NEW texts
  PROVE  IdealRanking(s, texts) = RankIn(merge, s, current, LexicalIn(s, texts, current))
<1>1. \A text : Recalled(s, text) = RecalledIn(EligibleNow(s, current), text)
  BY InIndex
<1> DEFINE recalled == [i \in DOMAIN texts |-> Recalled(s, texts[i])]
<1>2. recalled = RecalledBy(s, texts, current)
  BY <1>1 DEF RecalledBy
<1> HIDE DEF recalled
<1>3. FirstRecalled(texts, recalled) = FoundIn(texts, recalled, current)
  BY DEF FirstRecalled, FoundIn, Find, RelevanceTo
<1>4. Scored(FirstRecalled(texts, recalled), s.query) = LexicalIn(s, texts, current)
  BY <1>2, <1>3 DEF LexicalIn
<1>5. IdealRanking(s, texts) = RankedFor(s, Scored(FirstRecalled(texts, recalled), s.query))
  BY DEF IdealRanking, recalled
<1>6. \A lexical : RankedFor(s, lexical) = RankIn(merge, s, current, lexical)
  BY DEF RankedFor, RankIn
<1> QED BY <1>4, <1>5, <1>6

\* While nothing gets in the way of searchMemories, what it carries from one
\* read to the next has the elements of the reference, whatever order the
\* index hands them out in; from Lexical on it is the list of the reference.
THEOREM IdealInvariant == Spec => [](SearchInv /\ KeptInv /\ IdealInv)
<1>1. Init => KeptInv /\ IdealInv
  BY DEF Init, Idle, KeptInv, IdealInv
<1> QED BY <1>1, KeptStep, IdealStep, SearchInvariant, PTL DEF Spec

\* The property of the run "search", for every corpus, every table of names,
\* every merge and every order in which an index without ORDER BY may hand
\* out its candidates: a search that no fault, no cut and no change of a row
\* disturbs answers what the one-step reference says, also once Reply has
\* recorded the accesses.
THEOREM AnswersTheIdeal == Spec => []UndisturbedIsIdeal
<1>1. SearchInv /\ IdealInv => UndisturbedIsIdeal
  <2> SUFFICES ASSUME IdealInv, search.pc = "answered", disturbed = {} PROVE Answer = Ideal(search)
    BY DEF UndisturbedIsIdeal
  <2> DEFINE texts == Expanded[search.query]
  <2>1. search.ranked = RankIn(merge, search, current, LexicalIn(search, texts, current))
    BY DEF IdealInv, Undisturbed
  <2> HIDE DEF texts
  <2>2. IdealRanking(search, texts) = RankIn(merge, search, current, LexicalIn(search, texts, current))
    BY IdealRankingIs
  <2>3. search.ranked = IdealRanking(search, texts)
    BY <2>1, <2>2
  <2> QED BY <2>3 DEF Answer, Ideal, texts
<1> QED BY <1>1, IdealInvariant, PTL

\* A part of an ordered list is ordered.
LEMMA PartRises ==
  ASSUME NEW S, NEW seq \in Seq(S), NEW I \in SUBSET (1 .. Len(seq)), NEW R, Rises(seq, R)
  PROVE  Rises(At(seq, I), R)
<1> DEFINE x == At(seq, I)
<1>1. x \in Seq(S) /\ Picks(x, seq, I)
  BY AtPicks
<1> HIDE DEF x
<1>2. PICK o \in [1 .. Len(x) -> I] :
        /\ \A n \in 1 .. Len(x) : x[n] = seq[o[n]]
        /\ \A n, l \in 1 .. Len(x) : n < l => o[n] < o[l]
  BY <1>1 DEF Picks
<1>3. \A n \in 1 .. Len(x) : o[n] \in I
  OBVIOUS
<1>4. \A i \in I : i \in 1 .. Len(seq)
  OBVIOUS
<1>5. ASSUME NEW i \in 1 .. Len(x), NEW j \in 1 .. Len(x), i < j PROVE <<x[i], x[j]>> \in R
  <2>1. o[i] \in 1 .. Len(seq) /\ o[j] \in 1 .. Len(seq)
    BY <1>3, <1>4
  <2>2. o[i] < o[j] /\ x[i] = seq[o[i]] /\ x[j] = seq[o[j]]
    BY <1>2, <1>5
  <2> QED BY <2>1, <2>2 DEF Rises
<1> QED BY <1>5 DEF Rises, x

\* What the query alone finds, its expansion finds as the query's: the query
\* is the first of the texts.
LEMMA ExpandedFinds ==
  ASSUME NEW s, s.query \in Queries, NEW held \in [Ids -> Rows]
  PROVE  Range(LexicalIn(s, <<s.query>>, held)) \subseteq Range(LexicalIn(s, Expanded[s.query], held))
<1> DEFINE q == s.query
           texts == Expanded[q]
           one == <<q>>
           R == RecalledBy(s, texts, held)
           Q == RecalledBy(s, one, held)
           F == EligibleNow(s, held)
           N == Len(texts)
<1>1. texts \in Seq(Texts) /\ N \in Nat /\ N > 0 /\ texts[1] = q /\ q \in Texts
  <2> HIDE DEF texts
  <2>1. texts \in Seq(Texts) /\ Len(texts) > 0 /\ texts # <<>> /\ Head(texts) = q
    BY FirstText DEF texts
  <2>2. Head(texts) = texts[1] /\ Len(texts) \in Nat /\ Head(texts) \in Texts
    BY <2>1
  <2> QED BY <2>1, <2>2
<1>2. one \in Seq(Texts) /\ Len(one) = 1 /\ one[1] = q
  BY <1>1
<1> HIDE DEF texts, one, F
<1>3. R[1] = RecalledIn(F, q)
  <2>1. \A i \in 1 .. N : R[i] = RecalledIn(F, texts[i])
    BY <1>1, RecallsAre DEF F
  <2> HIDE DEF R
  <2>2. 1 \in 1 .. N
    BY <1>1
  <2> QED BY <1>1, <2>1, <2>2
<1>4. Q[1] = RecalledIn(F, q)
  <2>1. \A i \in 1 .. Len(one) : Q[i] = RecalledIn(F, one[i])
    BY <1>2, RecallsAre DEF F
  <2> HIDE DEF Q
  <2> QED BY <1>2, <2>1
<1>5. \A h : h \in Range(LexicalIn(s, texts, held)) <=>
        \E f \in FoundBy(texts, R, held, N) : h = ScoreOf(f, q) /\ h.class # NoMatch.class
  BY <1>1, LexicalAre
<1>6. \A h : h \in Range(LexicalIn(s, one, held)) <=>
        \E f \in FoundBy(one, Q, held, 1) : h = ScoreOf(f, q) /\ h.class # NoMatch.class
  <2>1. \A h : h \in Range(LexicalIn(s, one, held)) <=>
          \E f \in FoundBy(one, Q, held, Len(one)) : h = ScoreOf(f, q) /\ h.class # NoMatch.class
    BY <1>2, LexicalAre
  <2> QED BY <1>2, <2>1
<1> HIDE DEF R, Q, N
<1>7. ASSUME NEW f \in FoundBy(one, Q, held, 1) PROVE f \in FoundBy(texts, R, held, N)
  <2>1. PICK m \in Ids, i \in 1 .. 1 : FirstBy(Q, m, i) /\ f = Find(m, one[i], held)
    BY FoundByIs
  <2>2. i = 1 /\ m \in Q[1]
    BY <2>1 DEF FirstBy
  <2>3. FirstBy(R, m, 1)
    BY <1>3, <1>4, <2>2 DEF FirstBy
  <2>4. 1 \in 1 .. N /\ f = Find(m, texts[1], held)
    BY <1>1, <1>2, <2>1, <2>2
  <2> QED BY <2>3, <2>4, FoundByIs
<1>8. \A h \in Range(LexicalIn(s, one, held)) : h \in Range(LexicalIn(s, texts, held))
  BY <1>5, <1>6, <1>7
<1> QED BY <1>8 DEF texts, one

\* Of two sorted lists of hits, one with hits of the other: it is the part
\* of the other that speaks of its memories.
LEMMA PartSame ==
  ASSUME NEW a \in Seq(Hits(Ids)), NEW b \in Seq(Hits(Ids)), Once(a), Once(b),
         Rises(a, KeyLess), Rises(b, KeyLess), Range(a) \subseteq Range(b)
  PROVE  a = At(b, {i \in DOMAIN b : b[i].m \in MemoriesOf(a)})
<1> DEFINE I == {i \in DOMAIN b : b[i].m \in MemoriesOf(a)}
           x == At(b, I)
<1>1. I \in SUBSET (1 .. Len(b)) /\ \A i : i \in I <=> i \in 1 .. Len(b) /\ b[i].m \in MemoriesOf(a)
  OBVIOUS
<1> HIDE DEF I
<1>2. x \in Seq(Hits(Ids)) /\ Rises(x, KeyLess)
  BY <1>1, PartOnce, PartRises
<1>3. \A h : h \in Range(x) <=> \E i \in I : h = b[i]
  BY <1>1, PartOnce
<1>4. \A h : h \in Range(b) <=> \E i \in 1 .. Len(b) : h = b[i]
  BY RangeIs
<1>5. \A h : h \in Range(a) <=> \E i \in 1 .. Len(a) : h = a[i]
  BY RangeIs
<1>6. \A m : m \in MemoriesOf(a) <=> \E i \in 1 .. Len(a) : a[i].m = m
  BY MemoriesAre
<1> HIDE DEF x
<1>7. ASSUME NEW h \in Range(a) PROVE h \in Range(x)
  <2>1. PICK i \in 1 .. Len(b) : h = b[i]
    BY <1>4
  <2>2. h.m \in MemoriesOf(a)
    BY <1>5, <1>6
  <2> QED BY <1>1, <1>3, <2>1, <2>2
<1>8. ASSUME NEW h \in Range(x) PROVE h \in Range(a)
  <2>1. PICK i \in I : h = b[i]
    BY <1>3
  <2>2. PICK j \in 1 .. Len(a) : a[j].m = h.m
    BY <1>1, <1>6, <2>1
  <2>3. a[j] \in Range(a)
    BY <1>5
  <2>4. PICK k \in 1 .. Len(b) : a[j] = b[k]
    BY <1>4, <2>3
  <2>5. i \in 1 .. Len(b) /\ b[i].m = b[k].m
    BY <1>1, <2>1, <2>2, <2>4
  <2>6. i = k
    BY <2>5 DEF Once
  <2> QED BY <2>1, <2>3, <2>4, <2>6
<1>9. Range(a) = Range(x)
  <2> HIDE DEF Range
  <2> QED BY <1>7, <1>8
<1>10. a = x
  BY <1>2, <1>9, KeyLessOnce, SameList
<1> QED BY <1>10 DEF x, I

\* The property of the run "search", for every corpus and every table of
\* names: the expansions of a query add memories to a keyword search and
\* neither drop one nor change the order of those that the query finds.
THEOREM Widens == Spec => []WidensOnly
<1>1. SearchInv /\ IdealInv => WidensOnly
  <2> DEFINE s == search
             plain == IdealRanking(search, <<search.query>>)
             ranked == search.ranked
             held == current
             few == LexicalIn(s, <<s.query>>, held)
             many == LexicalIn(s, Expanded[s.query], held)
  <2> SUFFICES ASSUME SearchInv, IdealInv, search.pc = "answered", disturbed = {}, search.mode = "LEXICAL"
               PROVE  plain = At(ranked, {i \in DOMAIN ranked : ranked[i].m \in MemoriesOf(plain)})
    BY DEF WidensOnly
  <2>1. s.query \in Queries /\ held \in [Ids -> Rows]
    BY Typed
  <2>2. \A list : ~RunsSemantic(s, list)
    BY DEF RunsSemantic
  <2>3. ranked = RankIn(merge, s, held, many)
    BY DEF IdealInv, Undisturbed
  <2>4. plain = RankIn(merge, s, held, few)
    BY IdealRankingIs
  <2>5. few \in Seq(Hits(Ids)) /\ Once(few)
    <3>1. s.query \in Texts
      BY <2>1, TextsAre
    <3> DEFINE one == <<s.query>>
    <3>2. one \in Seq(Texts)
      BY <3>1
    <3> HIDE DEF one, s, held
    <3>3. LexicalIn(s, one, held) \in Seq(Hits(Ids)) /\ Once(LexicalIn(s, one, held))
      BY <2>1, <3>2, LexicalAre
    <3> QED BY <3>3 DEF one
  <2>6. many \in Seq(Hits(Ids)) /\ Once(many)
    BY <2>1, FirstText, LexicalAre
  <2>7. Range(few) \subseteq Range(many)
    BY <2>1, ExpandedFinds
  <2> HIDE DEF few, many, s, held, plain, ranked
  <2>8. ranked = SortedByKey(many) /\ plain = SortedByKey(few)
    BY <2>2, <2>3, <2>4 DEF RankIn
  <2>9. /\ plain \in Seq(Hits(Ids)) /\ Once(plain) /\ Range(plain) = Range(few) /\ Rises(plain, KeyLess)
        /\ ranked \in Seq(Hits(Ids)) /\ Once(ranked) /\ Range(ranked) = Range(many) /\ Rises(ranked, KeyLess)
    BY <2>5, <2>6, <2>8, SortedRises
  <2> QED BY <2>7, <2>9, PartSame
<1> QED BY <1>1, IdealInvariant, PTL
=============================================================================
