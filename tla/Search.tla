------------------------------- MODULE Search -------------------------------
(***************************************************************************)
(* Server.searchMemories over the SQLite index.  A search is a sequence of *)
(* separate reads: for the query and each of its expansions the candidates *)
(* of an FTS table and then their rows, perhaps a scan of all rows, the    *)
(* references of the vector hits and then the row of each, and in the end  *)
(* the access records.  The memories are governed, judged and recalled     *)
(* between any two of them, and every read may fail.                       *)
(***************************************************************************)
EXTENDS Matching

CONSTANTS
  Queries, Projects, Kinds, Limits, SearchModes,
  Merges,        \* how semantic hits are merged: the default and the experiments
  Cosine,        \* score of a memory's vector for a query, 0 without a vector
  CandidateCap,  \* LIMIT of the candidate queries
  IdentityMax,   \* IdentityHitsMax
  Faults,        \* which reads and writes may fail
  Changing,      \* bound: the memories whose rows change
  MaxChanges     \* bound on the changes of rows in a behaviour

ASSUME SearchAssumption ==
  /\ Merges \subseteq {"union", "top_one", "vector_first", "rrf"}
  /\ SearchModes \subseteq {"LEXICAL", "SEMANTIC_FALLBACK", "SEMANTIC"}
  /\ Faults \subseteq {"bm25", "fts", "hydrate", "scan", "vector", "upsert"}
  /\ Queries \subseteq Seq(STRING) \ {<<>>} /\ Limits \subseteq Nat
  /\ Cosine \in [Queries -> [Ids -> 0 .. 1000]]
  /\ Changing \subseteq Ids /\ CandidateCap \in Nat \ {0} /\ IdentityMax \in Nat /\ MaxChanges \in Nat

VARIABLES
  rows,      \* Store.memories
  current,   \* memories_current; the FTS tables hold what is eligible in it
  merge,     \* the merge this server is configured with
  search,    \* the search in progress
  changes,   \* history: how much of MaxChanges is used
  stale,     \* history: memories whose last upsert failed
  behind,    \* history: those that were stale at some moment of the search
  ever,      \* history: the memories that were eligible at some moment of the search
  always,    \* history: and at every moment of it
  disturbed  \* history: what got in the way of the search

vars == <<rows, current, merge, search, changes, stale, behind, ever, always, disturbed>>
history == <<changes, stale>>

-----------------------------------------------------------------------------
NewRow == [lifecycle |-> "ACTIVE", disputed |-> FALSE, confidence |-> 950,
           activation |-> 500, used |-> 1]
Seq2 == 16                \* ordinal of the session that searches
Idle == [pc |-> "idle"]

\* What stands for the row of a vector hit that was not loaded, or was dropped.
Unread == [NewRow EXCEPT !.lifecycle = "UNREAD"]
NothingRead == [m \in Ids |-> Unread]

SessionsSince(row) == Seq2 - row.used

PolicyAllowed(m) == ~Facts[m].tainted
InScope(m, project) == Facts[m].project = "" \/ (project # "" /\ Facts[m].project = project)

\* Mutant of Eligible: the FTS filters are believed.
EligibleIfIndexed(project, m, row) == PolicyAllowed(m) /\ InScope(m, project)

Eligible(project, m, row) ==
  PolicyAllowed(m) /\ InScope(m, project) /\ row.lifecycle = "ACTIVE"

KindRequested(m, kinds) == kinds = {} \/ Facts[m].kind \in kinds

\* The SQL filters of every candidate query.
Filtered(r) ==
  {m \in Ids : Eligible(r.project, m, current[m]) /\ KindRequested(m, r.kinds)}

Upto(seq, n) == IF Len(seq) <= n THEN seq ELSE SubSeq(seq, 1, n)

\* Everything a query is ever asked as, and what each memory makes of it.
Texts == UNION {Range(Expand(q)) \cup Range(Prefixes2(q)) : q \in Queries}
Matches == [m \in Ids |-> [t \in Texts |-> ClassifyMatch(m, t)]]
SubjectTerms == [m \in Ids |-> Terms(Tokens(Facts[m].subject))]
ContentTerms == [m \in Ids |-> Terms(Tokens(Facts[m].content))]
Expanded == [q \in Queries |-> Expand(q)]

-----------------------------------------------------------------------------
(***************************************************************************)
(* The candidate stage.  The BM25 table finds any term, subjects weigh     *)
(* four times; the trigram table finds the whole query, a LIKE its         *)
(* beginnings.  Only the first has an ORDER BY.                            *)
(***************************************************************************)
TermsOf(text) == Terms(Tokens(text))
Score(m, terms) ==
  4 * Cardinality(terms \cap SubjectTerms[m]) + Cardinality(terms \cap ContentTerms[m])
Share(score) == Permille(score, 1 + score)
Relevance(m, terms) == Share(Score(m, terms))

BM25(r, terms, must) ==
  LET relevance == [m \in Ids |-> Relevance(m, terms)]
      hits == {m \in Filtered(r) : relevance[m] > 0 /\ (must = {} \/ Score(m, must) > 0)}
      Before(m, n) == relevance[m] > relevance[n] \/ (relevance[m] = relevance[n] /\ m < n)
      ids == Sorted(hits, Before)
  IN  [i \in DOMAIN ids |-> [m |-> ids[i], relevance |-> relevance[ids[i]]]]

\* Numbered terms are required, unless nothing holds them.
Anchors(terms) == {t \in terms : \E a \in Numbered : t = <<a>>}
OrElse(seq, other) == IF seq = <<>> THEN other ELSE seq
BM25Of(r, terms) == Upto(OrElse(BM25(r, terms, Anchors(terms)), BM25(r, terms, {})), CandidateCap)
BM25Candidates(r, query) == BM25Of(r, TermsOf(query))

Holding(r, text) ==
  {m \in Filtered(r) : Within(Facts[m].subject, text) \/ Within(Facts[m].content, text)}

LikeCandidates(r, query) ==
  LET tried == <<query>> \o Prefixes2(query)
      i == SelectInSeq(tried, LAMBDA t : Holding(r, t) # {})
  IN  IF i = 0 THEN {} ELSE Holding(r, tried[i])

Found(list, why) == [failed |-> FALSE, list |-> list, why |-> why]
QueryFailed == [failed |-> TRUE, list |-> <<>>, why |-> {"error"}]

\* Without an ORDER BY any rows may be the first ones, in any order.
Unordered(S) ==
  LET n == Min({Cardinality(S), CandidateCap})
  IN  {[i \in 1 .. n |-> [m |-> s[i], relevance |-> 0]] : s \in UNION {SetToSeqs(k) : k \in kSubset(n, S)}}

\* What SearchRankedCandidates may return.  A failing BM25 query falls back
\* to the trigram table, which may fail as well.
RankedCandidates(r, query) ==
  LET legacy(why) == {Found(list, why) : list \in Unordered(LikeCandidates(r, query))}
                       \cup (IF "fts" \in Faults THEN {QueryFailed} ELSE {})
  IN  IF HasCJK(query) THEN legacy({})
      ELSE {Found(BM25Candidates(r, query), {})}
             \cup (IF "bm25" \in Faults THEN legacy({"bm25"}) ELSE {})

-----------------------------------------------------------------------------
(***************************************************************************)
(* Scoring.  The query of the user comes first, the expansion that found a *)
(* candidate only where that says nothing.                                 *)
(***************************************************************************)
Strongest(matches) == CHOOSE p \in matches : \A o \in matches : ~Stronger(o, p)

\* Of the matches of one memory with every text.
Judged(match, matches, c, query) ==
  CASE match.class = Fuzzy /\ c.relevance > 0 -> [match EXCEPT !.strength = c.relevance]
    [] match = NoMatch /\ AllCJK(query) /\ Len(query) > 2 ->
         Strongest({matches[t] : t \in Range(Prefixes2(query))})
    [] OTHER -> match
MatchAmong(matches, c, query) ==
  Judged(IF matches[query] = NoMatch THEN matches[c.query] ELSE matches[query], matches, c, query)
MatchFor(c, query) == MatchAmong(Matches[c.m], c, query)

Ranked(m, row, match) ==
  [m |-> m, class |-> match.class, key |-> RankKey(m, row, match, SessionsSince(row))]

Scored(found, query) ==
  LET all == [i \in DOMAIN found |-> Ranked(found[i].m, found[i].row, MatchFor(found[i], query))]
  IN  At(all, {i \in DOMAIN all : all[i].class # NoMatch.class})

MemoriesOf(seq) == {seq[i].m : i \in DOMAIN seq}
Without(seq, S) == At(seq, {i \in DOMAIN seq : seq[i].m \notin S})

\* Reciprocal ranks with weights 1 and 2; the better key represents a memory.
Fused(lexical, semantic) ==
  LET sorted == SortedByKey(lexical)
      rank(seq, m) == SelectInSeq(seq, LAMBDA h : h.m = m)
      part(seq, m, w) == IF rank(seq, m) = 0 THEN 0 ELSE (w * 1000000) \div (60 + rank(seq, m))
      best(m) == CASE rank(sorted, m) = 0 -> semantic[rank(semantic, m)]
                   [] rank(semantic, m) = 0 -> sorted[rank(sorted, m)]
                   [] OTHER -> SortedByKey(<<sorted[rank(sorted, m)], semantic[rank(semantic, m)]>>)[1]
      score(m) == part(sorted, m, 1) + part(semantic, m, 2)
      Before(m, n) == score(m) > score(n) \/ (score(m) = score(n) /\ LessKey(best(m).key, best(n).key))
      ids == Sorted(MemoriesOf(sorted) \cup MemoriesOf(semantic), Before)
  IN  [i \in DOMAIN ids |-> best(ids[i])]

Merged(how, lexical, semantic) ==
  LET first == IF semantic = <<>> THEN <<>> ELSE <<semantic[1]>>
      then(taken) == Without(SortedByKey(lexical), MemoriesOf(taken))
  IN  CASE how = "union" -> SortedByKey(lexical \o Without(semantic, MemoriesOf(lexical)))
        [] how = "top_one" -> first \o then(first)
        [] how = "vector_first" -> semantic \o then(semantic)
        [] how = "rrf" -> Fused(lexical, semantic)

\* What the vector store finds near the query, the best first.
Nearest(r) ==
  LET near == {m \in Ids : Cosine[r.query][m] >= 680}
      Before(m, n) == Cosine[r.query][m] > Cosine[r.query][n] \/ (Cosine[r.query][m] = Cosine[r.query][n] /\ m < n)
  IN  Upto(Sorted(near, Before), 3 * r.limit)

EligibleOf(r, top, held) == At(top, {i \in DOMAIN top : Eligible(r.project, top[i], held[top[i]])})

\* The vector hits: those whose row was eligible when it was loaded.
VectorHits(r, held) ==
  LET kept == EligibleOf(r, Nearest(r), held)
      match(m) == [class |-> IF Cosine[r.query][m] >= 780 THEN Phrase ELSE 1, strength |-> Cosine[r.query][m]]
  IN  [i \in DOMAIN kept |-> Ranked(kept[i], held[kept[i]], match(kept[i]))]

\* Keyword hits decide whether the vectors are asked.
RunsSemantic(r, lexical) ==
  \/ r.mode = "SEMANTIC"
  \/ r.mode = "SEMANTIC_FALLBACK" /\ \A i \in DOMAIN lexical : lexical[i].class < Phrase

Quota(r, ranked) == WithinQuota(ranked, r.limit, IdentityMax)

-----------------------------------------------------------------------------
(***************************************************************************)
(* The reference: the answer of a search that is one step.  Like the code  *)
(* it ranks what the texts recall, at most CandidateCap rows each, and the *)
(* vector hits; an eligible row that none of these brings up is not in it. *)
(***************************************************************************)
Recalled(r, text) ==
  IF HasCJK(text) THEN LikeCandidates(r, text)
  ELSE {c.m : c \in Range(BM25Candidates(r, text))}

\* Whatever some text recalls, with the first text that does.
FirstRecalled(texts, recalled) ==
  LET by(m) == texts[SelectInSeq(recalled, LAMBDA S : m \in S)]
      relevance(m, text) == IF HasCJK(text) THEN 0 ELSE Relevance(m, TermsOf(text))
      One(m) == [m |-> m, query |-> by(m), relevance |-> relevance(m, by(m)), row |-> current[m]]
      pool == InOrder(UNION Range(recalled))
  IN  [i \in DOMAIN pool |-> One(pool[i])]

RankedFor(r, lexical) ==
  IF RunsSemantic(r, lexical) THEN Merged(merge, lexical, VectorHits(r, current))
  ELSE SortedByKey(lexical)

IdealRanking(r, texts) ==
  RankedFor(r, Scored(FirstRecalled(texts, [i \in DOMAIN texts |-> Recalled(r, texts[i])]), r.query))

Ideal(r) == Quota(r, IdealRanking(r, Expanded[r.query]))

-----------------------------------------------------------------------------
(***************************************************************************)
(* The steps of a search.                                                  *)
(***************************************************************************)
EligibleNow(r, all) == {m \in Ids : Eligible(r.project, m, all[m]) /\ KindRequested(m, r.kinds)}
\* What the session of a search is entitled to.
Entitled(r, all) ==
  {m \in Ids : /\ all[m].lifecycle = "ACTIVE" /\ ~Facts[m].tainted
               /\ Facts[m].project \in {"", r.project}}

Init ==
  /\ rows \in [Ids -> {NewRow}] /\ current = rows
  /\ merge \in Merges
  /\ search = Idle
  /\ changes = 0 /\ stale = {} /\ behind = {} /\ ever = {} /\ always = {} /\ disturbed = {}

Disturb(why) == disturbed' = disturbed \cup why

Begin ==
  /\ search.pc = "idle"
  /\ \E query \in Queries, project \in Projects, kinds \in Kinds, limit \in Limits, mode \in SearchModes :
       search' = [pc |-> "query", query |-> query, project |-> project, kinds |-> kinds,
                  limit |-> limit, mode |-> mode, todo |-> Expanded[query], batch |-> <<>>,
                  found |-> <<>>, ok |-> FALSE, near |-> <<>>, read |-> NothingRead, ranked |-> <<>>]
  /\ ever' = Entitled(search', rows) /\ always' = EligibleNow(search', rows)
  /\ behind' = stale /\ disturbed' = {}
  /\ UNCHANGED <<rows, current, merge, history>>

Step == UNCHANGED <<rows, current, merge, history, behind, ever, always>>

QueryIndex ==
  /\ search.pc = "query" /\ search.todo # <<>>
  /\ \E c \in RankedCandidates(search, Head(search.todo)) :
       /\ search' = IF c.failed THEN [search EXCEPT !.todo = Tail(@)]
                     ELSE [search EXCEPT !.pc = "hydrate", !.batch = c.list, !.ok = TRUE]
       /\ Disturb(c.why \cup (IF Len(c.list) = CandidateCap THEN {"capped"} ELSE {}))
  /\ Step

\* Mutant of Joined: the last query that finds a memory wins.
JoinedLatest(found, hydrated) == Without(found, MemoriesOf(hydrated)) \o hydrated

\* The first query that finds a memory stands for it.
Joined(found, hydrated) == found \o Without(hydrated, MemoriesOf(found))

\* The rows of the candidates as they are now.  A failure skips the batch,
\* and does not count as trouble with the index.
Hydrate ==
  LET Now(m) == Eligible(search.project, m, current[m]) /\ KindRequested(m, search.kinds)
      new == At(search.batch, {i \in DOMAIN search.batch : Now(search.batch[i].m)})
      hydrated == [i \in DOMAIN new |-> [m |-> new[i].m, query |-> Head(search.todo),
                                         relevance |-> new[i].relevance, row |-> current[new[i].m]]]
      Next2(found) == search' = [search EXCEPT !.pc = "query", !.todo = Tail(@), !.batch = <<>>, !.found = found]
  IN  /\ search.pc = "hydrate"
      /\ \/ Next2(Joined(search.found, hydrated)) /\ Disturb({})
         \/ "hydrate" \in Faults /\ Next2(search.found) /\ Disturb({"hydrate"})
      /\ Step

\* All rows of the index, the newest first.
EligibleRows(r) ==
  LET Before(m, n) == Facts[m].updated > Facts[n].updated \/ (Facts[m].updated = Facts[n].updated /\ m < n)
      ids == Sorted(Filtered(r), Before)
  IN  [i \in DOMAIN ids |-> [m |-> ids[i], query |-> r.query, relevance |-> 0, row |-> current[ids[i]]]]

\* Mutant of NeedsScan: an index that failed is taken for an empty one.
NeverScans == FALSE

NeedsScan == search.found = <<>> /\ ~search.ok

Lexical ==
  LET ranked == Scored(IF NeedsScan THEN EligibleRows(search) ELSE search.found, search.query)
  IN  /\ search.pc = "query" /\ search.todo = <<>>
      /\ \/ /\ search' = [search EXCEPT !.ranked = SortedByKey(ranked),
                           !.pc = IF RunsSemantic(search, ranked) THEN "vectors" ELSE "reply"]
            /\ Disturb({})
         \/ /\ NeedsScan /\ "scan" \in Faults
            /\ search' = [search EXCEPT !.pc = "failed"] /\ Disturb({"scan"})
      /\ Step

\* VectorStore.Search, and which of its candidates the join of vector_refs
\* with memories_current still has as eligible.  What is embedded of an id
\* never changes here; generations and stale references are VectorSync's.
SemanticCandidates ==
  /\ search.pc = "vectors"
  /\ \/ /\ search' = [search EXCEPT !.pc = "load", !.read = NothingRead,
                       !.near = EligibleOf(search, Nearest(search), current)]
        /\ Disturb({})
     \/ /\ "vector" \in Faults
        /\ search' = [search EXCEPT !.pc = "reply"] /\ Disturb({"vector"})
  /\ Step

\* A row that is not eligible by now is dropped.
RowRead(r, m) ==
  IF Eligible(r.project, m, current[m]) THEN [r.read EXCEPT ![m] = current[m]] ELSE r.read

\* LoadMemoryRow, one candidate at a time; one that fails is left out.
LoadMemoryRow ==
  /\ search.pc = "load" /\ search.near # <<>>
  /\ \/ /\ search' = [search EXCEPT !.near = Tail(@), !.read = RowRead(search, Head(search.near))]
        /\ Disturb({})
     \/ /\ "vector" \in Faults
        /\ search' = [search EXCEPT !.near = Tail(@)] /\ Disturb({"vector"})
  /\ Step

MergeSemantic ==
  /\ search.pc = "load" /\ search.near = <<>>
  /\ search' = [search EXCEPT !.pc = "reply", !.read = NothingRead,
                  !.ranked = Merged(merge, @, VectorHits(search, search.read))]
  /\ Disturb({}) /\ Step

\* Mutant of Touched: being found counts as being used.
TouchedByHit(row, kind) == [row EXCEPT !.activation = 1000, !.used = Seq2]

\* RecordAccess: only a use warms a memory.
Touched(row, kind) ==
  IF kind = "RECALL" THEN [row EXCEPT !.activation = 1000, !.used = Seq2] ELSE row

Reply ==
  LET hits == MemoriesOf(Quota(search, search.ranked))
      after(m) == IF m \in hits THEN Touched(rows[m], "SEARCH_HIT") ELSE rows[m]
  IN  /\ search.pc = "reply"
      /\ search' = [search EXCEPT !.pc = "answered"]
      /\ rows' = [m \in Ids |-> after(m)]
      /\ current' = [m \in Ids |-> IF after(m) = rows[m] THEN current[m] ELSE after(m)]
      /\ UNCHANGED <<merge, history, behind, ever, always, disturbed>>

Finish ==
  /\ search.pc \in {"answered", "failed"}
  /\ search' = Idle /\ behind' = {} /\ ever' = {} /\ always' = {} /\ disturbed' = {}
  /\ UNCHANGED <<rows, current, merge, history>>

-----------------------------------------------------------------------------
(***************************************************************************)
(* What else happens to the rows.  Each call holds Store.mu and upserts    *)
(* the whole row in one SQLite transaction, which may fail; the copy in    *)
(* memory keeps the change.                                                *)
(***************************************************************************)
Write(m, row) ==
  /\ changes < MaxChanges /\ changes' = changes + 1
  /\ rows' = [rows EXCEPT ![m] = row]
  /\ \/ current' = [current EXCEPT ![m] = row] /\ stale' = stale \ {m}
     \/ "upsert" \in Faults /\ current' = current /\ stale' = stale \cup {m}
  /\ IF search.pc = "idle" THEN UNCHANGED <<behind, ever, always, disturbed>>
     ELSE /\ behind' = behind \cup stale'
          /\ ever' = ever \cup Entitled(search, rows')
          /\ always' = always \cap EligibleNow(search, rows')
          /\ Disturb({"change"})
  /\ UNCHANGED <<merge, search>>

\* A governed mutation replaces or forgets a memory.
Retire ==
  \E m \in Changing, to \in {"SUPERSEDED", "FORGOTTEN"} :
    rows[m].lifecycle = "ACTIVE" /\ Write(m, [rows[m] EXCEPT !.lifecycle = to])

Mislead ==
  \E m \in Changing : /\ rows[m].lifecycle = "ACTIVE" /\ ~rows[m].disputed
                      /\ Write(m, [rows[m] EXCEPT !.confidence = @ - 200, !.disputed = TRUE])

\* A recall by id serves every lifecycle.
Recall == \E m \in Changing : rows[m].used # Seq2 /\ Write(m, Touched(rows[m], "RECALL"))

\* The fingerprint of a stale index differs, and the index is rebuilt.
Restart ==
  /\ stale # {}
  /\ current' = rows /\ stale' = {}
  /\ search' = Idle /\ behind' = {} /\ ever' = {} /\ always' = {} /\ disturbed' = {}
  /\ UNCHANGED <<rows, merge, changes>>

SearchStep == QueryIndex \/ Hydrate \/ Lexical \/ SemanticCandidates \/ LoadMemoryRow \/ MergeSemantic \/ Reply \/ Finish
Next == Begin \/ SearchStep \/ Retire \/ Mislead \/ Recall \/ Restart

Spec == Init /\ [][Next]_vars

-----------------------------------------------------------------------------
(***************************************************************************)
(* Properties.                                                             *)
(***************************************************************************)
Answer == Quota(search, search.ranked)
Served == IF search.pc = "answered" THEN MemoriesOf(Answer) ELSE {}

\* The types, and where the steps of searchMemories can be.
TypeOK ==
  /\ \A all \in {rows, current} : \A m \in Ids :
       /\ all[m].lifecycle \in {"ACTIVE", "SUPERSEDED", "FORGOTTEN"} /\ all[m].disputed \in BOOLEAN
       /\ all[m].confidence \in 0 .. 1000 /\ all[m].activation \in 0 .. 1000 /\ all[m].used \in 1 .. Seq2
  /\ search.pc \in {"idle", "query", "hydrate", "vectors", "load", "reply", "answered", "failed"}
  /\ search.pc # "idle" =>
       /\ Len(search.found) = Cardinality(MemoriesOf(search.found))
       /\ Len(search.ranked) = Cardinality(MemoriesOf(search.ranked))
  /\ stale \cup behind \subseteq Ids /\ always \subseteq ever

\* A search serves a memory only if the session was entitled to it at some
\* moment of the search, whatever changed between the candidate query, the
\* hydration and the vector hits.  A memory whose row in the index was out of
\* date for a moment of it is excused (IndexNeverGrants).
OnlyEligibleServed == Served \subseteq ever \cup behind

\* The same without the excuse.  queries.go:355 says "Derived indexes may
\* narrow candidates, but they can never grant eligibility."
IndexNeverGrants == Served \subseteq ever

\* A search that nothing gets in the way of answers what the one-step
\* reference says, and still says when the accesses are recorded: neither
\* the order in which candidates arrived nor the answer itself has moved a
\* memory.
UndisturbedIsIdeal ==
  search.pc = "answered" /\ disturbed = {} => Answer = Ideal(search)

\* The exact hits of an answer that share their quota with m: identity
\* memories have IdentityMax places, all others have the limit.
Rivals(m) == {i \in DOMAIN Answer : /\ Answer[i].class = Exact
                                    /\ IdentityKind(Facts[Answer[i].m].kind) = IdentityKind(Facts[m].kind)}
QuotaOf(m) == IF IdentityKind(Facts[m].kind) THEN IdentityMax ELSE search.limit

\* A memory whose subject is the query, eligible throughout the search, is
\* served unless exact hits like it fill its quota: with the BM25 table gone,
\* with both tables gone, and with anything changing around it.  A row that
\* is out of date in the index is no excuse: it is an eligible one too.  Not
\* so when a hydration failed or the candidates were cut, for any text of the
\* query, or when only some of the texts could be asked.
ExactIsServed ==
  search.pc = "answered" /\ merge = "union" /\ disturbed \cap {"hydrate", "capped"} = {}
    /\ ("error" \in disturbed => ~search.ok)
    => \A m \in always :
         Matches[m][search.query].class # Exact \/ m \in Served \/ Cardinality(Rivals(m)) >= QuotaOf(m)

\* Expansions widen the ranking of a keyword search: what the query finds
\* without them is ranked with them too, and in the same order.  Which of the
\* ranked hits are within the limit is another matter: an expansion may put
\* its own in front.
WidensOnly ==
  search.pc = "answered" /\ disturbed = {} /\ search.mode = "LEXICAL" =>
    LET plain == IdealRanking(search, <<search.query>>)
    IN  plain = At(search.ranked, {i \in DOMAIN search.ranked : search.ranked[i].m \in MemoriesOf(plain)})
=============================================================================
