------------------------------ MODULE Matching ------------------------------
(***************************************************************************)
(* How the daemon decides that a memory answers a query, and which of two  *)
(* answers comes first.                                                    *)
(*                                                                         *)
(* A text is a sequence of atoms: lower-case words, already reduced to     *)
(* their stems, and CJK characters.  Neighbouring words are separated by a *)
(* space, neighbouring characters are not, and a space lies between a word *)
(* and a character.  Fractions are counted in thousandths, and a word      *)
(* stands for the trigrams it contributes to the similarity of two texts.  *)
(***************************************************************************)
EXTENDS Integers, Sequences, SequencesExt

CONSTANTS
  CJK,        \* the atoms that are CJK characters
  Stop,       \* words that are no evidence on their own
  Numbered,   \* words that hold a digit beside letters, such as an issue key
  Synonyms,   \* from a word to the words it may have been recorded as
  Canonical,  \* from a term to the concept an unasked match counts it as
  Aliases,    \* the alias table: a sequence of a canonical text and its aliases
  Facts       \* what never changes of a memory; its id is its index

ASSUME MatchingAssumption ==
  /\ Stop \cap CJK = {} /\ Numbered \cap CJK = {}
  /\ Facts \in Seq([kind : STRING, project : STRING, subject : Seq(STRING), content : Seq(STRING),
                    importance : 0 .. 1000, updated : Nat, tainted : BOOLEAN])
  /\ \A a \in DOMAIN Synonyms : IsFiniteSet(Synonyms[a])
  /\ Aliases \in Seq([canonical : Seq(STRING) \ {<<>>}, aliases : Seq(Seq(STRING))])

Ids == DOMAIN Facts
IdentityKind(kind) == kind \in {"USER_PREFERENCE", "PERSONAL_GOAL", "PERSONAL_CONSTRAINT"}
Classes == 0 .. 5        \* none, semantic, fuzzy, content, subject, exact
Fuzzy == 2
Phrase == 3              \* a content phrase
OfSubject == 4
Exact == 5

-----------------------------------------------------------------------------
\* Sequences
\* The members of S in the strict total order Before.
Sorted(S, Before(_, _)) ==
  [i \in 1 .. Cardinality(S) |-> CHOOSE a \in S : Cardinality({b \in S : Before(b, a)}) = i - 1]

\* Numbers in their order; the elements at some places of a sequence, and
\* those elements of it, in theirs.
InOrder(S) == Sorted(S, <)
At(seq, places) == LET o == InOrder(places) IN [n \in DOMAIN o |-> seq[o[n]]]
Those(seq, wanted) == At(seq, {i \in DOMAIN seq : seq[i] \in wanted})

-----------------------------------------------------------------------------
\* Texts
Within(text, phrase) ==
  phrase # <<>> /\ \E i \in 0 .. Len(text) - Len(phrase) :
                     SubSeq(text, i + 1, i + Len(phrase)) = phrase

HasCJK(text) == Range(text) \cap CJK # {}
AllCJK(text) == text # <<>> /\ Range(text) \subseteq CJK
Chars(text) == Those(text, CJK)

CJKRuns(text) ==
  LET Run(i, j) == /\ i <= j /\ \A k \in i .. j : text[k] \in CJK
                   /\ i = 1 \/ text[i - 1] \notin CJK
                   /\ j = Len(text) \/ text[j + 1] \notin CJK
  IN  {SubSeq(text, p[1], p[2]) : p \in {p \in (DOMAIN text) \X (DOMAIN text) : Run(p[1], p[2])}}

Tokens(text) ==
  {<<a>> : a \in Range(text) \ CJK} \cup {r \in CJKRuns(text) : Len(r) >= 2}

\* The tokens that count as evidence.  A set with a numbered token is precise
\* enough to be widened by synonyms.
Terms(tokens) ==
  LET kept == tokens \ {<<a>> : a \in Stop}
      more == IF \E a \in Numbered : <<a>> \in tokens
                THEN {<<b>> : b \in UNION {Synonyms[a] : a \in {a \in DOMAIN Synonyms : <<a>> \in kept}}}
                ELSE {}
  IN  IF kept = {} THEN tokens ELSE kept \cup more

\* Shorter and shorter beginnings of the characters of a query.
Prefixes2(text) ==
  LET all == Chars(text)
  IN  IF Len(all) < 3 THEN <<>>
      ELSE [k \in 1 .. Len(all) - 2 |-> SubSeq(all, 1, Len(all) - k)]

Permille(part, whole) == IF whole = 0 THEN 0 ELSE (1000 * part) \div whole

-----------------------------------------------------------------------------
\* Matches
NoMatch == [class |-> 0, strength |-> 0]

\* How much of the query is found in a field; its share of the field breaks
\* ties, but never for a single run of characters.
MatchStrength(query, field) ==
  LET terms == Terms(Tokens(query))
      ratio == Permille(Cardinality({t \in terms : Within(field, t)}), Cardinality(terms))
      share == IF Cardinality(terms) = 1 /\ HasCJK(query) THEN 0
               ELSE Min({100, Permille(Len(query), Len(field))})
  IN  IF ratio = 0 THEN 0 ELSE (9 * ratio + share) \div 10

Similarity(query, m) ==
  LET atoms == Range(Facts[m].subject) \cup Range(Facts[m].content)
  IN  Permille(Cardinality(Range(query) \cap atoms), Cardinality(Range(query) \cup atoms))

Overlap(query, m) ==
  LET terms == Terms(Tokens(query))
      of == Terms(Tokens(Facts[m].subject) \cup Tokens(Facts[m].content))
      inside(r) == Len(r) >= 2 /\ (Within(Facts[m].subject, r) \/ Within(Facts[m].content, r))
  IN  IF terms \cap of # {} THEN Permille(Cardinality(terms \cap of), Cardinality(terms))
      ELSE IF \E r \in CJKRuns(query) : inside(r) THEN 600 ELSE 0

\* Every space-separated field of a mixed query occurs in the subject.
MixedSubject(subject, query) ==
  LET fields == {<<a>> : a \in Range(query) \ CJK} \cup CJKRuns(query)
  IN  Cardinality(fields) >= 2 /\ \A f \in fields : Within(subject, f)

ClassifyMatch(m, query) ==
  LET s == Facts[m].subject
      c == Facts[m].content
      As(class, strength) == [class |-> class, strength |-> strength]
  IN  CASE query = <<>> -> NoMatch
        [] s = query -> As(Exact, 1000)
        [] Within(s, query) -> As(OfSubject, MatchStrength(query, s))
        [] Within(c, query) -> As(Phrase, MatchStrength(query, c))
        [] HasCJK(query) /\ MixedSubject(s, query) -> As(OfSubject, MatchStrength(query, s))
        [] Similarity(query, m) >= 300 -> As(Fuzzy, Similarity(query, m))
        [] Overlap(query, m) > 0 -> As(Fuzzy, 400 + (2 * Overlap(query, m)) \div 5)
        [] OTHER -> NoMatch

Stronger(a, b) == a.class > b.class \/ (a.class = b.class /\ a.strength > b.strength)

-----------------------------------------------------------------------------
\* Ranks
Tau(importance) ==
  CASE importance >= 900 -> 90 [] importance >= 700 -> 60 [] importance >= 500 -> 45
    [] importance >= 300 -> 30 [] OTHER -> 15

\* The exponential decay by its first two terms: full at no absence, falling
\* with it, slower for what is important, and never for identity.
ActivationFor(m, activation, since) ==
  IF IdentityKind(Facts[m].kind) \/ since <= 0 THEN activation
  ELSE LET tau == Tau(Facts[m].importance)
       IN  IF since >= tau THEN 0 ELSE (activation * (tau - since)) \div tau

ConfidenceFactor(row) ==
  CASE row.disputed -> 250 [] row.confidence >= 900 -> 1000 [] row.confidence >= 700 -> 850
    [] row.confidence >= 500 -> 600 [] row.confidence >= 300 -> 400 [] OTHER -> 250

Validity(row) ==
  CASE row.lifecycle = "ACTIVE" /\ ~row.disputed -> 2
    [] row.lifecycle = "ACTIVE" \/ row.lifecycle = "SUPERSEDED" -> 1
    [] OTHER -> 0

RankKey(m, row, match, since) ==
  << match.class,
     IF ~IdentityKind(Facts[m].kind) THEN 0 ELSE IF Facts[m].project = "" THEN 2 ELSE 1,
     match.strength, ConfidenceFactor(row), Validity(row),
     ActivationFor(m, row.activation, since), Facts[m].importance, Facts[m].updated, -m >>

LessKey(a, b) ==
  \E i \in DOMAIN a : a[i] > b[i] /\ \A j \in 1 .. i - 1 : a[j] = b[j]

\* Identity that the query is about is kept beyond the limit, up to its own.
WithinQuota(ranked, limit, identityLimit) ==
  LET Bypasses(h) == IdentityKind(Facts[h.m].kind) /\ h.class >= OfSubject
      Before(i) == Cardinality({j \in 1 .. i - 1 : Bypasses(ranked[j]) = Bypasses(ranked[i])})
      Kept(i) == Before(i) < IF Bypasses(ranked[i]) THEN identityLimit ELSE limit
  IN  At(ranked, {i \in DOMAIN ranked : Kept(i)})

\* Good enough to be shown unasked: a phrase, or most of the distinct terms,
\* a few of which are one concept.
Concepts(terms) == {IF t \in DOMAIN Canonical THEN Canonical[t] ELSE t : t \in terms}
StrongAutomaticMatch(h, query) ==
  LET q == Concepts(Terms(Tokens(query)))
      t == Concepts(Terms(Tokens(Facts[h.m].subject \o Facts[h.m].content)))
  IN  \/ h.class >= Phrase
      \/ h.class = Fuzzy /\ Permille(Cardinality(q \cap t), Cardinality(q)) >= 700

\* Keys of different memories differ in the id.
SortedByKey(seq) ==
  LET Before(i, j) == LessKey(seq[i].key, seq[j].key) \/ (seq[i].key = seq[j].key /\ i < j)
      o == Sorted(DOMAIN seq, Before)
  IN  [n \in DOMAIN o |-> seq[o[n]]]

-----------------------------------------------------------------------------
\* Aliases
AliasMatches(query, entry) ==
  \E i \in DOMAIN entry.aliases :
    LET alias == entry.aliases[i] IN
    IF HasCJK(alias) THEN Within(query, alias)
    ELSE IF Len(alias) = 1 THEN query = alias
    ELSE \/ Within(query, alias)
         \/ Len(alias) >= 3 /\ Range(alias) \subseteq Range(query)

\* Where the CJK names of the table occur, the longest first; an occurrence
\* that overlaps one already taken is dropped.
Named(query) ==
  LET name(o) == Aliases[o[1]].canonical
      occurrences == {o \in (DOMAIN Aliases) \X (0 .. Len(query)) :
                        /\ HasCJK(name(o))
                        /\ o[2] + Len(name(o)) <= Len(query)
                        /\ SubSeq(query, o[2] + 1, o[2] + Len(name(o))) = name(o)}
      Before(o, p) == \/ Len(name(o)) > Len(name(p))
                      \/ Len(name(o)) = Len(name(p)) /\ (o[1] < p[1] \/ (o[1] = p[1] /\ o[2] < p[2]))
      Overlap2(o, p) == o[2] < p[2] + Len(name(p)) /\ p[2] < o[2] + Len(name(o))
      Take(taken, o) == IF \E p \in taken : Overlap2(o, p) THEN taken ELSE taken \cup {o}
  IN  {o[1] : o \in FoldLeft(Take, {}, Sorted(occurrences, Before))}

\* The query and what it may stand for; the query comes first, and no text
\* twice.
Expand(query) ==
  LET Back(e) == At(e.aliases, {i \in DOMAIN e.aliases :
                                 Len(e.aliases[i]) >= IF AllCJK(e.aliases[i]) THEN 6 ELSE 2})
      Of(i) == LET e == Aliases[i] IN
        CASE AliasMatches(query, e) -> <<e.canonical>>
          [] ~AliasMatches(query, e) /\ i \in Named(query) ->
               <<e.canonical>> \o (IF query = e.canonical THEN Back(e) ELSE <<>>)
          [] OTHER -> <<>>
      places == UNION {{i} \X DOMAIN Of(i) : i \in DOMAIN Aliases}
      o == Sorted(places, LAMBDA p, q : p[1] < q[1] \/ (p[1] = q[1] /\ p[2] < q[2]))
      all == <<query>> \o [n \in DOMAIN o |-> Of(o[n][1])[o[n][2]]]
  IN  At(all, {n \in DOMAIN all : \A k \in 1 .. n - 1 : all[k] # all[n]})
=============================================================================
