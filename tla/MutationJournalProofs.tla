---------------------- MODULE MutationJournalProofs -----------------------
(***************************************************************************)
(* Proofs about the mutation lane for every set of memories, requests and  *)
(* rejecters, every bound and every set of faults: type correctness; and,  *)
(* in the configurations CommitsStand describes, the safety properties of  *)
(* MutationJournal from one inductive invariant, and that the lane         *)
(* implements GovernedMemory; and, whatever fails, that a journal that     *)
(* opens tells one story, from another invariant that asks nothing of the  *)
(* files.                                                                  *)
(***************************************************************************)
EXTENDS MutationJournal, WellFoundedInduction, TLAPS

-----------------------------------------------------------------------------
(***************************************************************************)
(* Journals of mutation events: what a replay produces, what one more      *)
(* event adds, and when a journal is well-formed.                          *)
(***************************************************************************)

\* Every set of naturals has a least element, from the well-founded order of the
\* naturals: the library states induction over a predicate, which needs an operator
\* parameter, and the least element without one.
LEMMA LeastElement ==
  ASSUME NEW T \in SUBSET Nat, T # {}
  PROVE  \E x \in T : \A y \in T : x <= y
<1> DEFINE R == {ss \in Nat \X Nat : ss[1] < ss[2]}
<1>1. IsWellFoundedOn(R, Nat)
  BY NatLessThanWellFounded DEF OpToRel
<1>2. PICK x \in T : \A y \in T : ~(<<y, x>> \in R)
  <2> HIDE DEF R
  <2> QED BY <1>1, WFMin
<1>3. \A y \in T : x <= y
  <2> TAKE y \in T
  <2>1. <<y, x>> \in Nat \X Nat
    OBVIOUS
  <2>2. ~(<<y, x>>[1] < <<y, x>>[2])
    BY <1>2, <2>1, Zenon
  <2> QED BY <2>2
<1> QED BY <1>3

\* A bounded set of naturals has a greatest element: mirror it and take the least.
LEMMA GreatestElement ==
  ASSUME NEW n \in Nat, NEW T \in SUBSET (1 .. n), T # {}
  PROVE  \E x \in T : \A y \in T : y <= x
<1> DEFINE U == {k \in Nat : \E x \in T : k = n - x}
<1>1. \A x \in T : x \in 1 .. n /\ n - x \in Nat
  OBVIOUS
<1>2. U # {}
  <2>1. PICK x \in T : TRUE
    OBVIOUS
  <2>2. n - x \in U
    BY <1>1, <2>1
  <2> QED BY <2>2
<1>3. PICK u \in U : \A v \in U : u <= v
  <2>1. U \in SUBSET Nat
    OBVIOUS
  <2> HIDE DEF U
  <2> QED BY <1>2, <2>1, LeastElement
<1>4. PICK x \in T : u = n - x
  BY <1>3
<1>5. ASSUME NEW y \in T PROVE y <= x
  <2>1. n - y \in U
    BY <1>1
  <2>2. u <= n - y
    BY <1>3, <2>1
  <2> QED BY <1>1, <1>4, <2>2
<1> QED BY <1>5

\* LastTouch, a CHOOSE, is the last event that touches the memory.
LEMMA LastTouchFact ==
  ASSUME NEW log \in Seq(Events), NEW m, Touching(log, m) # {}
  PROVE  /\ LastTouch(log, m) \in Touching(log, m)
         /\ LastTouch(log, m) \in 1 .. Len(log)
         /\ \A j \in Touching(log, m) : j <= LastTouch(log, m)
<1>1. Touching(log, m) \in SUBSET (1 .. Len(log)) /\ Len(log) \in Nat
  BY DEF Touching
<1>2. \E i \in Touching(log, m) : \A j \in Touching(log, m) : j <= i
  BY <1>1, GreatestElement
<1> QED BY <1>1, <1>2 DEF LastTouch
\* Types of what a journal says.
LEMMA RowAfterType ==
  ASSUME NEW e \in Events, NEW m
  PROVE  RowAfter(e, m) \in Rows
BY DEF Events, Rows, RowAfter, Lifecycles

\* Applying an event gives rows.
LEMMA ApplyRowsType ==
  ASSUME NEW rows \in [MemoryIDs -> Rows], NEW e \in Events
  PROVE  ApplyRows(rows, e) \in [MemoryIDs -> Rows]
BY RowAfterType DEF ApplyRows

\* Replaying a journal gives rows.
LEMMA ReplayType ==
  ASSUME NEW rows \in [MemoryIDs -> Rows], NEW log \in Seq(Events)
  PROVE  Replay(rows, log) \in [MemoryIDs -> Rows]
<1>1. ASSUME NEW m \in MemoryIDs, Touching(log, m) # {}
      PROVE  RowAfter(log[LastTouch(log, m)], m) \in Rows
  BY <1>1, LastTouchFact, RowAfterType
<1> QED BY <1>1 DEF Replay

\* The evidence a journal contains.
LEMMA LinksType ==
  ASSUME NEW log \in Seq(Events)
  PROVE  Links(log) \subseteq EvidenceLinks
<1>1. ASSUME NEW e \in Events PROVE Link(e) \subseteq EvidenceLinks
  BY DEF Link, Events, EvidenceLinks
<1> QED BY <1>1 DEF Links

\* The continuity revisions a journal contains.
LEMMA RevisionsType ==
  ASSUME NEW log \in Seq(Events)
  PROVE  Revisions(log) \subseteq Nat
<1>1. \A i \in DOMAIN log : log[i] \in Events
  OBVIOUS
<1>2. \A e \in Events : e.revision \in Nat
  BY DEF Events
<1> QED BY <1>1, <1>2 DEF Revisions

\* The requests a journal contains.
LEMMA ProposersType ==
  ASSUME NEW log \in Seq(Events)
  PROVE  Proposers(log) \subseteq Requests
<1>1. \A i \in DOMAIN log : log[i] \in Events
  OBVIOUS
<1>2. \A e \in Events : e.proposal \in Requests \cup {NoRequest}
  BY DEF Events
<1> QED BY <1>1, <1>2 DEF Proposers

\* The import gives rows.
LEMMA ImportedRowsType == ImportedRows \in [MemoryIDs -> Rows]
BY DEF ImportedRows, Rows, NoRow, Lifecycles

\* Appending one event: what it adds to everything a journal is read for.
LEMMA TouchingAppend ==
  ASSUME NEW log \in Seq(Events), NEW e \in Events, NEW m
  PROVE  Touching(Append(log, e), m) =
           IF Touches(e, m) THEN Touching(log, m) \cup {Len(log) + 1}
                            ELSE Touching(log, m)
BY DEF Touching

\* The event appended last is the last to touch what it touches.
LEMMA LastTouchAppend ==
  ASSUME NEW log \in Seq(Events), NEW e \in Events, NEW m
  PROVE  /\ Touches(e, m) => LastTouch(Append(log, e), m) = Len(log) + 1
         /\ ~Touches(e, m) => LastTouch(Append(log, e), m) = LastTouch(log, m)
<1>1. CASE Touches(e, m)
  <2>1. Len(log) + 1 \in Touching(Append(log, e), m)
    BY <1>1, TouchingAppend
  <2>2. Append(log, e) \in Seq(Events)
    OBVIOUS
  <2>3. /\ LastTouch(Append(log, e), m) \in 1 .. Len(Append(log, e))
        /\ Len(log) + 1 <= LastTouch(Append(log, e), m)
    BY <2>1, <2>2, LastTouchFact
  <2> QED BY <1>1, <2>3
<1>2. CASE ~Touches(e, m)
  BY <1>2, TouchingAppend DEF LastTouch
<1> QED BY <1>1, <1>2

\* applyMutationEventLocked after a replay is a replay of one event more.
LEMMA ReplayAppend ==
  ASSUME NEW rows \in [MemoryIDs -> Rows], NEW log \in Seq(Events), NEW e \in Events
  PROVE  Replay(rows, Append(log, e)) = ApplyRows(Replay(rows, log), e)
<1>1. ASSUME NEW m \in MemoryIDs, Touches(e, m)
      PROVE  Replay(rows, Append(log, e))[m] = RowAfter(e, m)
  <2>1. Touching(Append(log, e), m) # {}
    BY <1>1, TouchingAppend
  <2>2. LastTouch(Append(log, e), m) = Len(log) + 1
    BY <1>1, LastTouchAppend
  <2>3. Append(log, e)[Len(log) + 1] = e
    OBVIOUS
  <2> QED BY <2>1, <2>2, <2>3 DEF Replay
<1>2. ASSUME NEW m \in MemoryIDs, ~Touches(e, m)
      PROVE  Replay(rows, Append(log, e))[m] = Replay(rows, log)[m]
  <2>1. CASE Touching(log, m) = {}
    BY <1>2, <2>1, TouchingAppend DEF Replay
  <2>2. CASE Touching(log, m) # {}
    <3>1. LastTouch(log, m) \in 1 .. Len(log)
      BY <2>2, LastTouchFact
    <3>2. Append(log, e)[LastTouch(log, m)] = log[LastTouch(log, m)]
      BY <3>1
    <3> QED BY <1>2, <2>2, <3>2, TouchingAppend, LastTouchAppend DEF Replay
  <2> QED BY <2>1, <2>2
<1> QED BY <1>1, <1>2 DEF ApplyRows, Replay

\* Events applied one after the other, as loadMutationEvents does, give what the
\* shorthand Replay takes at once from the last event of each memory.  The
\* function over the beginnings of the journal is shown to exist.
ReplayInOrder(loaded, log) ==
  LET after[i \in 0 .. Len(log)] ==
        IF i = 0 THEN loaded ELSE ApplyRows(after[i - 1], log[i])
  IN  after[Len(log)]

LEMMA InOrderIsReplay ==
  ASSUME NEW loaded \in [MemoryIDs -> Rows], NEW log \in Seq(Events)
  PROVE  ReplayInOrder(loaded, log) = Replay(loaded, log)
<1> DEFINE n == Len(log)
           Next2(f) == [i \in 0 .. n |-> IF i = 0 THEN loaded ELSE ApplyRows(f[i - 1], log[i])]
           A == CHOOSE f : f = Next2(f)
           R(i) == Replay(loaded, SubSeq(log, 1, i))
           W == [i \in 0 .. n |-> R(i)]
<1>1. n \in Nat
  OBVIOUS
<1>2. \A i \in 1 .. n : R(i) = ApplyRows(R(i - 1), log[i])
  <2> TAKE i \in 1 .. n
  <2>1. /\ SubSeq(log, 1, i - 1) \in Seq(Events) /\ log[i] \in Events
        /\ SubSeq(log, 1, i) = Append(SubSeq(log, 1, i - 1), log[i])
    <3>1. \A k \in 0 .. n : /\ SubSeq(log, 1, k) \in Seq(Events) /\ Len(SubSeq(log, 1, k)) = k
                             /\ \A j \in 1 .. k : SubSeq(log, 1, k)[j] = log[j]
      OBVIOUS
    <3>2. i \in 0 .. n /\ i - 1 \in 0 .. n /\ log[i] \in Events
      BY <1>1
    <3> QED BY <3>1, <3>2
  <2> QED BY <2>1, ReplayAppend
<1>3. R(0) = loaded
  <2>1. SubSeq(log, 1, 0) = <<>>
    OBVIOUS
  <2> QED BY <2>1 DEF Replay, Touching
<1> HIDE DEF R
<1>4. W = Next2(W)
  BY <1>1, <1>2, <1>3
<1>5. A = Next2(A)
  <2> HIDE DEF W
  <2> QED BY <1>4
<1> HIDE DEF A
<1>6. A[0] = loaded /\ \A i \in 1 .. n : A[i] = ApplyRows(A[i - 1], log[i])
  <2> DEFINE B == A
  <2> HIDE DEF B
  <2>1. B = Next2(B)
    BY <1>5 DEF B
  <2>2. B[0] = loaded /\ \A i \in 1 .. n : B[i] = ApplyRows(B[i - 1], log[i])
    BY <1>1, <2>1
  <2> QED BY <2>2 DEF B
<1>7. A[n] = R(n)
  <2> SUFFICES ASSUME A[n] # R(n) PROVE FALSE
    OBVIOUS
  <2> DEFINE T == {i \in 0 .. n : A[i] # R(i)}
  <2>1. T \in SUBSET Nat /\ T # {}
    BY <1>1
  <2>2. PICK x \in T : \A y \in T : x <= y
    <3> HIDE DEF T
    <3> QED BY <2>1, LeastElement
  <2>3. x # 0
    BY <1>3, <1>6
  <2>4. x \in 1 .. n /\ x - 1 \in 0 .. n /\ x - 1 \notin T
    BY <1>1, <2>2, <2>3
  <2>5. A[x - 1] = R(x - 1)
    BY <2>4
  <2>6. A[x] = R(x)
    BY <1>2, <1>6, <2>4, <2>5
  <2> QED BY <2>2, <2>6
<1>8. SubSeq(log, 1, n) = log
  OBVIOUS
<1>9. ReplayInOrder(loaded, log) = A[n]
  BY DEF ReplayInOrder, A
<1> QED BY <1>7, <1>8, <1>9 DEF R

\* A journal is the events before its last one, and that one.
LEMMA LastSplits ==
  ASSUME NEW log \in Seq(Events), log # <<>>
  PROVE  /\ SubSeq(log, 1, Len(log) - 1) \in Seq(Events)
         /\ Len(SubSeq(log, 1, Len(log) - 1)) = Len(log) - 1
         /\ log[Len(log)] \in Events
         /\ log = Append(SubSeq(log, 1, Len(log) - 1), log[Len(log)])
<1> DEFINE n == Len(log)
           s == SubSeq(log, 1, n - 1)
<1>1. n \in Nat /\ n >= 1 /\ n \in DOMAIN log
  OBVIOUS
<1>2. s \in Seq(Events) /\ Len(s) = n - 1 /\ \A i \in 1 .. n - 1 : s[i] = log[i]
  <2>1. n - 1 \in Nat /\ n - 1 <= Len(log)
    BY <1>1
  <2>2. \A k \in Nat : k <= Len(log) =>
          /\ SubSeq(log, 1, k) \in Seq(Events)
          /\ Len(SubSeq(log, 1, k)) = k
          /\ \A i \in 1 .. k : SubSeq(log, 1, k)[i] = log[i]
    OBVIOUS
  <2> QED BY <2>1, <2>2
<1>3. log[n] \in Events
  BY <1>1
<1>4. Append(s, log[n]) \in Seq(Events) /\ Len(Append(s, log[n])) = n
  BY <1>1, <1>2, <1>3
<1>5. \A i \in 1 .. n : Append(s, log[n])[i] = log[i]
  BY <1>1, <1>2, <1>3
<1> QED BY <1>2, <1>3, <1>4, <1>5

\* Dropping the event appended last.
LEMMA AppendUndone ==
  ASSUME NEW log \in Seq(Events), NEW e \in Events
  PROVE  /\ Append(log, e) \in Seq(Events)
         /\ Append(log, e) # <<>>
         /\ Len(Append(log, e)) = Len(log) + 1
         /\ Append(log, e)[Len(log) + 1] = e
         /\ SubSeq(Append(log, e), 1, Len(log)) = log
<1>1. /\ Append(log, e) \in Seq(Events)
      /\ Len(Append(log, e)) = Len(log) + 1
      /\ Append(log, e)[Len(log) + 1] = e
      /\ \A i \in 1 .. Len(log) : Append(log, e)[i] = log[i]
  OBVIOUS
<1>2. SubSeq(Append(log, e), 1, Len(log)) = log
  BY <1>1
<1> QED BY <1>1, <1>2

\* What one more event adds to evidence, revisions and requests.
LEMMA AppendGrows ==
  ASSUME NEW log \in Seq(Events), NEW e \in Events
  PROVE  /\ Links(Append(log, e)) = Links(log) \cup Link(e)
         /\ Revisions(Append(log, e)) = Revisions(log) \cup {e.revision}
         /\ Proposers(Append(log, e)) = Proposers(log) \cup ({e.proposal} \ {NoRequest})
<1>1. /\ DOMAIN Append(log, e) = DOMAIN log \cup {Len(log) + 1}
      /\ \A i \in DOMAIN log : Append(log, e)[i] = log[i]
      /\ Append(log, e)[Len(log) + 1] = e
  OBVIOUS
<1>2. Links(Append(log, e)) = Links(log) \cup Link(e)
  BY <1>1 DEF Links
<1>3. Revisions(Append(log, e)) = Revisions(log) \cup {e.revision}
  BY <1>1 DEF Revisions
<1>4. Proposers(Append(log, e)) = Proposers(log) \cup ({e.proposal} \ {NoRequest})
  BY <1>1 DEF Proposers
<1> QED BY <1>2, <1>3, <1>4

\* Replaying over other rows makes no difference where the journal touches: this
\* is why loadMutationEvents may replay over projections of any age.
LEMMA ReplayDependsOnUntouched ==
  ASSUME NEW a, NEW b, NEW log,
         \A m \in MemoryIDs : Touching(log, m) = {} => a[m] = b[m]
  PROVE  Replay(a, log) = Replay(b, log)
BY DEF Replay

\* A replay leaves alone what no event touches.
LEMMA ReplayUntouched ==
  ASSUME NEW rows, NEW log, NEW m \in MemoryIDs, Touching(log, m) = {}
  PROVE  Replay(rows, log)[m] = rows[m]
BY DEF Replay

\* Before the first event the rows are those of the import.
LEMMA EmptyLog ==
  /\ Links(<<>>) = {} /\ Revisions(<<>>) = {} /\ Proposers(<<>>) = {}
  /\ \A m : Touching(<<>>, m) = {}
  /\ Replay(ImportedRows, <<>>) = ImportedRows
<1>1. \A m : Touching(<<>>, m) = {}
  BY DEF Touching
<1>2. Replay(ImportedRows, <<>>) = ImportedRows
  BY <1>1 DEF Replay, ImportedRows
<1>3. Links(<<>>) = {} /\ Revisions(<<>>) = {} /\ Proposers(<<>>) = {}
  BY DEF Links, Revisions, Proposers
<1> QED BY <1>1, <1>2, <1>3

-----------------------------------------------------------------------------
(***************************************************************************)
(* Well-formed journals.                                                   *)
(***************************************************************************)

\* An event as the lane decides it: what it changes is what its request asks for.
Decision(e) ==
  /\ e.proposal = NoRequest =>
       e.new = NoMemory /\ e.target # NoMemory /\ e.life = "SUPERSEDED"
  /\ e.proposal # NoRequest =>
       \/ /\ e.proposal.kind = "REMEMBER"
          /\ \/ e.new # NoMemory /\ e.target = NoMemory
             \/ e.new = NoMemory /\ e.target # NoMemory /\ e.life = "ACTIVE"
       \/ /\ e.proposal.kind = "CORRECT"
          /\ e.new # NoMemory /\ e.target = e.proposal.target /\ e.life = "SUPERSEDED"
       \/ /\ e.proposal.kind = "FORGET"
          /\ e.new = NoMemory /\ e.target = e.proposal.target /\ e.life = "FORGOTTEN"

\* Of two events that touch a memory the first leaves it ACTIVE, and in an older version.
Succeeds(log, i, j, m) ==
  /\ RowAfter(log[i], m).life = "ACTIVE"
  /\ RowAfter(log[i], m).version < RowAfter(log[j], m).version

\* An event finds what it decided on: no memory where it creates one, and the
\* version it expects, ACTIVE, where it changes one.
Meets(rows, e) ==
  /\ e.new # NoMemory => rows[e.new] = NoRow
  /\ e.target # NoMemory => rows[e.target] = [life |-> "ACTIVE", version |-> e.expected]

\* A journal that loadMutationEvents accepts, and one that tells one story.
Aligned(log) == \A i \in DOMAIN log : log[i].seq = i

OneStory(log) ==
  /\ \A i \in DOMAIN log :
       Decision(log[i]) /\ (log[i].new # NoMemory => log[i].new # log[i].target)
  /\ \A m \in MemoryIDs : \A i, j \in Touching(log, m) : i < j => Succeeds(log, i, j, m)
  /\ \A i, j \in DOMAIN log :
       log[i].proposal = log[j].proposal /\ log[i].proposal # NoRequest => i = j

\* Rows that show the last event of every memory an event touches.
Reflect(rows, log) ==
  \A m \in MemoryIDs :
    Touching(log, m) # {} => rows[m] = RowAfter(log[LastTouch(log, m)], m)

JournalOK(log) ==
  /\ \A i \in DOMAIN log :
       /\ log[i].seq = i
       /\ Decision(log[i])
       /\ log[i].new # NoMemory => log[i].new # log[i].target
       /\ Meets(Replay(ImportedRows, SubSeq(log, 1, i - 1)), log[i])
  /\ \A m \in MemoryIDs : \A i, j \in Touching(log, m) : i < j => Succeeds(log, i, j, m)
  /\ \A i, j \in DOMAIN log :
       log[i].proposal = log[j].proposal /\ log[i].proposal # NoRequest => i = j

\* No event leaves a memory it touches without a lifecycle.
LEMMA DecisionLife ==
  ASSUME NEW e \in Events, Decision(e), NEW m \in MemoryIDs, Touches(e, m)
  PROVE  RowAfter(e, m).life # "NONE"
BY IdentityAssumption DEF Decision, Touches, RowAfter

\* Cutting a journal twice, and a journal with one event more.
LEMMA Prefixes ==
  ASSUME NEW log \in Seq(Events)
  PROVE  /\ \A n \in 0 .. Len(log) : \A k \in 0 .. n :
              SubSeq(SubSeq(log, 1, n), 1, k) = SubSeq(log, 1, k)
         /\ \A n \in 0 .. Len(log) :
              SubSeq(log, 1, n) \in Seq(Events) /\ Len(SubSeq(log, 1, n)) = n
         /\ SubSeq(log, 1, Len(log)) = log
         /\ \A e \in Events :
              /\ Append(log, e) \in Seq(Events) /\ Len(Append(log, e)) = Len(log) + 1
              /\ \A n \in 0 .. Len(log) : SubSeq(Append(log, e), 1, n) = SubSeq(log, 1, n)
<1>1. \A n \in 0 .. Len(log) : \A k \in 0 .. n : SubSeq(SubSeq(log, 1, n), 1, k) = SubSeq(log, 1, k)
  OBVIOUS
<1>2. \A n \in 0 .. Len(log) :
        SubSeq(log, 1, n) \in Seq(Events) /\ Len(SubSeq(log, 1, n)) = n
  OBVIOUS
<1>3. SubSeq(log, 1, Len(log)) = log
  OBVIOUS
<1>4. ASSUME NEW e \in Events
      PROVE  /\ Append(log, e) \in Seq(Events) /\ Len(Append(log, e)) = Len(log) + 1
             /\ \A n \in 0 .. Len(log) : SubSeq(Append(log, e), 1, n) = SubSeq(log, 1, n)
  OBVIOUS
<1> QED BY <1>1, <1>2, <1>3, <1>4

\* Rows that reflect a journal reflect one event more when it is applied.
LEMMA ReflectAppend ==
  ASSUME NEW log \in Seq(Events), NEW e \in Events, NEW rows, Reflect(rows, log)
  PROVE  Reflect(ApplyRows(rows, e), Append(log, e))
<1> SUFFICES ASSUME NEW m \in MemoryIDs, Touching(Append(log, e), m) # {}
             PROVE  ApplyRows(rows, e)[m] = RowAfter(Append(log, e)[LastTouch(Append(log, e), m)], m)
  BY DEF Reflect
<1>1. CASE Touches(e, m)
  <2>1. LastTouch(Append(log, e), m) = Len(log) + 1
    BY <1>1, LastTouchAppend
  <2>2. Append(log, e)[Len(log) + 1] = e
    OBVIOUS
  <2> QED BY <1>1, <2>1, <2>2 DEF ApplyRows
<1>2. CASE ~Touches(e, m)
  <2>1. Touching(log, m) # {} /\ LastTouch(Append(log, e), m) = LastTouch(log, m)
    BY <1>2, TouchingAppend, LastTouchAppend
  <2>2. LastTouch(log, m) \in 1 .. Len(log)
    BY <2>1, LastTouchFact
  <2>3. Append(log, e)[LastTouch(log, m)] = log[LastTouch(log, m)]
    BY <2>2
  <2> QED BY <1>2, <2>1, <2>3 DEF ApplyRows, Reflect
<1> QED BY <1>1, <1>2

LEMMA ReplayReflects ==
  ASSUME NEW rows, NEW log
  PROVE  Reflect(Replay(rows, log), log)
BY DEF Reflect, Replay

\* An event that is checked against rows that reflect the journal, whatever
\* they say of a memory no event touches, continues its story.
LEMMA StoryAppend ==
  ASSUME NEW log \in Seq(Events), OneStory(log), NEW e \in Events, Decision(e),
         e.proposal \notin Proposers(log),
         NEW rows, Reflect(rows, log), Meets(rows, e)
  PROVE  OneStory(Append(log, e))
<1> DEFINE n == Len(log) + 1
           s == Append(log, e)
<1>1. /\ DOMAIN s = DOMAIN log \cup {n} /\ n \notin DOMAIN log /\ n \in Nat
      /\ \A i \in DOMAIN log : s[i] = log[i] /\ i < n /\ i \in Nat
      /\ s[n] = e
  OBVIOUS
<1>2. \A m : Touching(s, m) = IF Touches(e, m) THEN Touching(log, m) \cup {n}
                                               ELSE Touching(log, m)
  BY TouchingAppend
<1> HIDE DEF s, n
<1>3. \A i \in DOMAIN s : Decision(s[i]) /\ (s[i].new # NoMemory => s[i].new # s[i].target)
  <2>1. e.new # NoMemory => e.new # e.target
    BY DEF Meets, NoRow
  <2> QED BY <1>1, <2>1 DEF OneStory
<1>4. \A i, j \in DOMAIN s :
        s[i].proposal = s[j].proposal /\ s[i].proposal # NoRequest => i = j
  <2>1. \A i \in DOMAIN log : log[i].proposal # NoRequest => log[i].proposal # e.proposal
    BY DEF Proposers
  <2> QED BY <1>1, <2>1 DEF OneStory
<1>5. ASSUME NEW m \in MemoryIDs, Touches(e, m), NEW i \in Touching(log, m)
      PROVE  Succeeds(s, i, n, m)
  <2> DEFINE last == LastTouch(log, m)
  <2>1. /\ last \in Touching(log, m) /\ last \in DOMAIN log /\ last \in Nat /\ i <= last
        /\ i \in DOMAIN log /\ i \in Nat
    BY LastTouchFact DEF Touching
  <2>2. rows[m] = RowAfter(log[last], m)
    BY <2>1 DEF Reflect
  <2> HIDE DEF last
  <2>3. log[last] \in Events /\ Decision(log[last]) /\ Touches(log[last], m)
    BY <2>1 DEF OneStory, Touching
  <2>4. RowAfter(log[last], m).life # "NONE"
    BY <2>3, DecisionLife
  <2>5. m # e.new
    <3>1. m = e.new => rows[m] = NoRow
      BY IdentityAssumption DEF Meets
    <3> QED BY <2>2, <2>4, <3>1 DEF NoRow
  <2>6. m = e.target /\ m # NoMemory
    BY <1>5, <2>5, IdentityAssumption DEF Touches
  <2>7. /\ RowAfter(log[last], m).life = "ACTIVE"
        /\ RowAfter(log[last], m).version = e.expected
    BY <2>2, <2>6 DEF Meets
  <2>8. RowAfter(e, m).version = e.expected + 1 /\ e.expected \in Nat
    BY <2>5 DEF RowAfter, Events
  <2>9. i = last \/ Succeeds(log, i, last, m)
    BY <2>1 DEF OneStory
  <2>10. RowAfter(log[i], m).version \in Nat
    <3>1. log[i] \in Events
      BY <2>1
    <3> QED BY <3>1, RowAfterType DEF Rows
  <2>11. RowAfter(log[i], m).life = "ACTIVE" /\ RowAfter(log[i], m).version <= e.expected
    <3>1. CASE i = last
      BY <2>7, <2>8, <3>1
    <3>2. CASE Succeeds(log, i, last, m)
      BY <2>7, <2>8, <2>10, <3>2 DEF Succeeds
    <3> QED BY <2>9, <3>1, <3>2
  <2> QED BY <1>1, <2>1, <2>8, <2>10, <2>11 DEF Succeeds
<1>6. \A m \in MemoryIDs : \A i, j \in Touching(s, m) : i < j => Succeeds(s, i, j, m)
  <2> SUFFICES ASSUME NEW m \in MemoryIDs, NEW i \in Touching(s, m),
                      NEW j \in Touching(s, m), i < j
               PROVE  Succeeds(s, i, j, m)
    OBVIOUS
  <2>1. Touching(log, m) \subseteq DOMAIN log
    BY DEF Touching
  <2>2. i \in Touching(log, m)
    <3>1. ~(n < j)
      BY <1>1, <1>2, <2>1
    <3> QED BY <1>1, <1>2, <2>1, <3>1
  <2>3. CASE j = n
    <3>1. Touches(e, m)
      BY <1>1, <1>2, <2>1, <2>3
    <3> QED BY <1>5, <2>2, <2>3, <3>1
  <2>4. CASE j \in Touching(log, m)
    <3>1. Succeeds(log, i, j, m)
      BY <2>2, <2>4 DEF OneStory
    <3> QED BY <1>1, <2>1, <2>2, <2>4, <3>1 DEF Succeeds
  <2> QED BY <1>2, <2>3, <2>4
<1>7. OneStory(s)
  BY <1>3, <1>4, <1>6 DEF OneStory
<1> QED BY <1>7 DEF s

\* A well-formed journal stays well-formed when its tail is lost.
LEMMA JournalPrefix ==
  ASSUME NEW log \in Seq(Events), JournalOK(log), NEW n \in 0 .. Len(log)
  PROVE  JournalOK(SubSeq(log, 1, n))
<1> DEFINE s == SubSeq(log, 1, n)
<1>1. /\ DOMAIN s = 1 .. n
      /\ DOMAIN s \subseteq DOMAIN log
      /\ \A i \in DOMAIN s : s[i] = log[i]
  OBVIOUS
<1>0. \A i \in DOMAIN s : SubSeq(s, 1, i - 1) = SubSeq(log, 1, i - 1)
  OBVIOUS
<1> HIDE DEF s
<1>2. \A m : Touching(s, m) \subseteq Touching(log, m)
  BY <1>1 DEF Touching
<1>3. \A m : \A i \in Touching(s, m) : s[i] = log[i]
  BY <1>1 DEF Touching
<1>4. \A i \in DOMAIN s :
        /\ s[i].seq = i /\ Decision(s[i]) /\ (s[i].new # NoMemory => s[i].new # s[i].target)
        /\ Meets(Replay(ImportedRows, SubSeq(s, 1, i - 1)), s[i])
  BY <1>0, <1>1 DEF JournalOK
<1>5. \A m \in MemoryIDs : \A i, j \in Touching(s, m) : i < j => Succeeds(s, i, j, m)
  BY <1>2, <1>3 DEF JournalOK, Succeeds
<1>6. \A i, j \in DOMAIN s :
        s[i].proposal = s[j].proposal /\ s[i].proposal # NoRequest => i = j
  BY <1>1 DEF JournalOK
<1>7. JournalOK(s)
  BY <1>4, <1>5, <1>6 DEF JournalOK
<1> QED BY <1>7 DEF s

\* What CommitMutation checks before it writes an event is enough to keep the
\* journal well-formed (mutation_event.go:69-118).
LEMMA JournalAppend ==
  ASSUME NEW log \in Seq(Events), JournalOK(log), NEW e \in Events,
         e.seq = Len(log) + 1, Decision(e),
         e.proposal \notin Proposers(log),
         Meets(Replay(ImportedRows, log), e)
  PROVE  JournalOK(Append(log, e))
<1> DEFINE n == Len(log) + 1
           s == Append(log, e)
<1>1. /\ DOMAIN s = DOMAIN log \cup {n} /\ n \notin DOMAIN log /\ n \in Nat
      /\ \A i \in DOMAIN log : s[i] = log[i] /\ i < n /\ i \in Nat
      /\ s[n] = e
  OBVIOUS
<1>0. /\ \A i \in DOMAIN log : SubSeq(s, 1, i - 1) = SubSeq(log, 1, i - 1)
      /\ SubSeq(s, 1, n - 1) = log
  OBVIOUS
<1> HIDE DEF s, n
<1>2. \A i \in DOMAIN s : /\ s[i].seq = i
                          /\ Decision(s[i])
                          /\ s[i].new # NoMemory => s[i].new # s[i].target
                          /\ Meets(Replay(ImportedRows, SubSeq(s, 1, i - 1)), s[i])
  <2>1. e.new # NoMemory => e.new # e.target
    BY DEF Meets, NoRow
  <2>2. ASSUME NEW i \in DOMAIN log
        PROVE  /\ s[i].seq = i
               /\ Decision(s[i])
               /\ s[i].new # NoMemory => s[i].new # s[i].target
               /\ Meets(Replay(ImportedRows, SubSeq(s, 1, i - 1)), s[i])
    <3>1. s[i] = log[i] /\ SubSeq(s, 1, i - 1) = SubSeq(log, 1, i - 1)
      BY <1>0, <1>1
    <3> QED BY <3>1 DEF JournalOK
  <2>3. /\ s[n].seq = n /\ Decision(s[n])
        /\ Meets(Replay(ImportedRows, SubSeq(s, 1, n - 1)), s[n])
    BY <1>0, <1>1 DEF n
  <2> QED BY <1>1, <2>1, <2>2, <2>3
<1>3. OneStory(s)
  <2>1. OneStory(log)
    BY DEF OneStory, JournalOK
  <2>2. Reflect(Replay(ImportedRows, log), log)
    BY ReplayReflects
  <2> QED BY <2>1, <2>2, StoryAppend DEF s
<1>4. JournalOK(s)
  BY <1>2, <1>3 DEF JournalOK, OneStory
<1> QED BY <1>4 DEF s

\* What a well-formed journal says of its last event.
LEMMA JournalLast ==
  ASSUME NEW log \in Seq(Events), NEW e \in Events, JournalOK(Append(log, e))
  PROVE  /\ Decision(e)
         /\ Meets(Replay(ImportedRows, log), e)
         /\ e.new # NoMemory => e.new # e.target
         /\ e.proposal \notin Proposers(log)
<1> DEFINE n == Len(log) + 1
           s == Append(log, e)
<1>1. /\ n \in DOMAIN s /\ s[n] = e /\ SubSeq(s, 1, n - 1) = log
      /\ \A i \in DOMAIN log : i \in DOMAIN s /\ s[i] = log[i] /\ i # n
  OBVIOUS
<1> HIDE DEF n, s
<1>2. JournalOK(s)
  BY DEF s
<1>3. Decision(e) /\ Meets(Replay(ImportedRows, log), e) /\ (e.new # NoMemory => e.new # e.target)
  BY <1>1, <1>2 DEF JournalOK
<1>4. e.proposal \notin Proposers(log)
  BY <1>1, <1>2 DEF JournalOK, Proposers
<1> QED BY <1>3, <1>4

-----------------------------------------------------------------------------
(***************************************************************************)
(* The invariant of the lane.                                              *)
(***************************************************************************)

\* The state after the import is well typed.
LEMMA InitType == Init => TypeOK
<1> SUFFICES ASSUME Init PROVE TypeOK
  OBVIOUS
<1>0. ImportedRows \in [MemoryIDs -> Rows]
  BY ImportedRowsType
<1>1. [m \in MemoryIDs |-> NoRow] \in [MemoryIDs -> Rows]
  BY DEF NoRow, Rows, Lifecycles
<1>2. proposals \in [Requests -> Proposals]
  BY DEF Init, NoProposal, Proposals, Statuses, Reasons
<1>3. file \in Files
  BY <1>0, <1>2 DEF Init, Files
<1>4. IdleLane \in Lanes
  BY DEF IdleLane, Lanes, NoEvent, Events, Lifecycles, LaneSteps, Ways
<1>5. rejecters \in [Rejecters -> Requests \cup {IdleRejecter}]
  BY DEF Init
<1>6. journal \in Seq(Events) /\ durable \in 0 .. Len(journal) /\ seq \in Nat
  BY DEF Init
<1>7. memories \in [MemoryIDs -> Rows] /\ index \in [MemoryIDs -> Rows]
  BY <1>0, <1>1 DEF Init
<1> QED BY <1>2, <1>3, <1>4, <1>5, <1>6, <1>7 DEF Init, TypeOK

\* A decided mutation is an event that says what was decided.
LEMMA DecidedType ==
  ASSUME TypeOK, NEW r \in Requests \cup {NoRequest}, NEW m \in MemoryIDs \cup {NoMemory},
         NEW t \in MemoryIDs \cup {NoMemory}, NEW life \in Lifecycles
  PROVE  /\ Decided(r, m, t, life) \in Events
         /\ Decided(r, m, t, life).proposal = r
         /\ Decided(r, m, t, life).new = m
         /\ Decided(r, m, t, life).target = t
         /\ Decided(r, m, t, life).life = life
         /\ t # NoMemory => Decided(r, m, t, life).expected = index[t].version
<1>1. t # NoMemory => index[t].version \in Nat
  BY DEF TypeOK, Rows
<1> QED BY <1>1 DEF Decided, NoEvent, Events, Lifecycles

\* What the lane decides, by kind of request.
LEMMA MutationsAre ==
  ASSUME NEW r \in Requests, NEW e \in Mutations(r) \cup Promotions(r)
  PROVE  \/ /\ r.kind = "REMEMBER"
            /\ \/ \E m \in Fresh : e = Decided(r, m, NoMemory, "ACTIVE")
               \/ \E m \in MemoryIDs : IsActive(m) /\ e = Decided(r, NoMemory, m, "ACTIVE")
         \/ /\ r.kind = "CORRECT"
            /\ \E m \in Fresh : e = Decided(r, m, r.target, "SUPERSEDED")
         \/ /\ r.kind = "FORGET"
            /\ e = Decided(r, NoMemory, r.target, "FORGOTTEN")
<1> HIDE DEF Fresh, Decided, IsActive
<1>1. r.kind \in {"REMEMBER", "CORRECT", "FORGET"}
  BY RequestAssumption
<1>2. CASE e \in Mutations(r)
  BY <1>1, <1>2 DEF Mutations
<1>3. CASE e \in Promotions(r)
  BY <1>1, <1>3 DEF Promotions
<1> QED BY <1>2, <1>3

\* What a request may decide is an event of that request.
LEMMA MutationsType ==
  ASSUME TypeOK, NEW r \in Requests, NEW e \in Mutations(r) \cup Promotions(r)
  PROVE  e \in Events /\ e.proposal = r
<1>1. r.target \in MemoryIDs \cup {NoMemory}
  BY RequestAssumption
<1>2. Fresh \subseteq MemoryIDs
  BY DEF Fresh
<1>3. PICK m \in MemoryIDs \cup {NoMemory}, t \in MemoryIDs \cup {NoMemory},
           life \in Lifecycles : e = Decided(r, m, t, life)
  BY <1>1, <1>2, MutationsAre DEF Lifecycles
<1>4. Decided(r, m, t, life) \in Events /\ Decided(r, m, t, life).proposal = r
  BY DecidedType
<1> QED BY <1>3, <1>4

\* The proposals the handlers write.
LEMMA ProposalTypes ==
  /\ \A reason \in {"", "INTENT", "REVIEW"} : Pending(reason) \in Proposals
  /\ \A reason \in {"COMMIT_FAILED_PRE_EVENT", "REVIEWER_REJECTED"} : Rejected(reason) \in Proposals
  /\ Applied \in Proposals
  /\ NoProposal \in Proposals
BY DEF Pending, Rejected, Applied, NoProposal, Proposals, Statuses, Reasons

\* The proposals file, saved or not, holds proposals.
LEMMA ProposalsFile ==
  ASSUME TypeOK, proposals' \in [Requests -> Proposals],
         SaveProposals \/ SaveProposalsFails
  PROVE  file' \in Files
BY DEF TypeOK, Files, SaveProposals, SaveProposalsFails

\* A process that is not running has empty maps.
LEMMA EmptiedType ==
  ASSUME Emptied
  PROVE  /\ memories' \in [MemoryIDs -> Rows]
         /\ proposals' \in [Requests -> Proposals]
         /\ evidence' \in SUBSET EvidenceLinks
         /\ continuity' \in SUBSET Nat
         /\ seq' \in Nat
BY ProposalTypes DEF Emptied, NoRow, Rows, Lifecycles

\* Whatever stops the process, what is left is well typed.
LEMMA StoppedType ==
  ASSUME TypeOK, Stopped,
         journal' \in Seq(Events), durable' \in 0 .. Len(journal'), torn' \in BOOLEAN,
         file' \in Files
  PROVE  TypeOK'
<1>1. IdleLane \in Lanes
  BY DEF IdleLane, Lanes, NoEvent, Events, Lifecycles, LaneSteps, Ways
<1>2. rejecters' \in [Rejecters -> Requests \cup {IdleRejecter}]
  BY DEF Stopped
<1> QED BY <1>1, <1>2, EmptiedType DEF TypeOK, Stopped

\* The lane in each of the states the actions give it.
LEMMA LaneTypes ==
  ASSUME TypeOK
  PROVE  /\ IdleLane \in Lanes
         /\ \A event \in Events, way \in Ways : Commits(event, way) => lane' \in Lanes
         /\ \A step \in LaneSteps : [lane EXCEPT !.step = step] \in Lanes
         /\ \A step \in LaneSteps : [IdleLane EXCEPT !.step = step] \in Lanes
         /\ CommitFails => lane' \in Lanes
         /\ lane.event \in Events
<1>1. IdleLane \in Lanes
  BY DEF IdleLane, Lanes, NoEvent, Events, Lifecycles, LaneSteps, Ways
<1>2. \A event \in Events, way \in Ways : Commits(event, way) => lane' \in Lanes
  BY DEF Commits, Lanes, LaneSteps
<1>3. \A l \in Lanes, step \in LaneSteps : [l EXCEPT !.step = step] \in Lanes
  BY DEF Lanes
<1>4. lane \in Lanes /\ lane.event \in Events
  BY DEF TypeOK, Lanes
<1>5. CommitFails => lane' \in Lanes
  BY <1>1, <1>3, <1>4 DEF CommitFails, LaneSteps
<1> QED BY <1>1, <1>2, <1>3, <1>4, <1>5

\* Answering a client.
LEMMA AnsweredType ==
  ASSUME TypeOK, Answered
  PROVE  lane' \in Lanes /\ told' \in SUBSET Requests
<1>1. lane.event.proposal \in Requests \cup {NoRequest}
  BY LaneTypes DEF Events
<1> QED BY <1>1, LaneTypes DEF Answered, TypeOK

\* One projection rewritten.
LEMMA FlushedType ==
  ASSUME TypeOK, NEW stage \in FlushStages
  PROVE  Flushed(stage) \in Files /\ NextStage(stage) \in LaneSteps
BY DEF TypeOK, Files, Flushed, FlushStages, NextStage, LaneSteps

\* Every action of the lane, the rejecters and restart keeps the types.
LEMMA TypeStep == TypeOK /\ [Next]_vars => TypeOK'
<1> SUFFICES ASSUME TypeOK, [Next]_vars PROVE TypeOK'
  OBVIOUS
<1> USE DEF disk, maps
<1>1. ASSUME NEW r \in Requests, Replayed(r) PROVE TypeOK'
  BY <1>1 DEF TypeOK, Replayed
<1>2. ASSUME NEW r \in Requests, NEW reason \in {"INTENT", "REVIEW"}, Stage(r, reason)
      PROVE  TypeOK'
  <2>1. proposals' \in [Requests -> Proposals]
    BY <1>2, ProposalTypes DEF Stage, Propose, TypeOK
  <2>2. file' \in Files
    BY <1>2, <2>1, ProposalsFile DEF Stage
  <2> QED BY <1>2, <2>1, <2>2 DEF Stage, TypeOK
<1>3. ASSUME NEW r \in Requests, Submit(r) PROVE TypeOK'
  <2>1. proposals' \in [Requests -> Proposals]
    BY <1>3, ProposalTypes DEF Submit, Propose, TypeOK
  <2>2. file' \in Files
    BY <1>3, <2>1, ProposalsFile DEF Submit
  <2>3. lane' \in Lanes
    BY <1>3, MutationsType, LaneTypes DEF Submit, TypeOK, Ways
  <2> QED BY <1>3, <2>1, <2>2, <2>3 DEF Submit, TypeOK
<1>4. ASSUME NEW r \in Requests, Approve(r) PROVE TypeOK'
  <2>1. lane' \in Lanes
    BY <1>4, MutationsType, LaneTypes DEF Approve, Ways
  <2> QED BY <1>4, <2>1 DEF Approve, TypeOK
<1>5. ASSUME NEW m \in MemoryIDs, Retire(m) PROVE TypeOK'
  <2>1. Decided(NoRequest, NoMemory, m, "SUPERSEDED") \in Events
    BY DecidedType DEF Lifecycles
  <2>2. lane' \in Lanes
    BY <1>5, <2>1, LaneTypes DEF Retire, Ways
  <2> QED BY <1>5, <2>2 DEF Retire, TypeOK
<1>6. ASSUME CommitConflict PROVE TypeOK'
  BY <1>6, LaneTypes DEF CommitConflict, TypeOK
<1>7. ASSUME WriteEvent PROVE TypeOK'
  <2>1. PICK n \in 1 .. MaxEvents + 1 :
          LET e == [lane.event EXCEPT !.seq = seq + 1, !.revision = n]
          IN  /\ journal' = Append(journal, e)
              /\ lane' = [lane EXCEPT !.step = "written", !.event = e]
    BY <1>7 DEF WriteEvent
  <2>2. [lane.event EXCEPT !.seq = seq + 1, !.revision = n] \in Events
    <3>1. n \in Nat /\ seq + 1 \in Nat
      BY LaneAssumption DEF TypeOK
    <3> QED BY <3>1, LaneTypes DEF Events
  <2>3. lane' \in Lanes
    BY <2>1, <2>2 DEF TypeOK, Lanes, LaneSteps
  <2>4. journal' \in Seq(Events) /\ durable' \in 0 .. Len(journal')
    BY <1>7, <2>1, <2>2 DEF TypeOK, WriteEvent
  <2> QED BY <1>7, <2>3, <2>4 DEF WriteEvent, TypeOK
<1>8. ASSUME AppendFails PROVE TypeOK'
  BY <1>8, LaneTypes DEF AppendFails, TypeOK
<1>9. ASSUME SyncFails PROVE TypeOK'
  BY <1>9, LaneTypes DEF SyncFails, TypeOK
<1>10. ASSUME SyncEvent PROVE TypeOK'
  <2> DEFINE e == lane.event
  <2>1. e \in Events
    BY LaneTypes
  <2>2. memories' \in [MemoryIDs -> Rows]
    BY <1>10, <2>1, ApplyRowsType DEF SyncEvent, TypeOK
  <2>3. proposals' \in [Requests -> Proposals]
    BY <1>10, ProposalTypes DEF SyncEvent, TypeOK
  <2>4. evidence' \in SUBSET EvidenceLinks
    BY <1>10, <2>1 DEF SyncEvent, TypeOK, Link, Events, EvidenceLinks
  <2>5. continuity' \in SUBSET Nat /\ seq' \in Nat
    BY <1>10, <2>1 DEF SyncEvent, TypeOK, Events
  <2>6. lane' \in Lanes
    BY <1>10, LaneTypes DEF SyncEvent, LaneSteps, FlushStages
  <2>7. durable' \in 0 .. Len(journal')
    BY <1>10 DEF SyncEvent, TypeOK
  <2> QED BY <1>10, <2>2, <2>3, <2>4, <2>5, <2>6, <2>7 DEF SyncEvent, TypeOK
<1>11. ASSUME FlushProjection PROVE TypeOK'
  <2>1. file' \in Files /\ lane' \in Lanes
    BY <1>11, FlushedType, LaneTypes DEF FlushProjection, TypeOK
  <2> QED BY <1>11, <2>1 DEF FlushProjection, TypeOK
<1>12. ASSUME FlushFails PROVE TypeOK'
  <2>1. file' \in Files
    BY <1>12, FlushedType DEF FlushFails, TypeOK
  <2> QED BY <1>12, <2>1, AnsweredType DEF FlushFails, TypeOK
<1>13. ASSUME RefreshIndex PROVE TypeOK'
  <2>1. index' \in [MemoryIDs -> Rows]
    BY <1>13, ApplyRowsType, LaneTypes DEF RefreshIndex, TypeOK
  <2> QED BY <1>13, <2>1, AnsweredType DEF RefreshIndex, TypeOK
<1>14. ASSUME RefreshIndexFails PROVE TypeOK'
  <2>1. [lane.event EXCEPT !.target = NoMemory] \in Events
    BY LaneTypes DEF Events
  <2>2. index' \in [MemoryIDs -> Rows]
    BY <1>14, <2>1, ApplyRowsType, LaneTypes DEF RefreshIndexFails, TypeOK
  <2> QED BY <1>14, <2>2, AnsweredType DEF RefreshIndexFails, TypeOK
<1>15. ASSUME RejectFailedCommit PROVE TypeOK'
  <2>1. proposals' \in [Requests -> Proposals]
    BY <1>15, ProposalTypes DEF RejectFailedCommit, RejectProposal, TypeOK
  <2>2. file' \in Files
    BY <1>15, <2>1, ProposalsFile DEF RejectFailedCommit
  <2> QED BY <1>15, <2>1, <2>2, LaneTypes DEF RejectFailedCommit, TypeOK
<1>16. ASSUME NEW x \in Rejecters, NEW r \in Requests, CheckPending(x, r) PROVE TypeOK'
  BY <1>16 DEF CheckPending, TypeOK
<1>17. ASSUME NEW x \in Rejecters, Reject(x) PROVE TypeOK'
  <2>1. proposals' \in [Requests -> Proposals]
    BY <1>17, ProposalTypes DEF Reject, RejectProposal, TypeOK
  <2>2. file' \in Files
    BY <1>17, <2>1, ProposalsFile DEF Reject
  <2> QED BY <1>17, <2>1, <2>2 DEF Reject, TypeOK
<1>18. ASSUME Kill PROVE TypeOK'
  BY <1>18, StoppedType DEF Kill, TypeOK
<1>19. ASSUME PowerLoss PROVE TypeOK'
  <2>1. PICK n \in durable .. Len(journal) :
          /\ journal' = SubSeq(journal, 1, n)
          /\ durable' = n
          /\ torn' \in {torn, torn \/ n < Len(journal)}
    BY <1>19 DEF PowerLoss
  <2>2. n \in Nat /\ n <= Len(journal)
    BY <2>1 DEF TypeOK
  <2>3. journal' \in Seq(Events) /\ Len(journal') = n
    BY <2>1, <2>2 DEF TypeOK
  <2>4. torn' \in BOOLEAN
    BY <2>1, Zenon DEF TypeOK
  <2> QED BY <1>19, <2>1, <2>2, <2>3, <2>4, StoppedType DEF PowerLoss, TypeOK
<1>20. ASSUME Close PROVE TypeOK'
  <2>1. [m \in MemoryIDs |-> Current(m)] \in [MemoryIDs -> Rows]
    BY DEF Current, TypeOK
  <2>2. file' \in Files
    BY <1>20, <2>1 DEF Close, FlushedAll, TypeOK, Files
  <2> QED BY <1>20, <2>2, StoppedType DEF Close, TypeOK
<1>21. ASSUME Refuse PROVE TypeOK'
  BY <1>21 DEF Refuse, TypeOK
<1>22. ASSUME Open PROVE TypeOK'
  <2>1. memories' \in [MemoryIDs -> Rows]
    BY <1>22, ReplayType DEF Open, TypeOK, Files
  <2>2. proposals' \in [Requests -> Proposals]
    BY <1>22, ProposalTypes DEF Open, TypeOK, Files
  <2>3. evidence' \in SUBSET EvidenceLinks
    BY <1>22, LinksType DEF Open, TypeOK, Files
  <2>4. continuity' \in SUBSET Nat /\ seq' \in Nat
    BY <1>22, RevisionsType DEF Open, TypeOK, Files
  <2>5. lane' \in Lanes
    BY <1>22, LaneTypes DEF Open, LaneSteps, FlushStages
  <2> QED BY <1>22, <2>1, <2>2, <2>3, <2>4, <2>5 DEF Open, TypeOK
<1>23. ASSUME OpenFails PROVE TypeOK'
  <2>1. file' \in Files
    BY <1>23, FlushedType DEF OpenFails, TypeOK
  <2> QED BY <1>23, <2>1, StoppedType DEF OpenFails, TypeOK
<1>24. ASSUME Serve PROVE TypeOK'
  <2>1. memories' \in [MemoryIDs -> Rows] /\ index' \in [MemoryIDs -> Rows]
    BY <1>24 DEF Serve, TypeOK, NoRow, Rows, Lifecycles
  <2>2. evidence' \in SUBSET EvidenceLinks
    BY <1>24 DEF Serve, TypeOK
  <2> QED BY <1>24, <2>1, <2>2, LaneTypes DEF Serve, TypeOK
<1>25. CASE UNCHANGED vars
  BY <1>25 DEF vars, TypeOK
<1> QED
  BY <1>1, <1>2, <1>3, <1>4, <1>5, <1>6, <1>7, <1>8, <1>9, <1>10, <1>11, <1>12,
     <1>13, <1>14, <1>15, <1>16, <1>17, <1>18, <1>19, <1>20, <1>21, <1>22, <1>23,
     <1>24, <1>25 DEF Next

\* Every behaviour of the lane, with any faults, keeps every variable in its type:
\* in particular a replay always finds the last event of every memory it touches
\* (mutation_event.go:325-399).
THEOREM TypeCorrect == Spec => []TypeOK
BY InitType, TypeStep, PTL DEF Spec

-----------------------------------------------------------------------------
\* The configurations in which a commit is a commit: an fsync that fails does
\* not leave its event behind, the machine does not lose what only the process
\* had forgotten, and in low-RAM mode the index that stands in for the rows is
\* never left behind.
CommitsStand ==
  /\ "sync" \notin Faults
  /\ ~({"kill", "power"} \subseteq Faults)
  /\ LowRAM => Reopened /\ {"flush", "index"} \cap Faults = {}

JournalInv == JournalOK(journal)

LaneInv ==
  /\ phase \in {"down", "refused"} => lane.step = "idle"
  /\ phase = "boot" => lane.step \in FlushStages \cup {"index"}
  /\ phase = "up" /\ MuHeld => journal # <<>> /\ lane.event = journal[Len(journal)]
  /\ phase = "up" /\ LowRAM => lane.step # "memories"
  /\ lane.step = "commit" => Decision(lane.event)
  /\ lane.step \in {"commit", "reject"} => lane.event.proposal \notin Proposers(journal)
  /\ lane.step = "reject" => lane.event.proposal # NoRequest
  /\ lane.way = "submit" => lane.event.proposal # NoRequest

DurableInv == "kill" \notin Faults => Len(AppliedLog) <= durable

\* In low-RAM mode the index lags until the last stage of the refresh.
IndexedLog == IF MuHeld THEN SubSeq(journal, 1, Len(journal) - 1) ELSE journal

MapsInv ==
  phase \in {"up", "boot"} =>
    /\ seq = Len(AppliedLog)
    /\ IF LowRAM /\ phase = "up" THEN index = Replay(ImportedRows, IndexedLog)
       ELSE memories = Replay(ImportedRows, AppliedLog) /\ evidence = Links(AppliedLog)
    /\ continuity = Revisions(AppliedLog)
    /\ \A r \in Proposers(AppliedLog) : proposals[r].status \in {"APPLIED", "REJECTED"}

ProposalInv ==
  \A r \in Requests :
    /\ proposals[r].status = "APPLIED" => r \in Proposers(AppliedLog)
    /\ proposals[r] = Rejected("COMMIT_FAILED_PRE_EVENT") => r \notin Proposers(journal)
    /\ file.proposals[r].status = "APPLIED" => r \in Proposers(AppliedLog)

\* What is on disk runs ahead of no event.
FileInv ==
  /\ \A m \in MemoryIDs : Touching(AppliedLog, m) = {} => file.memories[m] = ImportedRows[m]
  /\ file.evidence \subseteq Links(AppliedLog)
  /\ file.continuity \subseteq Revisions(AppliedLog)
  /\ told \subseteq Proposers(AppliedLog)

IInv == TypeOK /\ JournalInv /\ LaneInv /\ DurableInv /\ MapsInv /\ ProposalInv /\ FileInv

\* What the maps reflect, and what the journal holds beyond it.
LEMMA Logs ==
  ASSUME IInv
  PROVE  /\ AppliedLog \in Seq(Events)
         /\ lane.step # "written" => AppliedLog = journal
         /\ lane.step = "written" =>
              /\ phase = "up"
              /\ lane.event \in Events
              /\ journal = Append(AppliedLog, lane.event)
              /\ Len(journal) = Len(AppliedLog) + 1
         /\ Links(AppliedLog) \subseteq Links(journal)
         /\ Revisions(AppliedLog) \subseteq Revisions(journal)
         /\ Proposers(AppliedLog) \subseteq Proposers(journal)
         /\ \A m : Touching(AppliedLog, m) \subseteq Touching(journal, m)
<1>1. journal \in Seq(Events) /\ lane.event \in Events
  BY LaneTypes DEF IInv, TypeOK
<1>2. CASE lane.step = "written"
  <2>1. phase = "up" /\ MuHeld
    BY <1>2 DEF IInv, LaneInv, TypeOK, FlushStages, MuHeld
  <2>2. journal # <<>> /\ lane.event = journal[Len(journal)]
    BY <2>1 DEF IInv, LaneInv
  <2>3. AppliedLog = SubSeq(journal, 1, Len(journal) - 1)
    BY <1>2 DEF AppliedLog
  <2>4. /\ AppliedLog \in Seq(Events)
        /\ Len(AppliedLog) = Len(journal) - 1
        /\ journal = Append(AppliedLog, lane.event)
    BY <1>1, <2>2, <2>3, LastSplits
  <2>5. /\ Links(AppliedLog) \subseteq Links(journal)
        /\ Revisions(AppliedLog) \subseteq Revisions(journal)
        /\ Proposers(AppliedLog) \subseteq Proposers(journal)
    BY <1>1, <2>4, AppendGrows
  <2>6. \A m : Touching(AppliedLog, m) \subseteq Touching(journal, m)
    BY <1>1, <2>4, TouchingAppend
  <2>7. Len(journal) = Len(AppliedLog) + 1
    BY <1>1, <2>4
  <2> QED BY <1>1, <1>2, <2>1, <2>4, <2>5, <2>6, <2>7
<1>3. CASE lane.step # "written"
  BY <1>1, <1>3 DEF AppliedLog
<1> QED BY <1>2, <1>3

\* What a handler reads of a memory is what the journal says of it.
LEMMA CurrentRows ==
  ASSUME IInv, phase = "up", lane.step \in {"idle", "commit"}, NEW m \in MemoryIDs
  PROVE  Current(m) = Replay(ImportedRows, journal)[m]
<1>1. ~MuHeld /\ AppliedLog = journal /\ IndexedLog = journal
  BY DEF MuHeld, FlushStages, AppliedLog, IndexedLog
<1> QED BY <1>1 DEF Current, IInv, MapsInv

\* The inductive invariant holds after the import.
LEMMA InitInv == CommitsStand /\ Init => IInv
<1> SUFFICES ASSUME CommitsStand, Init PROVE IInv
  OBVIOUS
<1>1. TypeOK
  BY InitType
<1>2. AppliedLog = <<>> /\ IndexedLog = <<>> /\ journal = <<>> /\ ~MuHeld
  BY DEF Init, AppliedLog, IndexedLog, IdleLane, MuHeld, FlushStages
<1>3. JournalInv
  BY <1>2, EmptyLog DEF JournalInv, JournalOK
<1>4. LaneInv
  BY <1>2 DEF Init, LaneInv, IdleLane, FlushStages
<1>5. DurableInv
  BY <1>2 DEF DurableInv, Init
<1>6. MapsInv
  BY <1>2, EmptyLog DEF MapsInv, Init, CommitsStand
<1>7. ProposalInv
  BY DEF ProposalInv, Init, NoProposal, Rejected
<1>8. FileInv
  BY <1>2, EmptyLog DEF FileInv, Init
<1> QED BY <1>1, <1>3, <1>4, <1>5, <1>6, <1>7, <1>8 DEF IInv

\* A step that leaves the journal and what is derived from it alone.
LEMMA QuietStep ==
  ASSUME IInv, TypeOK', LaneInv',
         phase = "up", phase' = "up", ~MuHeld, ~MuHeld',
         UNCHANGED <<journal, durable, index, memories, evidence, continuity, seq>>,
         told' \subseteq told \cup Proposers(journal),
         file' = file \/ SaveProposals,
         \A r \in Requests :
           \/ proposals'[r] = proposals[r]
           \/ proposals'[r] = Rejected("REVIEWER_REJECTED")
           \/ r \notin Proposers(journal) /\ proposals'[r].status # "APPLIED"
  PROVE  IInv'
<1>1. /\ AppliedLog = journal /\ IndexedLog = journal
      /\ AppliedLog' = journal /\ IndexedLog' = journal
  BY DEF AppliedLog, IndexedLog, MuHeld
<1>2. JournalInv'
  BY DEF IInv, JournalInv
<1>3. DurableInv'
  BY <1>1 DEF IInv, DurableInv
<1>4. MapsInv'
  <2>1. \A r \in Proposers(journal) : proposals'[r].status \in {"APPLIED", "REJECTED"}
    <3>1. Proposers(journal) \subseteq Requests
      BY ProposersType DEF IInv, TypeOK
    <3> QED BY <1>1, <3>1 DEF IInv, MapsInv, Rejected
  <2> QED BY <1>1, <2>1 DEF IInv, MapsInv
<1>5. ProposalInv'
  <2>1. \A r \in Requests :
          /\ proposals'[r].status = "APPLIED" => r \in Proposers(journal)
          /\ proposals'[r] = Rejected("COMMIT_FAILED_PRE_EVENT") => r \notin Proposers(journal)
    BY <1>1 DEF IInv, ProposalInv, Rejected
  <2>2. file'.proposals = file.proposals \/ file'.proposals = proposals'
    BY DEF SaveProposals, IInv, TypeOK, Files
  <2> QED BY <1>1, <2>1, <2>2 DEF IInv, ProposalInv
<1>6. FileInv'
  <2>1. /\ file'.memories = file.memories
        /\ file'.evidence = file.evidence
        /\ file'.continuity = file.continuity
    BY DEF SaveProposals, IInv, TypeOK, Files
  <2> QED BY <1>1, <2>1 DEF IInv, FileInv
<1> QED BY <1>2, <1>3, <1>4, <1>5, <1>6 DEF IInv

\* What the handlers decide is what the request asks for (server.go:631-694).
LEMMA DecisionsMade ==
  ASSUME TypeOK, NEW r \in Requests, NEW e \in Mutations(r) \cup Promotions(r)
  PROVE  Decision(e) /\ e.proposal = r /\ e.proposal # NoRequest
<1>1. r.target \in MemoryIDs \cup {NoMemory} /\ r # NoRequest
  BY RequestAssumption, IdentityAssumption
<1>2. Fresh \subseteq MemoryIDs /\ NoMemory \notin MemoryIDs
  BY IdentityAssumption DEF Fresh
<1>3. CASE r.kind = "REMEMBER" /\ \E m \in Fresh : e = Decided(r, m, NoMemory, "ACTIVE")
  <2>1. PICK m \in Fresh : e = Decided(r, m, NoMemory, "ACTIVE")
    BY <1>3
  <2>2. e.proposal = r /\ e.new = m /\ e.target = NoMemory
    BY <1>2, <2>1, DecidedType DEF Lifecycles
  <2> QED BY <1>1, <1>2, <1>3, <2>2 DEF Decision
<1>4. CASE r.kind = "REMEMBER" /\ \E m \in MemoryIDs : e = Decided(r, NoMemory, m, "ACTIVE")
  <2>1. PICK m \in MemoryIDs : e = Decided(r, NoMemory, m, "ACTIVE")
    BY <1>4
  <2>2. e.proposal = r /\ e.new = NoMemory /\ e.target = m /\ e.life = "ACTIVE"
    BY <1>2, <2>1, DecidedType DEF Lifecycles
  <2> QED BY <1>1, <1>2, <1>4, <2>2 DEF Decision
<1>5. CASE r.kind = "CORRECT" /\ \E m \in Fresh : e = Decided(r, m, r.target, "SUPERSEDED")
  <2>1. PICK m \in Fresh : e = Decided(r, m, r.target, "SUPERSEDED")
    BY <1>5
  <2>2. e.proposal = r /\ e.new = m /\ e.target = r.target /\ e.life = "SUPERSEDED"
    BY <1>1, <1>2, <2>1, DecidedType DEF Lifecycles
  <2> QED BY <1>1, <1>2, <1>5, <2>2 DEF Decision
<1>6. CASE r.kind = "FORGET" /\ e = Decided(r, NoMemory, r.target, "FORGOTTEN")
  <2>1. e.proposal = r /\ e.new = NoMemory /\ e.target = r.target /\ e.life = "FORGOTTEN"
    BY <1>1, <1>6, DecidedType DEF Lifecycles
  <2> QED BY <1>1, <1>6, <2>1 DEF Decision
<1> QED BY <1>3, <1>4, <1>5, <1>6, MutationsAre

\* A request that may still be committed has no event yet.
LEMMA NotYetProposed ==
  ASSUME IInv, phase = "up", ~MuHeld, NEW r \in Requests,
         proposals[r].status \in {"NONE", "PENDING"}
  PROVE  r \notin Proposers(journal)
<1>1. AppliedLog = journal
  BY DEF AppliedLog, MuHeld
<1> QED BY <1>1 DEF IInv, MapsInv

\* An identical request is answered and changes nothing else (server.go:593-596).
LEMMA ReplayedInv ==
  ASSUME IInv, TypeOK', NEW r \in Requests, Replayed(r)
  PROVE  IInv'
<1>1. phase = "up" /\ ~MuHeld /\ phase' = "up" /\ ~MuHeld'
  BY DEF Replayed, LaneFree, Serving, MuHeld
<1>2. AppliedLog = journal
  BY <1>1 DEF AppliedLog, MuHeld
<1>3. LaneInv'
  BY <1>1 DEF Replayed, IInv, LaneInv, disk
<1>4. told' \subseteq told \cup Proposers(journal)
  BY <1>2 DEF Replayed, IInv, ProposalInv
<1> QED BY <1>1, <1>3, <1>4, QuietStep DEF Replayed, disk, maps

\* A new request waits for a reviewer (server.go:600-621).
LEMMA StageInv ==
  ASSUME IInv, TypeOK', NEW r \in Requests, NEW reason \in {"INTENT", "REVIEW"},
         Stage(r, reason)
  PROVE  IInv'
<1>1. phase = "up" /\ ~MuHeld /\ phase' = "up" /\ ~MuHeld'
  BY DEF Stage, Admits, LaneFree, Serving, MuHeld
<1>2. LaneInv'
  BY <1>1 DEF Stage, IInv, LaneInv, disk
<1>3. r \notin Proposers(journal)
  BY <1>1, NotYetProposed DEF Stage, Admits
<1>4. \A q \in Requests :
        \/ proposals'[q] = proposals[q]
        \/ q \notin Proposers(journal) /\ proposals'[q].status # "APPLIED"
  BY <1>3 DEF Stage, Propose, Pending, IInv, TypeOK
<1> QED BY <1>1, <1>2, <1>4, QuietStep DEF Stage, disk, SaveProposalsFails

\* A decision: from here on the mutation waits for its commit.
LEMMA CommitsInv ==
  ASSUME IInv, LaneFree, journal' = journal, phase' = phase,
         NEW e \in Events, Decision(e), e.proposal \notin Proposers(journal),
         NEW way \in Ways, way = "submit" => e.proposal # NoRequest,
         Commits(e, way)
  PROVE  phase = "up" /\ ~MuHeld /\ phase' = "up" /\ ~MuHeld' /\ LaneInv'
<1>1. phase = "up" /\ ~MuHeld
  BY DEF LaneFree, Serving
<1>2. lane'.step = "commit" /\ lane'.event = e /\ lane'.way = way
  BY DEF Commits
<1>3. ~MuHeld'
  BY <1>2 DEF MuHeld, FlushStages
<1> QED BY <1>1, <1>2, <1>3 DEF LaneInv, IInv

\* A verified request is staged and decided (server.go:631-694).
LEMMA SubmitInv ==
  ASSUME IInv, TypeOK', NEW r \in Requests, Submit(r)
  PROVE  IInv'
<1>1. phase = "up" /\ ~MuHeld /\ phase' = "up"
  BY DEF Submit, Admits, LaneFree, Serving
<1>2. r \notin Proposers(journal)
  BY <1>1, NotYetProposed DEF Submit, Admits
<1>3. \A q \in Requests :
        \/ proposals'[q] = proposals[q]
        \/ q \notin Proposers(journal) /\ proposals'[q].status # "APPLIED"
  BY <1>2 DEF Submit, Propose, Pending, IInv, TypeOK
<1>4. LaneInv' /\ ~MuHeld'
  <2>1. CASE UNCHANGED lane
    BY <1>1, <2>1 DEF Submit, IInv, LaneInv, disk, MuHeld
  <2>2. ASSUME NEW way \in {"submit", "promote"}, NEW e \in Mutations(r) \cup Promotions(r),
               Commits(e, way)
        PROVE  LaneInv' /\ ~MuHeld'
    <3>1. e \in Events /\ Decision(e) /\ e.proposal = r /\ e.proposal # NoRequest
      BY MutationsType, DecisionsMade DEF IInv
    <3>2. LaneFree /\ journal' = journal /\ phase' = phase
      BY DEF Submit, Admits, disk
    <3> QED BY <1>2, <2>2, <3>1, <3>2, CommitsInv DEF Ways
  <2> QED BY <2>1, <2>2 DEF Submit
<1> QED BY <1>1, <1>3, <1>4, QuietStep DEF Submit, disk, SaveProposalsFails

\* A reviewer decides a staged request (server.go:1467-1551).
LEMMA ApproveInv ==
  ASSUME IInv, TypeOK', NEW r \in Requests, Approve(r)
  PROVE  IInv'
<1>1. phase = "up" /\ ~MuHeld /\ phase' = "up"
  BY DEF Approve, LaneFree, Serving
<1>2. r \notin Proposers(journal)
  BY <1>1, NotYetProposed DEF Approve, Pending
<1>3. PICK e \in Mutations(r) : Commits(e, "approve")
  BY DEF Approve
<1>4. e \in Events /\ Decision(e) /\ e.proposal = r
  BY MutationsType, DecisionsMade DEF IInv
<1>5. LaneFree /\ journal' = journal /\ phase' = phase
  BY DEF Approve, disk
<1>6. LaneInv' /\ ~MuHeld'
  BY <1>2, <1>3, <1>4, <1>5, CommitsInv DEF Ways
<1> QED BY <1>1, <1>6, QuietStep DEF Approve, disk, maps

\* A reviewer retires a memory (server.go:1587-1626).
LEMMA RetireInv ==
  ASSUME IInv, TypeOK', NEW m \in MemoryIDs, Retire(m)
  PROVE  IInv'
<1> DEFINE e == Decided(NoRequest, NoMemory, m, "SUPERSEDED")
<1>1. phase = "up" /\ ~MuHeld /\ phase' = "up"
  BY DEF Retire, LaneFree, Serving
<1>2. /\ e \in Events /\ e.proposal = NoRequest /\ e.new = NoMemory
      /\ e.target = m /\ e.life = "SUPERSEDED"
  BY DecidedType DEF IInv, Lifecycles
<1>3. Decision(e) /\ e.proposal \notin Proposers(journal)
  BY <1>2, IdentityAssumption DEF Decision, Proposers
<1>4. LaneFree /\ journal' = journal /\ phase' = phase /\ Commits(e, "retire")
  BY DEF Retire, disk
<1> HIDE DEF e
<1>5. LaneInv' /\ ~MuHeld'
  BY <1>2, <1>3, <1>4, CommitsInv DEF Ways
<1> QED BY <1>1, <1>5, QuietStep DEF Retire, disk, maps

\* A commit that fails leaves the lane idle or about to reject its proposal.
LEMMA CommitFailsInv ==
  ASSUME IInv, phase = "up", phase' = "up", lane.step = "commit", journal' = journal, CommitFails
  PROVE  ~MuHeld /\ ~MuHeld' /\ LaneInv'
<1>1. \/ lane' = IdleLane
      \/ /\ lane'.step = "reject" /\ lane'.event = lane.event /\ lane'.way = lane.way
         /\ lane.way = "submit"
  BY DEF CommitFails, IInv, TypeOK, Lanes
<1>2. ~MuHeld /\ ~MuHeld'
  BY <1>1 DEF MuHeld, FlushStages, IdleLane
<1>3. LaneInv'
  BY <1>1, <1>2 DEF IInv, LaneInv, IdleLane
<1> QED BY <1>2, <1>3

\* A decision that no longer holds is not written (mutation_event.go:78-108).
LEMMA CommitConflictInv ==
  ASSUME IInv, TypeOK', CommitConflict
  PROVE  IInv'
<1>1. ~MuHeld /\ ~MuHeld' /\ LaneInv'
  BY CommitFailsInv DEF CommitConflict, disk
<1> QED BY <1>1, QuietStep DEF CommitConflict, disk, maps

\* An append that fails writes no event (mutation_event.go:188-211).
LEMMA AppendFailsInv ==
  ASSUME IInv, TypeOK', AppendFails
  PROVE  IInv'
<1>1. ~MuHeld /\ ~MuHeld' /\ LaneInv'
  BY CommitFailsInv DEF AppendFails
<1> QED BY <1>1, QuietStep DEF AppendFails, maps

\* The proposal of a failed commit has no event to contradict (server.go:680-683).
LEMMA RejectFailedCommitInv ==
  ASSUME IInv, TypeOK', RejectFailedCommit
  PROVE  IInv'
<1>1. phase = "up" /\ phase' = "up" /\ ~MuHeld /\ ~MuHeld'
  BY DEF RejectFailedCommit, MuHeld, FlushStages, IdleLane
<1>2. lane.event.proposal \notin Proposers(journal)
  BY DEF RejectFailedCommit, IInv, LaneInv
<1>3. \A q \in Requests :
        \/ proposals'[q] = proposals[q]
        \/ q \notin Proposers(journal) /\ proposals'[q].status # "APPLIED"
  BY <1>2 DEF RejectFailedCommit, RejectProposal, Rejected, IInv, TypeOK
<1>4. LaneInv'
  BY <1>1 DEF RejectFailedCommit, LaneInv, IdleLane
<1> QED BY <1>1, <1>3, <1>4, QuietStep DEF RejectFailedCommit, disk, SaveProposalsFails

\* A reject handler reads a status and nothing changes (server.go:1553-1566).
LEMMA CheckPendingInv ==
  ASSUME IInv, TypeOK', NEW x \in Rejecters, NEW r \in Requests, CheckPending(x, r)
  PROVE  IInv'
<1>1. phase = "up" /\ phase' = "up" /\ ~MuHeld /\ ~MuHeld'
  BY DEF CheckPending, Serving, MuHeld
<1>2. LaneInv'
  BY <1>1 DEF CheckPending, IInv, LaneInv, disk
<1> QED BY <1>1, <1>2, QuietStep DEF CheckPending, disk, maps

\* A reject handler overwrites whatever the proposal has become (proposal.go:76-89).
LEMMA RejectInv ==
  ASSUME IInv, TypeOK', NEW x \in Rejecters, Reject(x)
  PROVE  IInv'
<1>1. phase = "up" /\ phase' = "up" /\ ~MuHeld /\ ~MuHeld'
  BY DEF Reject, Serving, MuHeld
<1>2. LaneInv'
  BY <1>1 DEF Reject, IInv, LaneInv, disk
<1>3. \A q \in Requests :
        proposals'[q] = proposals[q] \/ proposals'[q] = Rejected("REVIEWER_REJECTED")
  BY DEF Reject, RejectProposal, IInv, TypeOK
<1> QED BY <1>1, <1>2, <1>3, QuietStep DEF Reject, disk, SaveProposalsFails

\* The event is in the journal, and nothing else shows it yet.
LEMMA WriteEventInv ==
  ASSUME IInv, TypeOK', WriteEvent
  PROVE  IInv'
<1>1. PICK n \in 1 .. MaxEvents + 1 :
        LET e == [lane.event EXCEPT !.seq = seq + 1, !.revision = n]
        IN  /\ journal' = Append(journal, e)
            /\ lane' = [lane EXCEPT !.step = "written", !.event = e]
  BY DEF WriteEvent
<1> DEFINE d == lane.event
           e == [d EXCEPT !.seq = seq + 1, !.revision = n]
<1>2. phase = "up" /\ phase' = "up" /\ lane.step = "commit" /\ ~MuHeld
  BY DEF WriteEvent, MuHeld, FlushStages
<1>3. AppliedLog = journal /\ IndexedLog = journal /\ journal \in Seq(Events)
  BY <1>2 DEF AppliedLog, IndexedLog, MuHeld, IInv, TypeOK
<1>4. d \in Events /\ Decision(d) /\ d.proposal \notin Proposers(journal)
  BY <1>2, LaneTypes DEF IInv, LaneInv
<1>5. /\ e \in Events
      /\ e.seq = Len(journal) + 1
      /\ e.new = d.new /\ e.target = d.target /\ e.expected = d.expected
      /\ e.life = d.life /\ e.proposal = d.proposal
  <2>1. n \in Nat /\ seq = Len(journal) /\ seq + 1 \in Nat
    BY <1>2, <1>3, LaneAssumption DEF IInv, MapsInv
  <2> HIDE DEF d
  <2> QED BY <1>4, <2>1 DEF Events
<1>6. journal' = Append(journal, e) /\ lane'.step = "written" /\ lane'.event = e
      /\ lane'.way = lane.way
  BY <1>1 DEF IInv, TypeOK, Lanes
<1> HIDE DEF e
<1>7. Decision(e)
  BY <1>4, <1>5 DEF Decision
<1>8. Meets(Replay(ImportedRows, journal), e)
  <2>1. Committable(d)
    BY DEF WriteEvent
  <2>2. /\ d.new # NoMemory => d.new \in MemoryIDs
        /\ d.target # NoMemory => d.target \in MemoryIDs
    BY <1>4 DEF Events
  <2> QED BY <1>2, <1>5, <2>1, <2>2, CurrentRows DEF Committable, Meets
<1>10. JournalInv'
  BY <1>3, <1>4, <1>5, <1>6, <1>7, <1>8, JournalAppend DEF IInv, JournalInv
<1>11. /\ journal' # <<>>
       /\ Len(journal') = Len(journal) + 1
       /\ journal'[Len(journal')] = e
       /\ SubSeq(journal', 1, Len(journal') - 1) = journal
  BY <1>3, <1>5, <1>6, AppendUndone
<1>12. MuHeld' /\ AppliedLog' = AppliedLog /\ IndexedLog' = IndexedLog
  BY <1>3, <1>6, <1>11 DEF MuHeld, AppliedLog, IndexedLog
<1>13. LaneInv'
  BY <1>2, <1>4, <1>5, <1>6, <1>11, <1>12 DEF LaneInv, IInv
<1>14. DurableInv'
  BY <1>12 DEF DurableInv, WriteEvent, IInv
<1>15. MapsInv'
  BY <1>2, <1>12 DEF MapsInv, IInv, WriteEvent, maps
<1>16. ProposalInv'
  <2>1. Proposers(journal') = Proposers(journal) \cup ({d.proposal} \ {NoRequest})
    BY <1>3, <1>5, <1>6, AppendGrows
  <2>2. d.proposal # NoRequest => proposals[d.proposal].status = "PENDING"
    BY DEF WriteEvent, Committable
  <2> QED BY <1>12, <2>1, <2>2 DEF ProposalInv, IInv, WriteEvent, maps, Rejected
<1>17. FileInv'
  BY <1>12 DEF FileInv, IInv, WriteEvent
<1> QED BY <1>10, <1>13, <1>14, <1>15, <1>16, <1>17 DEF IInv

\* The commit point: maps, proposal and journal agree on one event more.
LEMMA SyncEventInv ==
  ASSUME IInv, TypeOK', SyncEvent
  PROVE  IInv'
<1> DEFINE e == lane.event
           old == AppliedLog
<1>1. /\ lane.step = "written" /\ phase = "up" /\ phase' = "up" /\ MuHeld
      /\ e \in Events /\ old \in Seq(Events)
      /\ journal = Append(old, e) /\ journal' = journal
      /\ Len(journal) = Len(old) + 1
  BY Logs DEF SyncEvent, MuHeld
<1>2. /\ lane'.step = (IF LowRAM THEN "proposals" ELSE "memories")
      /\ lane'.event = e /\ lane'.way = lane.way
  BY DEF SyncEvent, IInv, TypeOK, Lanes
<1>3. MuHeld' /\ AppliedLog' = journal /\ IndexedLog' = IndexedLog
  BY <1>1, <1>2 DEF MuHeld, FlushStages, AppliedLog, IndexedLog
<1>4. JournalInv'
  BY <1>1 DEF IInv, JournalInv
<1>5. LaneInv'
  BY <1>1, <1>2, <1>3 DEF IInv, LaneInv
<1>6. DurableInv'
  BY <1>1, <1>3 DEF SyncEvent, DurableInv
<1> HIDE DEF old
<1>7. /\ Replay(ImportedRows, journal) = ApplyRows(Replay(ImportedRows, old), e)
      /\ Links(journal) = Links(old) \cup Link(e)
      /\ Revisions(journal) = Revisions(old) \cup {e.revision}
      /\ Proposers(journal) = Proposers(old) \cup ({e.proposal} \ {NoRequest})
      /\ \A m : Touching(old, m) \subseteq Touching(journal, m)
  BY <1>1, ReplayAppend, AppendGrows, TouchingAppend, ImportedRowsType
<1>8. Proposers(journal) \subseteq Requests
  BY ProposersType DEF IInv, TypeOK
<1>9. MapsInv'
  <2>1. seq' = Len(journal)
    <3>1. journal[Len(journal)] = e /\ Len(journal) \in DOMAIN journal
      BY <1>1
    <3> QED BY <3>1 DEF SyncEvent, IInv, JournalInv, JournalOK
  <2>2. IF LowRAM THEN index' = index
        ELSE /\ memories' = Replay(ImportedRows, journal)
             /\ evidence' = Links(journal)
    BY <1>1, <1>7 DEF SyncEvent, IInv, MapsInv, old
  <2>3. continuity' = Revisions(journal)
    BY <1>1, <1>7 DEF SyncEvent, IInv, MapsInv, old
  <2>4. \A r \in Proposers(journal) : proposals'[r].status \in {"APPLIED", "REJECTED"}
    BY <1>1, <1>7, <1>8 DEF SyncEvent, IInv, MapsInv, TypeOK, Applied, old
  <2> QED BY <1>1, <1>3, <2>1, <2>2, <2>3, <2>4 DEF MapsInv, IInv
<1>10. ProposalInv'
  <2>1. file' = file
    BY DEF SyncEvent
  <2> QED BY <1>1, <1>3, <1>7, <1>8, <2>1
          DEF SyncEvent, IInv, ProposalInv, TypeOK, Applied, Rejected, old
<1>11. FileInv'
  BY <1>3, <1>7 DEF SyncEvent, IInv, FileInv, old
<1> QED BY <1>4, <1>5, <1>6, <1>9, <1>10, <1>11 DEF IInv

\* One projection rewritten: the file gets what the maps say.
LEMMA FlushProjectionInv ==
  ASSUME IInv, TypeOK', FlushProjection
  PROVE  IInv'
<1>1. /\ lane.step \in FlushStages /\ lane.step # "written"
      /\ lane'.step = NextStage(lane.step) /\ lane'.event = lane.event
      /\ lane'.way = lane.way /\ phase \in {"up", "boot"} /\ phase' = phase
  BY DEF FlushProjection, IInv, TypeOK, Lanes, LaneInv, FlushStages
<1>2. /\ lane'.step \in (FlushStages \ {"memories"}) \cup {"index"}
      /\ lane'.step # "written" /\ lane'.step # "idle"
  BY <1>1 DEF FlushStages, NextStage
<1>3. MuHeld /\ MuHeld' /\ AppliedLog = journal /\ AppliedLog' = journal
      /\ IndexedLog' = IndexedLog
  BY <1>1, <1>2 DEF MuHeld, FlushStages, AppliedLog, IndexedLog, FlushProjection, disk
<1>4. JournalInv' /\ DurableInv' /\ MapsInv'
  BY <1>1, <1>3 DEF FlushProjection, disk, maps, IInv, JournalInv, DurableInv, MapsInv
<1>5. LaneInv'
  BY <1>1, <1>2, <1>3 DEF FlushProjection, disk, IInv, LaneInv, FlushStages
<1>6. ~Skipped(lane.step) /\ lane.step \in {"memories", "evidence"} => ~(LowRAM /\ phase = "up")
  BY DEF Skipped, IInv, LaneInv
<1>7. /\ file'.memories = file.memories \/ file'.memories = Replay(ImportedRows, journal)
      /\ file'.proposals = file.proposals \/ file'.proposals = proposals
      /\ file'.evidence = file.evidence \/ file'.evidence = Links(journal)
      /\ file'.continuity = file.continuity \/ file'.continuity = Revisions(journal)
  BY <1>1, <1>3, <1>6
     DEF FlushProjection, Flushed, FlushStages, IInv, TypeOK, Files, MapsInv
<1>8. ProposalInv'
  BY <1>3, <1>7 DEF FlushProjection, disk, maps, IInv, ProposalInv
<1>9. FileInv'
  BY <1>3, <1>7, ReplayUntouched DEF FlushProjection, disk, IInv, FileInv
<1> QED BY <1>4, <1>5, <1>8, <1>9 DEF IInv

\* A refresh ends, however far it came: what the maps say is what was answered.
LEMMA AnsweredInv ==
  ASSUME IInv, TypeOK', UNCHANGED <<disk, maps, phase>>, phase = "up",
         lane.step \in FlushStages \cup {"index"}, Answered,
         LowRAM => index' = Replay(ImportedRows, journal),
         \A m \in MemoryIDs : Touching(journal, m) = {} => file'.memories[m] = ImportedRows[m],
         file'.proposals \in {file.proposals, proposals},
         file'.evidence \subseteq Links(journal),
         file'.continuity \subseteq Revisions(journal)
  PROVE  IInv'
<1> USE DEF disk, maps
<1>1. lane' = IdleLane /\ MuHeld /\ ~MuHeld'
  BY DEF Answered, MuHeld, IdleLane, FlushStages
<1>2. AppliedLog = journal /\ AppliedLog' = journal /\ IndexedLog' = journal
  BY <1>1 DEF AppliedLog, IndexedLog, IdleLane, FlushStages
<1>3. JournalInv' /\ DurableInv' /\ MapsInv'
  BY <1>2 DEF IInv, JournalInv, DurableInv, MapsInv
<1>4. LaneInv'
  BY <1>1 DEF LaneInv, IdleLane, FlushStages
<1>5. ProposalInv'
  BY <1>2 DEF IInv, ProposalInv
<1>6. told' \subseteq Proposers(journal)
  <2>1. journal # <<>> /\ lane.event = journal[Len(journal)]
    BY <1>1 DEF IInv, LaneInv
  <2>2. Len(journal) \in DOMAIN journal
    BY <2>1 DEF IInv, TypeOK
  <2>3. lane.event.proposal # NoRequest => lane.event.proposal \in Proposers(journal)
    BY <2>1, <2>2 DEF Proposers
  <2> QED BY <1>2, <2>3 DEF Answered, IInv, FileInv
<1>7. FileInv'
  BY <1>2, <1>6 DEF FileInv
<1> QED BY <1>3, <1>4, <1>5, <1>7 DEF IInv

\* A projection that could not be rewritten stays as old as it was.
LEMMA FlushFailsInv ==
  ASSUME CommitsStand, IInv, TypeOK', FlushFails
  PROVE  IInv'
<1>1. lane.step \in FlushStages /\ phase = "up" /\ ~LowRAM /\ AppliedLog = journal
  BY DEF FlushFails, CommitsStand, AppliedLog, FlushStages
<1>2. /\ file'.memories = file.memories \/ file'.memories = Replay(ImportedRows, journal)
      /\ file'.proposals = file.proposals \/ file'.proposals = proposals
      /\ file'.evidence = file.evidence \/ file'.evidence = Links(journal)
      /\ file'.continuity = file.continuity \/ file'.continuity = Revisions(journal)
  BY <1>1 DEF FlushFails, Flushed, FlushStages, IInv, TypeOK, Files, MapsInv
<1>3. /\ \A m \in MemoryIDs : Touching(journal, m) = {} => file'.memories[m] = ImportedRows[m]
      /\ file'.evidence \subseteq Links(journal)
      /\ file'.continuity \subseteq Revisions(journal)
  BY <1>1, <1>2, ReplayUntouched DEF IInv, FileInv
<1> QED BY <1>1, <1>2, <1>3, AnsweredInv DEF FlushFails

\* The last projection: in low-RAM mode the rows the next commit is checked against.
LEMMA RefreshIndexInv ==
  ASSUME IInv, TypeOK', RefreshIndex
  PROVE  IInv'
<1>1. lane.step = "index" /\ phase = "up" /\ MuHeld /\ AppliedLog = journal
  BY DEF RefreshIndex, MuHeld, AppliedLog
<1>2. LowRAM => index' = Replay(ImportedRows, journal)
  <2> DEFINE old == SubSeq(journal, 1, Len(journal) - 1)
  <2>1. journal # <<>> /\ lane.event = journal[Len(journal)] /\ journal \in Seq(Events)
    BY <1>1 DEF IInv, LaneInv, TypeOK
  <2>2. /\ old \in Seq(Events) /\ lane.event \in Events
        /\ journal = Append(old, lane.event)
    BY <2>1, LastSplits
  <2>3. Replay(ImportedRows, journal) = ApplyRows(Replay(ImportedRows, old), lane.event)
    BY <2>2, ReplayAppend, ImportedRowsType
  <2>4. LowRAM => index = Replay(ImportedRows, old)
    BY <1>1 DEF IInv, MapsInv, IndexedLog
  <2> QED BY <2>3, <2>4 DEF RefreshIndex
<1>3. /\ \A m \in MemoryIDs : Touching(journal, m) = {} => file'.memories[m] = ImportedRows[m]
      /\ file'.evidence \subseteq Links(journal)
      /\ file'.continuity \subseteq Revisions(journal)
  BY <1>1 DEF RefreshIndex, IInv, FileInv
<1> QED BY <1>1, <1>2, <1>3, AnsweredInv DEF RefreshIndex

\* An index that could not be refreshed is not read outside low-RAM mode.
LEMMA RefreshIndexFailsInv ==
  ASSUME CommitsStand, IInv, TypeOK', RefreshIndexFails
  PROVE  IInv'
<1>1. lane.step = "index" /\ phase = "up" /\ AppliedLog = journal /\ ~LowRAM
  BY DEF RefreshIndexFails, AppliedLog, CommitsStand
<1>2. /\ \A m \in MemoryIDs : Touching(journal, m) = {} => file'.memories[m] = ImportedRows[m]
      /\ file'.evidence \subseteq Links(journal)
      /\ file'.continuity \subseteq Revisions(journal)
  BY <1>1 DEF RefreshIndexFails, IInv, FileInv
<1> QED BY <1>1, <1>2, AnsweredInv DEF RefreshIndexFails

\* What a stopped process leaves behind is a journal that holds every applied event.
LEMMA StoppedInv ==
  ASSUME IInv, TypeOK', Stopped,
         journal' = journal \/ journal' = AppliedLog,
         "kill" \notin Faults => Len(journal') <= durable',
         \A m \in MemoryIDs : Touching(AppliedLog, m) = {} => file'.memories[m] = ImportedRows[m],
         \A r \in Requests : file'.proposals[r].status = "APPLIED" => r \in Proposers(AppliedLog),
         file'.evidence \subseteq Links(AppliedLog),
         file'.continuity \subseteq Revisions(AppliedLog)
  PROVE  IInv'
<1>1. /\ lane' = IdleLane /\ phase' = "down" /\ told' = told
      /\ \A r \in Requests : proposals'[r] = NoProposal
  BY DEF Stopped, Emptied
<1>2. AppliedLog' = journal'
  BY <1>1 DEF AppliedLog, IdleLane
<1>3. /\ Links(AppliedLog) \subseteq Links(journal')
      /\ Revisions(AppliedLog) \subseteq Revisions(journal')
      /\ Proposers(AppliedLog) \subseteq Proposers(journal')
      /\ \A m : Touching(AppliedLog, m) \subseteq Touching(journal', m)
  BY Logs
<1>4. JournalInv'
  <2>1. CASE journal' = journal
    BY <2>1 DEF IInv, JournalInv
  <2>2. CASE journal' # journal
    <3>1. journal' = SubSeq(journal, 1, Len(journal) - 1) /\ lane.step = "written"
      BY <2>2 DEF AppliedLog
    <3>2. journal \in Seq(Events) /\ Len(journal) - 1 \in 0 .. Len(journal)
      BY <3>1, Logs DEF IInv, TypeOK
    <3> QED BY <3>1, <3>2, JournalPrefix DEF IInv, JournalInv
  <2> QED BY <2>1, <2>2
<1>5. LaneInv'
  BY <1>1 DEF LaneInv, IdleLane, MuHeld, FlushStages
<1>6. DurableInv'
  BY <1>2 DEF DurableInv
<1>7. MapsInv'
  BY <1>1 DEF MapsInv
<1>8. ProposalInv'
  <2>1. \A r \in Requests :
          proposals'[r].status # "APPLIED" /\ proposals'[r] # Rejected("COMMIT_FAILED_PRE_EVENT")
    <3>1. NoProposal.status = "NONE" /\ Rejected("COMMIT_FAILED_PRE_EVENT").status = "REJECTED"
      BY DEF NoProposal, Rejected
    <3> QED BY <1>1, <3>1
  <2>2. \A r \in Requests : file'.proposals[r].status = "APPLIED" => r \in Proposers(AppliedLog')
    BY <1>2, <1>3
  <2> QED BY <2>1, <2>2 DEF ProposalInv
<1>9. FileInv'
  BY <1>1, <1>2, <1>3 DEF FileInv, IInv
<1> QED BY <1>4, <1>5, <1>6, <1>7, <1>8, <1>9 DEF IInv

\* The process dies: an event that was written stays.
LEMMA KillInv ==
  ASSUME IInv, TypeOK', Kill
  PROVE  IInv'
<1>1. journal' = journal /\ file' = file /\ "kill" \in Faults
  BY DEF Kill, disk
<1> QED BY <1>1, StoppedInv DEF Kill, IInv, ProposalInv, FileInv

\* The machine dies: at most the event that was not fsynced is lost.
LEMMA PowerLossInv ==
  ASSUME CommitsStand, IInv, TypeOK', PowerLoss
  PROVE  IInv'
<1>1. PICK n \in durable .. Len(journal) : journal' = SubSeq(journal, 1, n) /\ durable' = n
  BY DEF PowerLoss
<1>2. /\ journal \in Seq(Events) /\ Len(journal) \in Nat /\ n \in Nat
      /\ Len(AppliedLog) <= durable /\ durable <= n /\ n <= Len(journal) /\ durable \in Nat
      /\ "kill" \notin Faults
  BY <1>1 DEF PowerLoss, CommitsStand, IInv, DurableInv, TypeOK
<1>3. SubSeq(journal, 1, Len(journal)) = journal
  BY <1>2
<1>4. journal' = journal \/ journal' = AppliedLog
  <2>1. CASE lane.step = "written"
    <3>1. Len(journal) = Len(AppliedLog) + 1 /\ Len(AppliedLog) \in Nat
      BY <2>1, Logs
    <3>2. n = Len(journal) \/ n = Len(journal) - 1
      BY <1>2, <3>1
    <3> QED BY <1>1, <1>3, <2>1, <3>2 DEF AppliedLog
  <2>2. CASE lane.step # "written"
    <3>1. AppliedLog = journal
      BY <2>2 DEF AppliedLog
    <3>2. n = Len(journal)
      BY <1>2, <3>1
    <3> QED BY <1>1, <1>3, <3>2
  <2> QED BY <2>1, <2>2
<1>5. Len(journal') <= durable'
  BY <1>1, <1>2
<1>6. file' = file /\ Stopped
  BY DEF PowerLoss
<1> QED BY <1>4, <1>5, <1>6, StoppedInv DEF IInv, ProposalInv, FileInv

\* Close writes out what the maps say (store.go:529-554).
LEMMA CloseInv ==
  ASSUME IInv, TypeOK', Close
  PROVE  IInv'
<1>1. /\ phase = "up" /\ ~MuHeld /\ AppliedLog = journal /\ IndexedLog = journal
      /\ journal' = journal /\ durable' = durable
  BY DEF Close, Serving, MuHeld, AppliedLog, IndexedLog, disk
<1>2. \A m \in MemoryIDs : Current(m) = Replay(ImportedRows, journal)[m]
  BY <1>1 DEF Current, IInv, MapsInv
<1>3. /\ \/ file'.memories = file.memories
         \/ \A m \in MemoryIDs : file'.memories[m] = Current(m)
      /\ file'.proposals \in {file.proposals, proposals}
      /\ file'.evidence = file.evidence \/ (~LowRAM /\ file'.evidence = evidence)
      /\ file'.continuity \in {file.continuity, continuity}
  <2>1. PICK n \in Lengths : file' = FlushedAll(n, [m \in MemoryIDs |-> Current(m)])
    BY DEF Close
  <2>2. file \in [memories : [MemoryIDs -> Rows], proposals : [Requests -> Proposals],
                  evidence : SUBSET EvidenceLinks, continuity : SUBSET Nat]
    BY DEF IInv, TypeOK, Files
  <2>3. /\ file'.memories = IF n > 0 THEN [m \in MemoryIDs |-> Current(m)] ELSE file.memories
        /\ file'.proposals = IF n > 1 THEN proposals ELSE file.proposals
        /\ file'.continuity = IF n > 2 THEN continuity ELSE file.continuity
        /\ file'.evidence = IF n > 3 /\ ~LowRAM THEN evidence ELSE file.evidence
    BY <2>1, <2>2 DEF FlushedAll
  <2> QED BY <2>3
<1>4. \A m \in MemoryIDs : Touching(journal, m) = {} => file'.memories[m] = ImportedRows[m]
  BY <1>1, <1>2, <1>3, ReplayUntouched DEF IInv, FileInv
<1>5. file'.evidence \subseteq Links(journal) /\ file'.continuity \subseteq Revisions(journal)
  BY <1>1, <1>3 DEF IInv, MapsInv, FileInv
<1>6. Stopped
  BY DEF Close
<1> QED BY <1>1, <1>3, <1>4, <1>5, <1>6, StoppedInv DEF IInv, ProposalInv, DurableInv

\* An opening that fails half-way leaves projections old and new.
LEMMA OpenFailsInv ==
  ASSUME IInv, TypeOK', OpenFails
  PROVE  IInv'
<1>1. /\ phase = "boot" /\ AppliedLog = journal /\ journal' = journal /\ durable' = durable
      /\ lane.step \in FlushStages \cup {"index"}
  BY DEF OpenFails, AppliedLog, FlushStages, disk
<1>2. /\ file'.memories = file.memories \/ file'.memories = Replay(ImportedRows, journal)
      /\ file'.proposals = file.proposals \/ file'.proposals = proposals
      /\ file'.evidence = file.evidence \/ file'.evidence = Links(journal)
      /\ file'.continuity = file.continuity \/ file'.continuity = Revisions(journal)
  BY <1>1 DEF OpenFails, Flushed, FlushStages, IInv, TypeOK, Files, MapsInv
<1>3. \A m \in MemoryIDs : Touching(journal, m) = {} => file'.memories[m] = ImportedRows[m]
  BY <1>1, <1>2, ReplayUntouched DEF IInv, FileInv
<1>4. file'.evidence \subseteq Links(journal) /\ file'.continuity \subseteq Revisions(journal)
  BY <1>1, <1>2 DEF IInv, FileInv
<1>5. \A r \in Requests : file'.proposals[r].status = "APPLIED" => r \in Proposers(journal)
  BY <1>1, <1>2 DEF IInv, ProposalInv
<1>6. Stopped
  BY DEF OpenFails
<1> QED BY <1>1, <1>3, <1>4, <1>5, <1>6, StoppedInv DEF IInv, DurableInv

\* A refused journal is left as it is.
LEMMA RefuseInv ==
  ASSUME IInv, TypeOK', Refuse
  PROVE  IInv'
<1> USE DEF disk, maps
<1>1. phase = "down" /\ phase' = "refused" /\ lane.step = "idle"
  BY DEF Refuse, IInv, LaneInv
<1>2. AppliedLog' = AppliedLog
  BY DEF Refuse, AppliedLog
<1>3. LaneInv'
  BY <1>1 DEF Refuse, IInv, LaneInv
<1>4. JournalInv' /\ DurableInv' /\ MapsInv' /\ ProposalInv' /\ FileInv'
  BY <1>1, <1>2 DEF Refuse, IInv, JournalInv, DurableInv, MapsInv, ProposalInv, FileInv
<1> QED BY <1>3, <1>4 DEF IInv

\* Replay gives the rows the journal says, whatever the age of the projections.
LEMMA OpenInv ==
  ASSUME IInv, TypeOK', Open
  PROVE  IInv'
<1>1. /\ phase = "down" /\ phase' = "boot" /\ lane.step = "idle" /\ AppliedLog = journal
      /\ lane'.step \in {"index", "memories"} /\ lane'.way = "boot"
      /\ journal' = journal /\ file' = file /\ durable' = durable /\ told' = told
      /\ journal \in Seq(Events)
  BY DEF Open, IInv, LaneInv, AppliedLog, IdleLane, disk, TypeOK
<1>2. AppliedLog' = journal
  BY <1>1 DEF AppliedLog
<1>3. JournalInv' /\ DurableInv' /\ FileInv'
  BY <1>1, <1>2 DEF IInv, JournalInv, DurableInv, FileInv
<1>4. LaneInv'
  BY <1>1 DEF LaneInv, FlushStages
<1>5. memories' = Replay(ImportedRows, journal)
  <2>1. \A m \in MemoryIDs : Touching(journal, m) = {} => file.memories[m] = ImportedRows[m]
    BY <1>1 DEF IInv, FileInv
  <2>2. Replay(file.memories, journal) = Replay(ImportedRows, journal)
    BY <2>1, ReplayDependsOnUntouched
  <2> QED BY <2>2 DEF Open
<1>6. evidence' = Links(journal) /\ continuity' = Revisions(journal)
  BY <1>1 DEF Open, IInv, FileInv
<1>7. Proposers(journal) \subseteq Requests
  BY <1>1, ProposersType
<1>8. MapsInv'
  BY <1>1, <1>2, <1>5, <1>6, <1>7 DEF Open, MapsInv, Applied
<1>9. ProposalInv'
  BY <1>1, <1>2 DEF Open, IInv, ProposalInv, Applied, Rejected
<1> QED BY <1>3, <1>4, <1>8, <1>9 DEF IInv

\* openIndex rebuilds the index; low-RAM mode then reads rows from it.
LEMMA ServeInv ==
  ASSUME IInv, TypeOK', Serve
  PROVE  IInv'
<1>1. /\ phase = "boot" /\ phase' = "up" /\ lane.step = "index" /\ lane' = IdleLane
      /\ journal' = journal /\ file' = file /\ durable' = durable /\ told' = told
  BY DEF Serve, disk
<1>2. AppliedLog = journal /\ AppliedLog' = journal /\ IndexedLog' = journal
  BY <1>1 DEF AppliedLog, IndexedLog, IdleLane, MuHeld, FlushStages
<1>3. JournalInv' /\ DurableInv' /\ FileInv'
  BY <1>1, <1>2 DEF IInv, JournalInv, DurableInv, FileInv
<1>4. LaneInv'
  BY <1>1 DEF LaneInv, IdleLane, MuHeld, FlushStages
<1>5. MapsInv' /\ ProposalInv'
  BY <1>1, <1>2 DEF Serve, IInv, MapsInv, ProposalInv
<1> QED BY <1>3, <1>4, <1>5 DEF IInv

\* A step that changes nothing.
LEMMA StutterInv ==
  ASSUME IInv, TypeOK', UNCHANGED vars
  PROVE  IInv'
<1> USE DEF vars, disk, maps
<1>1. AppliedLog' = AppliedLog /\ IndexedLog' = IndexedLog /\ (MuHeld' <=> MuHeld)
  BY DEF AppliedLog, IndexedLog, MuHeld
<1> QED
  BY <1>1 DEF IInv, JournalInv, LaneInv, DurableInv, MapsInv, ProposalInv, FileInv

\* Every step keeps the inductive invariant.
LEMMA InvStep == CommitsStand /\ IInv /\ [Next]_vars => IInv'
<1> SUFFICES ASSUME CommitsStand, IInv, [Next]_vars PROVE IInv'
  OBVIOUS
<1>1. TypeOK'
  BY TypeStep DEF IInv
<1>2. ~SyncFails
  BY DEF SyncFails, CommitsStand
<1> QED
  BY <1>1, <1>2, ReplayedInv, StageInv, SubmitInv, ApproveInv, RetireInv,
     CommitConflictInv, WriteEventInv, AppendFailsInv, SyncEventInv,
     FlushProjectionInv, FlushFailsInv, RefreshIndexInv, RefreshIndexFailsInv,
     RejectFailedCommitInv, CheckPendingInv, RejectInv, KillInv, PowerLossInv,
     CloseInv, RefuseInv, OpenInv, OpenFailsInv, ServeInv, StutterInv
  DEF Next

\* Every behaviour of the lane satisfies the inductive invariant.
LEMMA SpecInv ==
  ASSUME CommitsStand
  PROVE  Spec => []IInv
<1>1. Init => IInv
  BY InitInv
<1>2. IInv /\ [Next]_vars => IInv'
  BY InvStep
<1> QED BY <1>1, <1>2, PTL DEF Spec

-----------------------------------------------------------------------------

\* What one story is to a reader of the journal.
LEMMA StoryTold ==
  ASSUME journal \in Seq(Events), OneStory(journal)
  PROVE  OneSuccessor /\ AppliedOnce
<1>1. AppliedOnce
  BY DEF AppliedOnce, OneStory
<1>2. OneSuccessor
  <2> SUFFICES ASSUME NEW i \in DOMAIN journal, NEW j \in DOMAIN journal, i < j,
                      journal[i].target # NoMemory, journal[i].target = journal[j].target
               PROVE  /\ journal[i].life = "ACTIVE"
                      /\ journal[i].expected < journal[j].expected
    BY DEF OneSuccessor
  <2> DEFINE m == journal[i].target
  <2>1. /\ journal[i] \in Events /\ journal[j] \in Events
        /\ Decision(journal[i]) /\ Decision(journal[j])
        /\ m # journal[i].new /\ m # journal[j].new
    BY DEF OneStory
  <2>2. m \in MemoryIDs /\ journal[i].expected \in Nat /\ journal[j].expected \in Nat
    BY <2>1 DEF Events
  <2>3. i \in Touching(journal, m) /\ j \in Touching(journal, m)
    BY DEF Touching, Touches
  <2>4. Succeeds(journal, i, j, m)
    BY <2>2, <2>3 DEF OneStory
  <2> QED BY <2>1, <2>2, <2>4 DEF Succeeds, RowAfter
<1> QED BY <1>1, <1>2

\* What the invariant says about the journal.
LEMMA InvOnce ==
  ASSUME IInv
  PROVE  OneSuccessor /\ AppliedOnce
<1>1. journal \in Seq(Events) /\ JournalOK(journal)
  BY DEF IInv, TypeOK, JournalInv
<1>2. OneStory(journal)
  BY <1>1 DEF JournalOK, OneStory
<1> QED BY <1>1, <1>2, StoryTold

\* What the invariant says about maps and files.
LEMMA InvState ==
  ASSUME IInv
  PROVE  StateMatchesJournal /\ FailedCommitLeavesNoEvent /\ NoRowWithoutEvent
<1>1. StateMatchesJournal
  BY DEF IInv, MapsInv, StateMatchesJournal
<1>2. FailedCommitLeavesNoEvent
  BY DEF IInv, ProposalInv, FailedCommitLeavesNoEvent
<1>3. NoRowWithoutEvent
  <2>1. \A m \in MemoryIDs \ Imported : ImportedRows[m] = NoRow
    BY DEF ImportedRows
  <2> QED BY <2>1, Logs DEF IInv, FileInv, NoRowWithoutEvent
<1> QED BY <1>1, <1>2, <1>3

\* What the invariant says about answers.
LEMMA InvTold ==
  ASSUME CommitsStand, IInv
  PROVE  ToldAppliedSurvives
<1>1. told \subseteq Proposers(AppliedLog) /\ Proposers(AppliedLog) \subseteq Proposers(journal)
  BY Logs DEF IInv, FileInv
<1>2. CASE "power" \notin Faults
  BY <1>1, <1>2 DEF ToldAppliedSurvives, CommittedLog
<1>3. CASE "power" \in Faults
  <2>1. /\ Len(AppliedLog) <= durable /\ durable \in 0 .. Len(journal)
        /\ journal \in Seq(Events)
    BY <1>3 DEF CommitsStand, IInv, DurableInv, TypeOK
  <2>2. DOMAIN AppliedLog \subseteq DOMAIN SubSeq(journal, 1, durable)
    BY <2>1, Logs
  <2>3. \A i \in DOMAIN AppliedLog : SubSeq(journal, 1, durable)[i] = AppliedLog[i]
    <3>1. \A i \in DOMAIN AppliedLog : AppliedLog[i] = journal[i]
      BY <2>1 DEF AppliedLog
    <3> QED BY <2>1, <2>2, <3>1, Logs
  <2>4. Proposers(AppliedLog) \subseteq Proposers(SubSeq(journal, 1, durable))
    BY <2>2, <2>3 DEF Proposers
  <2> QED BY <1>1, <1>3, <2>4 DEF ToldAppliedSurvives, CommittedLog
<1> QED BY <1>2, <1>3

\* CommitMutation checks a decided mutation against the version it expects and
\* writes the event under the same lock, so of two mutations of one version at
\* most one is ever written (mutation_event.go:69-118).
THEOREM Succession ==
  ASSUME CommitsStand
  PROVE  Spec => []OneSuccessor
<1>1. IInv => OneSuccessor
  BY InvOnce
<1> QED BY <1>1, SpecInv, PTL

\* Retries of a request, rejections that race it, crashes and lost proposals
\* never give it a second event (server.go:593-596, mutation_event.go:78-84).
THEOREM Once ==
  ASSUME CommitsStand
  PROVE  Spec => []AppliedOnce
<1>1. IInv => AppliedOnce
  BY InvOnce
<1> QED BY <1>1, SpecInv, PTL

\* The maps of a running store are its journal replayed over the import, after
\* every commit, failed projection and restart (mutation_event.go:213-399).
THEOREM JournalGoverns ==
  ASSUME CommitsStand
  PROVE  Spec => []StateMatchesJournal
<1>1. IInv => StateMatchesJournal
  BY InvState
<1> QED BY <1>1, SpecInv, PTL

\* No projection on disk holds a governed row that no event accounts for.
THEOREM EventsComeFirst ==
  ASSUME CommitsStand
  PROVE  Spec => []NoRowWithoutEvent
<1>1. IInv => NoRowWithoutEvent
  BY InvState
<1> QED BY <1>1, SpecInv, PTL

\* A proposal the lane rejected because its commit failed has no event
\* (server.go:680-683).
THEOREM CleanFailure ==
  ASSUME CommitsStand
  PROVE  Spec => []FailedCommitLeavesNoEvent
<1>1. IInv => FailedCommitLeavesNoEvent
  BY InvState
<1> QED BY <1>1, SpecInv, PTL

\* A mutation answered as APPLIED is in the part of the journal that no
\* configured failure takes back.
THEOREM AcknowledgedSurvives ==
  ASSUME CommitsStand
  PROVE  Spec => []ToldAppliedSurvives
<1>1. IInv => ToldAppliedSurvives
  BY InvTold
<1> QED BY <1>1, SpecInv, PTL

\* A row that is on disk is a row of the journal's replay.
LEMMA RowsReplayed ==
  ASSUME IInv, NEW m \in MemoryIDs, file.memories[m] # NoRow
  PROVE  Replay(ImportedRows, AppliedLog)[m] # NoRow
<1>1. CASE Touching(AppliedLog, m) = {}
  BY <1>1 DEF IInv, FileInv, Replay
<1>2. CASE Touching(AppliedLog, m) # {}
  <2>1. AppliedLog \in Seq(Events)
    BY Logs DEF IInv, TypeOK
  <2>2. LastTouch(AppliedLog, m) \in DOMAIN AppliedLog
    BY <1>2, <2>1, LastTouchFact DEF Touching
  <2>3. AppliedLog[LastTouch(AppliedLog, m)].expected \in Nat
    <3>1. AppliedLog[LastTouch(AppliedLog, m)] \in Events
      BY <2>1, <2>2
    <3> QED BY <3>1 DEF Events
  <2>4. Replay(ImportedRows, AppliedLog)[m].version # 0
    BY <1>2, <2>3 DEF Replay, RowAfter
  <2> QED BY <2>4 DEF NoRow
<1> QED BY <1>1, <1>2

\* What may be written to memories.jsonl: the map, or at shutdown what is current.
LEMMA RowsWritten ==
  ASSUME TypeOK, [Next]_vars
  PROVE  \/ file'.memories = file.memories
         \/ lane.step = "memories" /\ file'.memories = memories
         \/ Close /\ file'.memories = [m \in MemoryIDs |-> Current(m)]
<1>1. file \in [memories : [MemoryIDs -> Rows], proposals : [Requests -> Proposals],
                evidence : SUBSET EvidenceLinks, continuity : SUBSET Nat]
  BY DEF TypeOK, Files
<1>2. \A stage \in FlushStages :
        \/ Flushed(stage).memories = file.memories
        \/ stage = "memories" /\ Flushed(stage).memories = memories
  BY <1>1 DEF Flushed, FlushStages
<1>3. SaveProposals \/ SaveProposalsFails => file'.memories = file.memories
  BY <1>1 DEF SaveProposals, SaveProposalsFails
<1>4. ASSUME Close
      PROVE  file'.memories = file.memories \/ file'.memories = [m \in MemoryIDs |-> Current(m)]
  BY <1>1, <1>4 DEF Close, FlushedAll
<1>5. ASSUME FlushProjection \/ FlushFails \/ OpenFails
      PROVE  file' = file \/ \E stage \in FlushStages : lane.step = stage /\ file' = Flushed(stage)
  BY <1>5 DEF FlushProjection, FlushFails, OpenFails
<1>6. ASSUME \/ \E r \in Requests : Replayed(r) \/ Approve(r)
             \/ \E m \in MemoryIDs : Retire(m)
             \/ CommitConflict \/ WriteEvent \/ AppendFails \/ SyncFails \/ SyncEvent
             \/ RefreshIndex \/ RefreshIndexFails
             \/ \E x \in Rejecters, r \in Requests : CheckPending(x, r)
             \/ Kill \/ PowerLoss \/ Refuse \/ Open \/ Serve \/ UNCHANGED vars
      PROVE  file' = file
  BY <1>6 DEF Replayed, Approve, Retire, CommitConflict, WriteEvent, AppendFails, SyncFails,
              SyncEvent, RefreshIndex, RefreshIndexFails, CheckPending, Kill, PowerLoss,
              Refuse, Open, Serve, vars
<1>7. ASSUME \/ \E r \in Requests : Submit(r)
             \/ \E r \in Requests, reason \in {"INTENT", "REVIEW"} : Stage(r, reason)
             \/ RejectFailedCommit
             \/ \E x \in Rejecters : Reject(x)
      PROVE  SaveProposals \/ SaveProposalsFails
  BY <1>7 DEF Submit, Stage, RejectFailedCommit, Reject
<1> QED BY <1>2, <1>3, <1>4, <1>5, <1>6, <1>7 DEF Next

\* No refresh, shutdown or restart takes a row out of memories.jsonl, not even in
\* low-RAM mode, where Close has only the index to write from (store.go:910-957), and
\* nor does one that a failing write or a death cuts short.
THEOREM RowsKept ==
  ASSUME CommitsStand
  PROVE  Spec => NothingHardDeleted
<1> DEFINE Kept ==
      \A m \in MemoryIDs : file.memories[m] # NoRow => file'.memories[m] # NoRow
<1>1. ASSUME IInv, [Next]_vars PROVE Kept
  <2> SUFFICES ASSUME NEW m \in MemoryIDs, file.memories[m] # NoRow
               PROVE  file'.memories[m] # NoRow
    OBVIOUS
  <2>1. TypeOK
    BY <1>1 DEF IInv
  <2>2. Replay(ImportedRows, AppliedLog)[m] # NoRow
    BY <1>1, RowsReplayed
  <2>3. CASE lane.step = "memories" /\ file'.memories = memories
    <3>1. phase \in {"up", "boot"} /\ ~(LowRAM /\ phase = "up")
      BY <1>1, <2>1, <2>3 DEF IInv, LaneInv, TypeOK
    <3> QED BY <1>1, <2>2, <2>3, <3>1 DEF IInv, MapsInv
  <2>4. CASE Close /\ file'.memories = [n \in MemoryIDs |-> Current(n)]
    <3>1. phase = "up" /\ ~MuHeld
      BY <2>4 DEF Close, Serving
    <3>2. lane.step \in {"idle", "commit", "reject"}
      BY <2>1, <3>1 DEF TypeOK, Lanes, LaneSteps, MuHeld
    <3>3. AppliedLog = journal /\ IndexedLog = journal
      BY <3>1, <3>2 DEF AppliedLog, IndexedLog
    <3>4. Current(m) = Replay(ImportedRows, journal)[m]
      BY <1>1, <3>1, <3>3 DEF Current, IInv, MapsInv
    <3> QED BY <2>2, <2>4, <3>3, <3>4
  <2> QED BY <1>1, <2>1, <2>3, <2>4, RowsWritten
<1>2. IInv /\ [Next]_vars => [Kept]_vars
  BY <1>1
<1> QED BY <1>2, SpecInv, PTL DEF Spec, NothingHardDeleted

-----------------------------------------------------------------------------
(***************************************************************************)
(* A journal that opens tells one story, whatever failed: also where       *)
(* CommitsStand does not hold, as after an fsync error that left its event *)
(* behind, which the next replay applies although its commit had failed.   *)
(***************************************************************************)

\* Every part of the journal that could be opened, now or when its end is lost.
StoryInv ==
  \A n \in 0 .. Len(journal) :
    Aligned(SubSeq(journal, 1, n)) => OneStory(SubSeq(journal, 1, n))

\* What the process counts: the events it applied, and no event that an fsync
\* error left behind.
CountInv ==
  phase \in {"up", "boot"} =>
    /\ seq <= Len(journal)
    /\ lane.step = "written" =>
         /\ phase = "up" /\ seq < Len(journal)
         /\ lane.event = journal[Len(journal)] /\ lane.event.seq = seq + 1
    /\ lane.step = "commit" => Decision(lane.event)
    /\ phase = "boot" => Aligned(journal) /\ seq = Len(journal)
                         /\ lane.step \in FlushStages \cup {"index"}

\* While no such event is there, the rows and proposals show what was applied.
CountedInv ==
  phase \in {"up", "boot"} /\ seq = Len(AppliedLog) =>
    /\ IF LowRAM /\ phase = "up"
       THEN /\ lane.step \notin {"index"} \cup FlushStages => Reflect(index, AppliedLog)
            /\ lane.step \in {"index"} \cup FlushStages =>
                 /\ journal # <<>> /\ lane.event = journal[Len(journal)]
                 /\ Reflect(index, SubSeq(journal, 1, Len(journal) - 1))
       ELSE Reflect(memories, AppliedLog)
    /\ \A r \in Proposers(AppliedLog) : proposals[r].status \in {"APPLIED", "REJECTED"}

GhostInv == TypeOK /\ StoryInv /\ CountInv /\ CountedInv

\* In low-RAM mode the index that stands in for the rows is never left behind.
RowsStand == LowRAM => {"flush", "index"} \cap Faults = {}

\* A step of a handler that leaves journal, rows and count alone.
LEMMA GhostQuiet ==
  ASSUME GhostInv, TypeOK', phase = "up", phase' = "up", ~MuHeld, ~MuHeld',
         UNCHANGED <<journal, index, memories, seq>>,
         lane'.step = "commit" => Decision(lane'.event),
         \A r \in Requests :
           \/ proposals'[r] = proposals[r]
           \/ proposals'[r].status = "REJECTED"
           \/ proposals[r].status = "NONE"
  PROVE  GhostInv'
<1>1. AppliedLog = journal /\ AppliedLog' = journal
  BY DEF AppliedLog, MuHeld
<1>2. StoryInv'
  BY DEF GhostInv, StoryInv
<1>3. CountInv'
  BY DEF GhostInv, CountInv, MuHeld
<1>4. Proposers(journal) \subseteq Requests
  BY ProposersType DEF GhostInv, TypeOK
<1>5. CountedInv'
  BY <1>1, <1>4 DEF GhostInv, CountedInv, MuHeld
<1> QED BY <1>2, <1>3, <1>5 DEF GhostInv

\* A decision, a refusal to commit it, and a rejection are such steps.
LEMMA GhostDecisions ==
  ASSUME GhostInv, TypeOK',
         \/ \E r \in Requests : Replayed(r) \/ Submit(r) \/ Approve(r)
         \/ \E r \in Requests, reason \in {"INTENT", "REVIEW"} : Stage(r, reason)
         \/ \E m \in MemoryIDs : Retire(m)
  PROVE  GhostInv'
<1>0. TypeOK
  BY DEF GhostInv
<1>1. phase = "up" /\ phase' = "up" /\ ~MuHeld /\ lane.step = "idle"
      /\ UNCHANGED <<journal, index, memories, seq>>
  BY DEF Replayed, Submit, Approve, Stage, Retire, Admits, LaneFree, Serving, disk, maps
<1>2. \/ lane' = lane
      \/ \E e, way : Commits(e, way) /\ Decision(e)
  <2>1. ASSUME NEW r \in Requests, NEW e \in Mutations(r) \cup Promotions(r) PROVE Decision(e)
    BY <1>0, DecisionsMade
  <2>2. ASSUME NEW r \in Requests, Submit(r) \/ Approve(r)
        PROVE  \/ lane' = lane
               \/ \E e, way : Commits(e, way) /\ Decision(e)
    <3>1. lane' = lane \/ \E way : \E e \in Mutations(r) \cup Promotions(r) : Commits(e, way)
      BY <2>2 DEF Submit, Approve
    <3> QED BY <2>1, <3>1
  <2>3. ASSUME NEW m \in MemoryIDs, Retire(m)
        PROVE  \E e, way : Commits(e, way) /\ Decision(e)
    <3> DEFINE e == Decided(NoRequest, NoMemory, m, "SUPERSEDED")
    <3>1. Commits(e, "retire")
      BY <2>3 DEF Retire
    <3>0. "SUPERSEDED" \in Lifecycles
      BY DEF Lifecycles
    <3>2. /\ e.proposal = NoRequest /\ e.new = NoMemory /\ e.target = m /\ e.life = "SUPERSEDED"
      BY <1>0, <3>0, DecidedType
    <3>3. Decision(e)
      BY <3>2, IdentityAssumption DEF Decision
    <3> QED BY <3>1, <3>3
  <2> QED BY <2>2, <2>3 DEF Replayed, Stage
<1>3. ~MuHeld' /\ (lane'.step = "commit" => Decision(lane'.event))
  BY <1>1, <1>2 DEF Commits, MuHeld, FlushStages
<1>4. \A r \in Requests : proposals'[r] = proposals[r] \/ proposals[r].status = "NONE"
  BY <1>0 DEF Replayed, Submit, Approve, Stage, Retire, Admits, Propose, maps, TypeOK
<1> QED BY <1>1, <1>3, <1>4, GhostQuiet

LEMMA GhostRefusals ==
  ASSUME GhostInv, TypeOK',
         \/ CommitConflict \/ AppendFails \/ RejectFailedCommit
         \/ \E x \in Rejecters : Reject(x) \/ \E r \in Requests : CheckPending(x, r)
  PROVE  GhostInv'
<1>0. TypeOK
  BY DEF GhostInv
<1>1. phase = "up" /\ phase' = "up" /\ ~MuHeld /\ UNCHANGED <<journal, index, memories, seq>>
  BY DEF CommitConflict, AppendFails, RejectFailedCommit, Reject, CheckPending, Serving, MuHeld,
         FlushStages, disk, maps
<1>2. lane' = lane \/ lane' = IdleLane \/ lane' = [lane EXCEPT !.step = "reject"]
  BY DEF CommitConflict, AppendFails, RejectFailedCommit, Reject, CheckPending, CommitFails
<1>3. lane' = lane \/ lane'.step \in {"idle", "reject"}
  BY <1>0, <1>2 DEF IdleLane, TypeOK, Lanes
<1>4. ~MuHeld' /\ (lane'.step = "commit" => Decision(lane'.event))
  BY <1>1, <1>3 DEF MuHeld, FlushStages, GhostInv, CountInv
<1>5. \A r \in Requests : proposals'[r] = proposals[r] \/ proposals'[r].status = "REJECTED"
  BY <1>0 DEF CommitConflict, AppendFails, RejectFailedCommit, Reject, CheckPending,
              RejectProposal, Rejected, maps, TypeOK
<1> QED BY <1>1, <1>4, <1>5, GhostQuiet

\* The event an fsync error leaves behind: from now on the count is behind the
\* journal, and whatever is appended next has a number that is taken.
LEMMA GhostSyncFails ==
  ASSUME GhostInv, TypeOK', SyncFails
  PROVE  GhostInv'
<1>1. /\ phase \in {"down", "boot", "up", "refused"} /\ lane \in Lanes /\ lane.step = "written"
      /\ UNCHANGED <<journal, phase, seq>>
  BY DEF GhostInv, TypeOK, SyncFails, disk, maps
<1>2. lane'.step \in {"idle", "reject"}
  BY <1>1 DEF SyncFails, CommitFails, IdleLane, Lanes
<1>3. AppliedLog' = journal
  BY <1>1, <1>2 DEF AppliedLog
<1>4. StoryInv'
  BY <1>1 DEF GhostInv, StoryInv
<1>5. phase = "up" => seq < Len(journal)
  BY <1>1 DEF GhostInv, CountInv
<1>6. phase # "boot"
  BY <1>1 DEF GhostInv, CountInv
<1>7. seq \in Nat /\ Len(journal) \in Nat
  BY DEF GhostInv, TypeOK
<1>8. CountInv'
  BY <1>1, <1>2, <1>5, <1>6 DEF GhostInv, CountInv
<1>9. CountedInv'
  BY <1>1, <1>3, <1>5, <1>6, <1>7 DEF CountedInv
<1> QED BY <1>4, <1>8, <1>9 DEF GhostInv

\* An event is appended: with the next number and checked against rows that show
\* the events before it, or behind an event that already has its number.
LEMMA GhostWrite ==
  ASSUME GhostInv, TypeOK', WriteEvent
  PROVE  GhostInv'
<1>0. TypeOK /\ journal \in Seq(Events) /\ seq \in Nat /\ Len(journal) \in Nat
  BY DEF GhostInv, TypeOK
<1>1. PICK n \in 1 .. MaxEvents + 1 :
        LET e == [lane.event EXCEPT !.seq = seq + 1, !.revision = n]
        IN  /\ journal' = Append(journal, e)
            /\ lane' = [lane EXCEPT !.step = "written", !.event = e]
  BY DEF WriteEvent
<1> DEFINE d == lane.event
           e == [d EXCEPT !.seq = seq + 1, !.revision = n]
<1>2. /\ phase = "up" /\ phase' = "up" /\ lane.step = "commit"
      /\ UNCHANGED <<index, memories, proposals, seq>>
  BY DEF WriteEvent, maps
<1>3. AppliedLog = journal
  BY <1>2 DEF AppliedLog
<1>4. d \in Events /\ Decision(d)
  BY <1>0, <1>2, LaneTypes DEF GhostInv, CountInv
<1>5. /\ e \in Events /\ e.seq = seq + 1
      /\ e.new = d.new /\ e.target = d.target /\ e.expected = d.expected
      /\ e.life = d.life /\ e.proposal = d.proposal
  <2>1. n \in Nat /\ seq + 1 \in Nat
    BY <1>0, LaneAssumption
  <2> HIDE DEF d
  <2> QED BY <1>4, <2>1 DEF Events
<1>6. journal' = Append(journal, e) /\ lane'.step = "written" /\ lane'.event = e
  BY <1>0, <1>1 DEF TypeOK, Lanes
<1> HIDE DEF e
<1>7. Decision(e)
  BY <1>4, <1>5 DEF Decision
<1>8. /\ journal' \in Seq(Events) /\ Len(journal') = Len(journal) + 1
      /\ journal'[Len(journal')] = e /\ AppliedLog' = journal
  BY <1>0, <1>5, <1>6, AppendUndone DEF AppliedLog
<1>9. ASSUME seq = Len(journal), OneStory(journal)
      PROVE  OneStory(journal')
  <2> DEFINE rows == IF LowRAM THEN index ELSE memories
  <2>1. Reflect(rows, journal)
    BY <1>2, <1>3, <1>9 DEF GhostInv, CountedInv, FlushStages
  <2>2. Committable(d)
    BY DEF WriteEvent
  <2>3. /\ d.new # NoMemory => rows[d.new] = NoRow
        /\ d.target # NoMemory => rows[d.target] = [life |-> "ACTIVE", version |-> d.expected]
    BY <2>2 DEF Committable, Current
  <2>4. Meets(rows, e)
    BY <1>5, <2>3 DEF Meets
  <2>5. d.proposal # NoRequest => proposals[d.proposal].status = "PENDING"
    BY <2>2 DEF Committable
  <2>6. \A r \in Proposers(journal) : proposals[r].status \in {"APPLIED", "REJECTED"}
    BY <1>2, <1>3, <1>9 DEF GhostInv, CountedInv
  <2>7. e.proposal \notin Proposers(journal)
    BY <1>5, <2>5, <2>6 DEF Proposers
  <2> HIDE DEF rows
  <2> QED BY <1>0, <1>5, <1>6, <1>7, <1>9, <2>1, <2>4, <2>7, StoryAppend
<1>10. StoryInv'
  <2> SUFFICES ASSUME NEW k \in 0 .. Len(journal'), Aligned(SubSeq(journal', 1, k))
               PROVE  OneStory(SubSeq(journal', 1, k))
    BY DEF StoryInv
  <2>1. CASE k \in 0 .. Len(journal)
    <3>1. SubSeq(journal', 1, k) = SubSeq(journal, 1, k)
      BY <1>0, <1>5, <1>6, <2>1, Prefixes
    <3> QED BY <2>1, <3>1 DEF GhostInv, StoryInv
  <2>2. CASE k = Len(journal) + 1
    <3>1. SubSeq(journal', 1, k) = journal' /\ SubSeq(journal', 1, Len(journal)) = journal
          /\ SubSeq(journal, 1, Len(journal)) = journal
      BY <1>0, <1>5, <1>6, <1>8, <2>2, Prefixes
    <3>2. /\ DOMAIN journal' = 1 .. (Len(journal) + 1)
          /\ DOMAIN journal = 1 .. Len(journal)
          /\ \A i \in DOMAIN journal : journal'[i] = journal[i]
      BY <1>0, <1>5, <1>6
    <3>3. Aligned(journal')
      BY <3>1
    <3>4. journal'[Len(journal) + 1].seq = Len(journal) + 1
      BY <1>0, <3>2, <3>3 DEF Aligned
    <3>5. seq = Len(journal)
      BY <1>0, <1>5, <1>8, <3>4
    <3>6. Aligned(journal)
      BY <1>0, <3>2, <3>3 DEF Aligned
    <3>7. OneStory(journal)
      <4>1. Len(journal) \in 0 .. Len(journal)
        BY <1>0
      <4> QED BY <3>1, <3>6, <4>1 DEF GhostInv, StoryInv
    <3> QED BY <1>9, <3>1, <3>5, <3>7
  <2> QED BY <1>0, <1>8, <2>1, <2>2
<1>11. CountInv'
  <2>1. seq <= Len(journal)
    BY <1>2 DEF GhostInv, CountInv
  <2> QED BY <1>0, <1>2, <1>5, <1>6, <1>8, <2>1 DEF CountInv
<1>12. CountedInv'
  BY <1>2, <1>3, <1>6, <1>8 DEF GhostInv, CountedInv, FlushStages
<1> QED BY <1>10, <1>11, <1>12 DEF GhostInv

\* What the rows are, with the count of the events that were applied.
LEMMA GhostWritten ==
  ASSUME GhostInv, lane.step = "written"
  PROVE  /\ phase # "boot" /\ lane.event \in Events /\ AppliedLog \in Seq(Events)
         /\ phase = "up" => /\ journal = Append(AppliedLog, lane.event)
                            /\ Len(AppliedLog) = Len(journal) - 1
<1>1. TypeOK /\ journal \in Seq(Events)
  BY DEF GhostInv, TypeOK
<1>2. phase # "boot"
  BY DEF GhostInv, CountInv
<1>3. lane.event \in Events
  BY <1>1, LaneTypes
<1>4. AppliedLog = SubSeq(journal, 1, Len(journal) - 1)
  BY DEF AppliedLog
<1>5. AppliedLog \in Seq(Events)
  BY <1>1, <1>4
<1>6. ASSUME phase = "up"
      PROVE  journal = Append(AppliedLog, lane.event) /\ Len(AppliedLog) = Len(journal) - 1
  <2>1. seq < Len(journal) /\ lane.event = journal[Len(journal)] /\ seq \in Nat
    BY <1>1, <1>6 DEF GhostInv, CountInv, TypeOK
  <2>2. journal # <<>>
    BY <1>1, <2>1
  <2> QED BY <1>1, <1>4, <2>1, <2>2, LastSplits
<1> QED BY <1>2, <1>3, <1>5, <1>6

\* The commit point.  An event that is applied behind one that was left behind
\* does not bring the count up to the journal again.
LEMMA GhostSync ==
  ASSUME GhostInv, TypeOK', SyncEvent
  PROVE  GhostInv'
<1> DEFINE e == lane.event
           old == AppliedLog
<1>1. /\ lane.step = "written" /\ UNCHANGED <<journal, phase, index>>
      /\ journal \in Seq(Events) /\ seq \in Nat /\ TypeOK
      /\ proposals \in [Requests -> Proposals]
      /\ phase \in {"down", "boot", "up", "refused"}
  BY DEF SyncEvent, GhostInv, TypeOK
<1>2. /\ phase # "boot" /\ e \in Events /\ old \in Seq(Events)
      /\ phase = "up" => journal = Append(old, e) /\ Len(old) = Len(journal) - 1
  BY <1>1, GhostWritten
<1>3. /\ lane'.step = (IF LowRAM THEN "proposals" ELSE "memories")
      /\ lane'.event = e
  BY <1>1 DEF SyncEvent, TypeOK, Lanes
<1>4. AppliedLog' = journal
  BY <1>1, <1>3 DEF AppliedLog
<1>5. StoryInv'
  BY <1>1 DEF GhostInv, StoryInv
<1>6. phase = "up" => e = journal[Len(journal)] /\ e.seq = seq + 1 /\ seq < Len(journal)
  BY <1>1 DEF GhostInv, CountInv
<1>7. seq' = e.seq
  BY DEF SyncEvent
<1>8. Len(journal) \in Nat
  BY <1>1
<1> HIDE DEF e, old
<1>9. CountInv'
  BY <1>1, <1>2, <1>3, <1>6, <1>7, <1>8 DEF CountInv
<1>10. ASSUME phase = "up", seq' = Len(journal)
       PROVE  /\ IF LowRAM THEN Reflect(index, old) ELSE Reflect(memories', journal)
              /\ \A r \in Proposers(journal) : proposals'[r].status \in {"APPLIED", "REJECTED"}
  <2>1. seq = Len(old)
    BY <1>1, <1>2, <1>6, <1>7, <1>8, <1>10
  <2>2. /\ LowRAM => Reflect(index, old)
        /\ ~LowRAM => Reflect(memories, old)
        /\ \A r \in Proposers(old) : proposals[r].status \in {"APPLIED", "REJECTED"}
    BY <1>1, <1>10, <2>1 DEF GhostInv, CountedInv, old, FlushStages
  <2>3. ~LowRAM => Reflect(memories', journal)
    <3>1. ~LowRAM => memories' = ApplyRows(memories, e)
      BY DEF SyncEvent, e
    <3> QED BY <1>2, <1>10, <2>2, <3>1, ReflectAppend
  <2>4. Proposers(journal) = Proposers(old) \cup ({e.proposal} \ {NoRequest})
    BY <1>2, <1>10, AppendGrows
  <2>5. Proposers(journal) \subseteq Requests
    BY <1>1, ProposersType
  <2>6. proposals' = IF e.proposal = NoRequest THEN proposals
                     ELSE [proposals EXCEPT ![e.proposal] = Applied]
    BY DEF SyncEvent, e
  <2>7. \A r \in Proposers(journal) : proposals'[r].status \in {"APPLIED", "REJECTED"}
    BY <1>1, <2>2, <2>4, <2>5, <2>6 DEF Applied
  <2> QED BY <2>2, <2>3, <2>7
<1>11. ASSUME phase = "up"
       PROVE  journal # <<>> /\ e = journal[Len(journal)] /\ SubSeq(journal, 1, Len(journal) - 1) = old
  BY <1>1, <1>2, <1>6, <1>11 DEF old, AppliedLog
<1>12. CountedInv'
  BY <1>1, <1>2, <1>3, <1>4, <1>10, <1>11 DEF CountedInv, FlushStages
<1> QED BY <1>5, <1>9, <1>12 DEF GhostInv

\* Refreshing the projections, as far as it comes.
LEMMA GhostRefresh ==
  ASSUME RowsStand, GhostInv, TypeOK',
         FlushProjection \/ FlushFails \/ RefreshIndex \/ RefreshIndexFails
  PROVE  GhostInv'
<1>1. /\ lane.step \in FlushStages \cup {"index"} /\ UNCHANGED <<journal, maps, phase>>
      /\ journal \in Seq(Events) /\ TypeOK /\ LowRAM \in BOOLEAN
  BY LaneAssumption DEF FlushProjection, FlushFails, RefreshIndex, RefreshIndexFails, GhostInv, TypeOK, disk
<1>2. AppliedLog = journal
  BY <1>1 DEF AppliedLog, FlushStages
<1>3. \/ FlushProjection /\ lane'.step \in FlushStages \cup {"index"} /\ lane'.event = lane.event
                         /\ index' = index
      \/ phase = "up" /\ lane'.step = "idle" /\ (LowRAM => RefreshIndex)
  <2>1. CASE FlushProjection
    <3>1. NextStage(lane.step) \in FlushStages \cup {"index"}
      BY <2>1 DEF FlushProjection, NextStage, FlushStages
    <3> QED BY <1>1, <2>1, <3>1 DEF FlushProjection, TypeOK, Lanes
  <2>2. CASE ~FlushProjection
    BY <2>2 DEF FlushFails, RefreshIndex, RefreshIndexFails, Answered, IdleLane, RowsStand
  <2> QED BY <2>1, <2>2
<1>4. AppliedLog' = journal
  BY <1>1, <1>3 DEF AppliedLog, FlushStages
<1>5. StoryInv'
  BY <1>1 DEF GhostInv, StoryInv
<1>6. CountInv'
  BY <1>1, <1>3 DEF GhostInv, CountInv, maps, FlushStages
<1>7. ASSUME LowRAM, RefreshIndex, seq = Len(journal)
      PROVE  Reflect(index', journal)
  <2>1. /\ journal # <<>> /\ lane.event = journal[Len(journal)]
        /\ Reflect(index, SubSeq(journal, 1, Len(journal) - 1))
    BY <1>1, <1>2, <1>7 DEF RefreshIndex, GhostInv, CountedInv
  <2>2. index' = ApplyRows(index, lane.event)
    BY <1>7 DEF RefreshIndex
  <2> DEFINE old == SubSeq(journal, 1, Len(journal) - 1)
             e == lane.event
  <2>3. old \in Seq(Events) /\ e \in Events /\ journal = Append(old, e)
    BY <1>1, <2>1, LastSplits
  <2>4. Reflect(index, old) /\ index' = ApplyRows(index, e)
    BY <2>1, <2>2
  <2> HIDE DEF old, e
  <2>5. Reflect(ApplyRows(index, e), Append(old, e))
    BY <2>3, <2>4, ReflectAppend
  <2> QED BY <2>3, <2>4, <2>5
<1>8. CountedInv'
  <2>1. SUFFICES ASSUME phase \in {"up", "boot"}, seq = Len(journal)
                 PROVE  CountedInv'
    BY <1>1, <1>4 DEF CountedInv, maps
  <2>2. \A r \in Proposers(journal) : proposals'[r].status \in {"APPLIED", "REJECTED"}
    BY <1>1, <1>2, <2>1 DEF GhostInv, CountedInv, maps
  <2>3. IF LowRAM /\ phase = "up"
        THEN /\ journal # <<>> /\ lane.event = journal[Len(journal)]
             /\ Reflect(index, SubSeq(journal, 1, Len(journal) - 1))
        ELSE Reflect(memories, journal)
    BY <1>1, <1>2, <2>1 DEF GhostInv, CountedInv
  <2>4. "idle" \notin {"index"} \cup FlushStages
    BY DEF FlushStages
  <2> QED BY <1>1, <1>3, <1>4, <1>7, <2>1, <2>2, <2>3, <2>4 DEF CountedInv, maps
<1> QED BY <1>5, <1>6, <1>8 DEF GhostInv

\* Whatever stops the process, the journal is what it was or a part of it.
LEMMA GhostStopped ==
  ASSUME GhostInv, TypeOK', Kill \/ PowerLoss \/ Close \/ OpenFails \/ Refuse
  PROVE  GhostInv'
<1>1. phase' \in {"down", "refused"}
  BY DEF Kill, PowerLoss, Close, OpenFails, Refuse, Stopped
<1>2. journal \in Seq(Events) /\ durable \in 0 .. Len(journal) /\ Len(journal) \in Nat
  BY DEF GhostInv, TypeOK
<1>3. PICK n \in 0 .. Len(journal) : journal' = SubSeq(journal, 1, n)
  <2>1. CASE PowerLoss
    BY <1>2, <2>1 DEF PowerLoss
  <2>2. CASE ~PowerLoss
    <3>1. journal' = journal
      BY <2>2 DEF Kill, Close, OpenFails, Refuse, disk
    <3> QED BY <1>2, <3>1, Prefixes
  <2> QED BY <2>1, <2>2
<1>4. StoryInv'
  <2>1. Len(journal') = n
    BY <1>2, <1>3, Prefixes
  <2>2. \A k \in 0 .. n : SubSeq(journal', 1, k) = SubSeq(journal, 1, k) /\ k \in 0 .. Len(journal)
    BY <1>2, <1>3, Prefixes
  <2> QED BY <2>1, <2>2 DEF GhostInv, StoryInv
<1>5. CountInv' /\ CountedInv'
  BY <1>1 DEF CountInv, CountedInv
<1> QED BY <1>4, <1>5 DEF GhostInv

\* Opening counts what is in the journal, and the rows show it.
LEMMA GhostOpen ==
  ASSUME GhostInv, TypeOK', Open \/ Serve
  PROVE  GhostInv'
<1>1. journal' = journal /\ journal \in Seq(Events)
  BY DEF Open, Serve, disk, GhostInv, TypeOK
<1>2. StoryInv'
  BY <1>1 DEF GhostInv, StoryInv
<1>3. Proposers(journal) \subseteq Requests
  BY <1>1, ProposersType
<1>4. CASE Open
  <2>1. /\ phase' = "boot" /\ seq' = Len(journal) /\ Aligned(journal)
        /\ memories' = Replay(file.memories, journal)
        /\ \A r \in Proposers(journal) : proposals'[r] = Applied
    BY <1>3, <1>4 DEF Open, Acceptable, Aligned
  <2>2. lane'.step \in {"index", "memories"}
    BY <1>4 DEF Open, IdleLane
  <2>3. Len(journal) \in Nat /\ AppliedLog' = journal
    BY <1>1, <2>2 DEF AppliedLog
  <2>4. CountInv'
    BY <1>1, <2>1, <2>2, <2>3 DEF CountInv, FlushStages
  <2>5. CountedInv'
    BY <1>1, <2>1, <2>3, ReplayReflects DEF CountedInv, Applied
  <2> QED BY <1>2, <2>4, <2>5 DEF GhostInv
<1>5. CASE Serve
  <2>1. /\ phase = "boot" /\ phase' = "up" /\ lane.step = "index" /\ lane'.step = "idle"
        /\ index' = memories /\ (~LowRAM => memories' = memories)
        /\ UNCHANGED <<proposals, seq>>
    BY <1>5 DEF Serve, IdleLane
  <2>2. AppliedLog = journal /\ AppliedLog' = journal
    BY <1>1, <2>1 DEF AppliedLog
  <2>3. /\ Reflect(memories, journal) /\ seq = Len(journal)
        /\ \A r \in Proposers(journal) : proposals[r].status \in {"APPLIED", "REJECTED"}
    BY <2>1, <2>2 DEF GhostInv, CountInv, CountedInv
  <2>4. CountInv'
    BY <1>1, <2>1, <2>3 DEF GhostInv, CountInv
  <2>5. CountedInv'
    BY <1>1, <2>1, <2>2, <2>3 DEF CountedInv, FlushStages
  <2> QED BY <1>2, <2>4, <2>5 DEF GhostInv
<1> QED BY <1>4, <1>5

LEMMA GhostStep == RowsStand /\ GhostInv /\ [Next]_vars => GhostInv'
<1> SUFFICES ASSUME RowsStand, GhostInv, [Next]_vars PROVE GhostInv'
  OBVIOUS
<1>1. TypeOK'
  BY TypeStep DEF GhostInv
<1>2. CASE UNCHANGED vars
  <2>1. AppliedLog' = AppliedLog
    BY <1>2 DEF vars, disk, AppliedLog
  <2> QED BY <1>1, <1>2, <2>1 DEF vars, disk, maps, GhostInv, StoryInv, CountInv, CountedInv
<1> QED
  BY <1>1, <1>2, GhostDecisions, GhostRefusals, GhostSyncFails, GhostWrite, GhostSync,
     GhostRefresh, GhostStopped, GhostOpen DEF Next

\* Whatever failed before - an append that stopped half-way, an fsync error that
\* left its event behind, the process, the machine, in any order - a journal that
\* openStore accepts has no version with two successors and no request twice:
\* an event that was written behind one that had failed has a number that is
\* taken, so loadMutationEvents refuses that journal (mutation_event.go:325-399).
THEOREM OpensToOneStory ==
  ASSUME RowsStand
  PROVE  Spec => []OpensUnambiguous
<1>1. Init => GhostInv
  <2> SUFFICES ASSUME Init PROVE GhostInv
    OBVIOUS
  <2>1. TypeOK
    BY InitType
  <2>2. journal = <<>> /\ phase = "up" /\ lane.step = "idle" /\ seq = 0 /\ AppliedLog = <<>>
    BY DEF Init, IdleLane, AppliedLog
  <2>3. StoryInv
    <3>1. \A n \in 0 .. Len(journal) : SubSeq(journal, 1, n) = <<>>
      BY <2>2
    <3>2. OneStory(<<>>)
      BY EmptyLog DEF OneStory
    <3> QED BY <3>1, <3>2 DEF StoryInv
  <2>4. CountInv
    BY <2>2 DEF CountInv
  <2>5. CountedInv
    BY <2>2, EmptyLog DEF CountedInv, Reflect, FlushStages
  <2> QED BY <2>1, <2>3, <2>4, <2>5 DEF GhostInv
<1>2. GhostInv /\ [Next]_vars => GhostInv'
  BY GhostStep
<1>3. GhostInv => OpensUnambiguous
  <2> SUFFICES ASSUME GhostInv, phase = "boot"
               PROVE  OneSuccessor /\ AppliedOnce
    BY DEF OpensUnambiguous
  <2>1. journal \in Seq(Events) /\ Aligned(journal)
    BY DEF GhostInv, TypeOK, CountInv
  <2>2. Len(journal) \in 0 .. Len(journal) /\ SubSeq(journal, 1, Len(journal)) = journal
    BY <2>1, Prefixes
  <2>3. OneStory(journal)
    BY <2>1, <2>2 DEF GhostInv, StoryInv
  <2> QED BY <2>1, <2>3, StoryTold
<1> QED BY <1>1, <1>2, <1>3, PTL DEF Spec

-----------------------------------------------------------------------------
(***************************************************************************)
(* The refinement: the rows and requests that no configured failure can    *)
(* take back change only as the abstract memory does, one event at a time. *)
(***************************************************************************)

\* The rows after an event that only changes its target, and after a correction.
LEMMA ApplyTarget ==
  ASSUME NEW rows \in [MemoryIDs -> Rows], NEW e, e.new = NoMemory,
         e.target \in MemoryIDs, rows[e.target].version = e.expected
  PROVE  ApplyRows(rows, e) = [rows EXCEPT ![e.target] =
                                 [life |-> e.life, version |-> rows[e.target].version + 1]]
<1> DEFINE row == [life |-> e.life, version |-> rows[e.target].version + 1]
<1>1. ASSUME NEW m \in MemoryIDs
      PROVE  ApplyRows(rows, e)[m] = IF m = e.target THEN row ELSE rows[m]
  BY IdentityAssumption DEF ApplyRows, Touches, RowAfter
<1> HIDE DEF row
<1>2. ApplyRows(rows, e) = [m \in MemoryIDs |-> ApplyRows(rows, e)[m]]
  BY DEF ApplyRows
<1>3. [rows EXCEPT ![e.target] = row] = [m \in MemoryIDs |-> IF m = e.target THEN row ELSE rows[m]]
  OBVIOUS
<1>4. ApplyRows(rows, e) = [rows EXCEPT ![e.target] = row]
  BY <1>1, <1>2, <1>3
<1> QED BY <1>4 DEF row

\* A correction ends its target and creates its replacement.
LEMMA ApplyCorrection ==
  ASSUME NEW rows \in [MemoryIDs -> Rows], NEW e, e.new \in MemoryIDs, e.new # e.target,
         e.target \in MemoryIDs, rows[e.target].version = e.expected
  PROVE  ApplyRows(rows, e) =
           [[rows EXCEPT ![e.target] =
               [life |-> e.life, version |-> rows[e.target].version + 1]]
              EXCEPT ![e.new] = [life |-> "ACTIVE", version |-> 1]]
<1> DEFINE row == [life |-> e.life, version |-> rows[e.target].version + 1]
           new == [life |-> "ACTIVE", version |-> 1]
<1>1. ASSUME NEW m \in MemoryIDs
      PROVE  ApplyRows(rows, e)[m] = IF m = e.new THEN new ELSE IF m = e.target THEN row ELSE rows[m]
  BY DEF ApplyRows, Touches, RowAfter
<1> HIDE DEF row, new
<1>2. ApplyRows(rows, e) = [m \in MemoryIDs |-> ApplyRows(rows, e)[m]]
  BY DEF ApplyRows
<1>3. [[rows EXCEPT ![e.target] = row] EXCEPT ![e.new] = new] =
        [m \in MemoryIDs |-> IF m = e.new THEN new ELSE IF m = e.target THEN row ELSE rows[m]]
  OBVIOUS
<1>4. ApplyRows(rows, e) = [[rows EXCEPT ![e.target] = row] EXCEPT ![e.new] = new]
  BY <1>1, <1>2, <1>3
<1> QED BY <1>4 DEF row, new

\* One event of a well-formed journal is one step of the abstract memory.
LEMMA EventIsMemoryStep ==
  ASSUME NEW log \in Seq(Events), NEW e \in Events, JournalOK(Append(log, e)),
         CommittedLog = log, CommittedLog' = Append(log, e)
  PROVE  Memory!Next
<1> DEFINE rows == Replay(ImportedRows, log)
           effected == Proposers(log)
           after == ApplyRows(rows, e)
<1>1. /\ Replay(ImportedRows, CommittedLog) = rows
      /\ Proposers(CommittedLog) = effected
      /\ Replay(ImportedRows, CommittedLog)' = after
      /\ Proposers(CommittedLog)' = effected \cup ({e.proposal} \ {NoRequest})
  BY ReplayAppend, AppendGrows, ImportedRowsType
<1>2. rows \in [MemoryIDs -> Rows]
  BY ReplayType, ImportedRowsType
<1>3. /\ Decision(e) /\ Meets(rows, e) /\ (e.new # NoMemory => e.new # e.target)
      /\ e.proposal \notin effected
  BY JournalLast
<1>4. /\ e.proposal \in Requests \cup {NoRequest}
      /\ e.new \in MemoryIDs \cup {NoMemory} /\ e.target \in MemoryIDs \cup {NoMemory}
  BY DEF Events
<1> HIDE DEF rows, effected
<1>5. CASE e.proposal = NoRequest
  <2>1. e.new = NoMemory /\ e.target \in MemoryIDs /\ e.life = "SUPERSEDED"
    BY <1>3, <1>4, <1>5 DEF Decision
  <2>2. rows[e.target] = [life |-> "ACTIVE", version |-> e.expected]
    BY <1>3, <2>1, IdentityAssumption DEF Meets
  <2>3. after = [rows EXCEPT ![e.target] = [life |-> "SUPERSEDED", version |-> rows[e.target].version + 1]]
    BY <1>2, <2>1, <2>2, ApplyTarget
  <2>4. Memory!Retire(e.target)
    BY <1>1, <1>5, <2>1, <2>2, <2>3 DEF Memory!Retire, Memory!IsActive, Memory!Ended
  <2> QED BY <2>1, <2>4 DEF Memory!Next
<1>6. CASE e.proposal # NoRequest
  <2> DEFINE r == e.proposal
  <2>1. /\ r \in Requests /\ r \notin effected
        /\ Proposers(CommittedLog)' = effected \cup {r}
        /\ r.target \in MemoryIDs \cup {NoMemory}
        /\ r.kind # "REMEMBER" => r.target \in MemoryIDs
    BY <1>1, <1>3, <1>4, <1>6, RequestAssumption
  <2>2. Memory!Effect(r)
    BY <1>1, <2>1 DEF Memory!Effect
  <2> HIDE DEF r
  <2>3. ASSUME e.new # NoMemory
        PROVE  e.new \in MemoryIDs /\ rows[e.new] = NoRow /\ e.new # e.target
    BY <1>3, <1>4, <2>3 DEF Meets
  <2>4. ASSUME e.target # NoMemory
        PROVE  /\ e.target \in MemoryIDs
               /\ rows[e.target] = [life |-> "ACTIVE", version |-> e.expected]
    BY <1>3, <1>4, <2>4 DEF Meets
  <2>5. CASE r.kind = "REMEMBER" /\ e.new # NoMemory /\ e.target = NoMemory
    <3>1. after = [rows EXCEPT ![e.new] = [life |-> "ACTIVE", version |-> 1]]
      BY <1>2, <2>3, <2>5, IdentityAssumption DEF ApplyRows, Touches, RowAfter
    <3>2. Memory!Remember(r, e.new)
      BY <1>1, <2>2, <2>3, <2>5, <3>1
         DEF Memory!Remember, Memory!Created, Memory!ActiveRow, Memory!NoRow, NoRow
    <3> QED BY <2>1, <2>3, <2>5, <3>2 DEF Memory!Next
  <2>6. CASE r.kind = "REMEMBER" /\ e.new = NoMemory /\ e.target # NoMemory /\ e.life = "ACTIVE"
    <3>1. after = [rows EXCEPT ![e.target] =
                     [life |-> "ACTIVE", version |-> rows[e.target].version + 1]]
      BY <1>2, <2>4, <2>6, ApplyTarget
    <3>2. Memory!Reinforce(r, e.target)
      BY <1>1, <2>2, <2>4, <2>6, <3>1
         DEF Memory!Reinforce, Memory!IsActive, Memory!ActiveRow
    <3> QED BY <2>1, <2>4, <2>6, <3>2 DEF Memory!Next
  <2>7. CASE /\ r.kind = "CORRECT"
             /\ e.new # NoMemory /\ e.target = r.target /\ e.life = "SUPERSEDED"
    <3>1. e.target \in MemoryIDs /\ e.target # NoMemory
      BY <2>1, <2>7, IdentityAssumption
    <3>2. after = [[rows EXCEPT ![e.target] =
                      [life |-> "SUPERSEDED", version |-> rows[e.target].version + 1]]
                     EXCEPT ![e.new] = [life |-> "ACTIVE", version |-> 1]]
      <4>1. /\ e.new \in MemoryIDs /\ e.new # e.target
            /\ rows[e.target].version = e.expected /\ e.life = "SUPERSEDED"
        BY <2>3, <2>4, <2>7, <3>1
      <4>2. ApplyRows(rows, e) =
              [[rows EXCEPT ![e.target] =
                  [life |-> e.life, version |-> rows[e.target].version + 1]]
                 EXCEPT ![e.new] = [life |-> "ACTIVE", version |-> 1]]
        BY <1>2, <3>1, <4>1, ApplyCorrection
      <4> QED BY <4>1, <4>2
    <3>3. Memory!Correct(r, e.new)
      BY <1>1, <2>2, <2>3, <2>4, <2>7, <3>1, <3>2
         DEF Memory!Correct, Memory!IsActive, Memory!Created, Memory!Ended,
             Memory!ActiveRow, Memory!NoRow, NoRow
    <3> QED BY <2>1, <2>3, <2>7, <3>3 DEF Memory!Next
  <2>8. CASE /\ r.kind = "FORGET"
             /\ e.new = NoMemory /\ e.target = r.target /\ e.life = "FORGOTTEN"
    <3>1. e.target \in MemoryIDs /\ e.target # NoMemory
      BY <2>1, <2>8, IdentityAssumption
    <3>0a. rows[e.target] = [life |-> "ACTIVE", version |-> e.expected]
      BY <2>4, <3>1
    <3>0. rows[e.target].version = e.expected /\ e.new = NoMemory /\ e.life = "FORGOTTEN"
      BY <2>8, <3>0a
    <3>2. after = [rows EXCEPT ![e.target] =
                     [life |-> "FORGOTTEN", version |-> rows[e.target].version + 1]]
      BY <1>2, <3>0, <3>1, ApplyTarget
    <3>3. Memory!Forget(r)
      BY <1>1, <2>2, <2>4, <2>8, <3>1, <3>2 DEF Memory!Forget, Memory!IsActive, Memory!Ended
    <3> QED BY <2>1, <2>8, <3>3 DEF Memory!Next
  <2> QED BY <1>3, <1>6, <2>5, <2>6, <2>7, <2>8 DEF Decision, r
<1> QED BY <1>5, <1>6

\* What counts as committed, and when it changes.
LEMMA Committed ==
  ASSUME CommitsStand, IInv
  PROVE  /\ "power" \notin Faults => CommittedLog = journal
         /\ "power" \in Faults => CommittedLog = AppliedLog \/ CommittedLog = journal
         /\ lane.step # "written" => CommittedLog = journal
<1>1. CASE "power" \notin Faults
  BY <1>1, Logs DEF CommittedLog
<1>2. CASE "power" \in Faults
  <2>1. /\ Len(AppliedLog) <= durable /\ durable \in 0 .. Len(journal)
        /\ journal \in Seq(Events) /\ CommittedLog = SubSeq(journal, 1, durable)
    BY <1>2 DEF CommitsStand, IInv, DurableInv, TypeOK, CommittedLog
  <2>2. SubSeq(journal, 1, Len(journal)) = journal
    BY <2>1
  <2>3. CASE lane.step = "written"
    <3>1. Len(journal) = Len(AppliedLog) + 1 /\ Len(AppliedLog) \in Nat
      BY <2>3, Logs
    <3>2. durable = Len(journal) \/ durable = Len(journal) - 1
      BY <2>1, <3>1
    <3> QED BY <1>2, <2>1, <2>2, <2>3, <3>2 DEF AppliedLog
  <2>4. CASE lane.step # "written"
    <3>1. AppliedLog = journal
      BY <2>4 DEF AppliedLog
    <3>2. durable = Len(journal)
      BY <2>1, <3>1
    <3> QED BY <1>2, <2>1, <2>2, <2>4, <3>2
  <2> QED BY <2>3, <2>4
<1> QED BY <1>1, <1>2

\* The imported rows are the initial rows of the abstract memory.
LEMMA MemoryInit ==
  ASSUME Init
  PROVE  Memory!Init
<1>1. CommittedLog = <<>>
  BY DEF Init, CommittedLog
<1> QED BY <1>1, EmptyLog
        DEF Memory!Init, ImportedRows, Memory!ActiveRow, Memory!NoRow, NoRow

\* Every step of the lane is a step of the abstract memory or none.
LEMMA MemoryStep ==
  ASSUME CommitsStand, IInv, IInv', [Next]_vars
  PROVE  [Memory!Next]_(Memory!gvars)
<1>1. ASSUME CommittedLog' = CommittedLog PROVE UNCHANGED Memory!gvars
  BY <1>1 DEF Memory!gvars
<1>2. ASSUME lane.step = "written", CommittedLog = AppliedLog, CommittedLog' = journal
      PROVE  Memory!Next
  <2>1. /\ AppliedLog \in Seq(Events) /\ lane.event \in Events
        /\ journal = Append(AppliedLog, lane.event)
    BY <1>2, Logs
  <2> QED BY <1>2, <2>1, EventIsMemoryStep DEF IInv, JournalInv
<1>3. CASE WriteEvent
  <2>1. lane.step = "commit" /\ lane'.step = "written" /\ CommittedLog = journal
    BY <1>3, Committed DEF WriteEvent, IInv, TypeOK, Lanes
  <2>2. CASE "power" \notin Faults
    <3>1. PICK e : journal' = Append(journal, e) /\ lane'.event = e
      BY <1>3 DEF WriteEvent, IInv, TypeOK, Lanes
    <3>2. e \in Events /\ journal \in Seq(Events)
      BY <3>1 DEF IInv, TypeOK, Lanes
    <3>3. CommittedLog' = journal'
      BY <2>2 DEF CommittedLog
    <3>4. JournalOK(Append(journal, e))
      BY <3>1 DEF IInv, JournalInv
    <3> QED BY <2>1, <3>1, <3>2, <3>3, <3>4, EventIsMemoryStep
  <2>3. CASE "power" \in Faults
    <3>1. /\ journal \in Seq(Events) /\ durable \in 0 .. Len(journal)
          /\ CommittedLog = SubSeq(journal, 1, durable)
          /\ CommittedLog' = SubSeq(journal', 1, durable)
      BY <1>3, <2>3 DEF CommittedLog, IInv, TypeOK, WriteEvent
    <3>2. PICK e : journal' = Append(journal, e) /\ lane'.event = e
      BY <1>3 DEF WriteEvent, IInv, TypeOK, Lanes
    <3>3. SubSeq(Append(journal, e), 1, durable) = SubSeq(journal, 1, durable)
      BY <3>1
    <3> QED BY <1>1, <3>1, <3>2, <3>3
  <2> QED BY <2>2, <2>3
<1>4. CASE SyncEvent
  <2>1. lane.step = "written" /\ lane'.step # "written" /\ journal' = journal
    BY <1>4 DEF SyncEvent, IInv, TypeOK, Lanes
  <2>2. CASE CommittedLog = journal
    <3>1. CommittedLog' = journal
      <4>1. CASE "power" \notin Faults
        BY <2>1, <4>1 DEF CommittedLog
      <4>2. CASE "power" \in Faults
        <5>1. durable' = Len(journal) /\ journal \in Seq(Events)
          BY <1>4 DEF SyncEvent, IInv, TypeOK
        <5> QED BY <2>1, <4>2, <5>1 DEF CommittedLog
      <4> QED BY <4>1, <4>2
    <3> QED BY <1>1, <2>2, <3>1
  <2>3. CASE CommittedLog # journal
    <3>1. "power" \in Faults /\ CommittedLog = AppliedLog
      BY <2>3, Committed
    <3>2. durable' = Len(journal) /\ journal \in Seq(Events)
      BY <1>4 DEF SyncEvent, IInv, TypeOK
    <3>3. CommittedLog' = journal
      BY <2>1, <3>1, <3>2 DEF CommittedLog
    <3> QED BY <1>2, <2>1, <3>1, <3>3
  <2> QED BY <2>2, <2>3
<1>5. CASE PowerLoss
  <2>1. PICK n \in durable .. Len(journal) : journal' = SubSeq(journal, 1, n) /\ durable' = n
    BY <1>5 DEF PowerLoss
  <2>2. /\ journal \in Seq(Events) /\ durable \in Nat /\ n \in Nat /\ n <= Len(journal)
        /\ durable <= n /\ "power" \in Faults /\ Len(AppliedLog) <= durable
    BY <1>5, <2>1 DEF PowerLoss, IInv, TypeOK, CommitsStand, DurableInv
  <2>3. CommittedLog' = SubSeq(journal, 1, n)
    <3>1. SubSeq(SubSeq(journal, 1, n), 1, n) = SubSeq(journal, 1, n)
      BY <2>2
    <3> QED BY <2>1, <2>2, <3>1 DEF CommittedLog
  <2>4. CommittedLog = SubSeq(journal, 1, durable)
    BY <2>2 DEF CommittedLog
  <2>5. CASE n = durable
    BY <1>1, <2>3, <2>4, <2>5
  <2>6. CASE n # durable
    <3>1. SubSeq(journal, 1, Len(journal)) = journal
      BY <2>2
    <3>2. lane.step = "written" /\ Len(journal) = Len(AppliedLog) + 1
      <4>1. lane.step # "written" => AppliedLog = journal
        BY Logs
      <4> QED BY <2>2, <2>6, <4>1, Logs
    <3>3. n = Len(journal) /\ durable = Len(AppliedLog)
      BY <2>2, <2>6, <3>2, Logs
    <3>4. AppliedLog = SubSeq(journal, 1, durable)
      BY <2>2, <3>2, <3>3 DEF AppliedLog
    <3> QED BY <1>2, <2>3, <2>4, <3>1, <3>2, <3>3, <3>4
  <2> QED BY <2>5, <2>6
<1>6. CASE journal' = journal /\ durable' = durable
  BY <1>1, <1>6 DEF CommittedLog
<1>7. \/ journal' = journal /\ durable' = durable
      \/ WriteEvent \/ SyncEvent \/ PowerLoss
  BY DEF Next, vars, disk, Replayed, Stage, Submit, Approve, Retire, CommitConflict,
         AppendFails, SyncFails, FlushProjection, FlushFails, RefreshIndex,
         RefreshIndexFails, RejectFailedCommit, CheckPending, Reject, Kill, Close,
         Refuse, Open, OpenFails, Serve
<1> QED BY <1>3, <1>4, <1>5, <1>6, <1>7

\* The lane implements the abstract governed memory: a request takes effect at
\* most once, at one instant, on the row it was decided on, and a memory that has
\* ended never changes again, whatever fails within CommitsStand.
THEOREM Refinement ==
  ASSUME CommitsStand
  PROVE  Spec => ImplementsGovernedMemory
<1>1. Init => Memory!Init
  BY MemoryInit
<1>2. IInv /\ IInv' /\ [Next]_vars => [Memory!Next]_(Memory!gvars)
  BY MemoryStep
<1> QED BY <1>1, <1>2, SpecInv, PTL DEF Spec, ImplementsGovernedMemory, Memory!Spec
=============================================================================
