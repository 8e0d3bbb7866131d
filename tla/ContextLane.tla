----------------------------- MODULE ContextLane -----------------------------
(***************************************************************************)
(* What a session is shown and told: the wake-up packet, the context       *)
(* packet, the injection of relevant memories before a step, and the diff  *)
(* that follows a continuity cursor.  Each handler takes Store.mu several  *)
(* times; governed mutations commit between any two of them.               *)
(*                                                                         *)
(* A revision is the position of its row in the continuity log, a cursor   *)
(* is what its signature protects, and the size of a text its length.      *)
(***************************************************************************)
EXTENDS Matching

CONSTANTS
  Sessions,       \* pairs of a client and its external id
  Projects,
  Query,          \* what relevance and context requests ask
  Evidence,       \* what an index may say a row is worth, 0 if it does not
  IdentityMax,    \* IdentityHitsMax
  ItemsMax,       \* ReflexCoreMaxItems, ReflexImportantMaxItems
  PacketMax,      \* project and global memories of a context packet
  ItemBudget,     \* ReflexCoreBudget, ReflexImportantBudget
  TextBudget,     \* max_chars of a request
  DeltaRows,      \* how many changes a wake-up packet looks back
  DeltaMax,       \* how many of them ReflexDeltaBudget pays for
  InjectMax,      \* max_memories of a request
  DiffLimits,
  Calls,          \* handler goroutines
  Born,           \* memories that exist at first
  Changing,       \* bound: the memories that are forgotten or reinforced
  MaxEvents       \* bound on requests, commits and failed writes of sessions

ASSUME ContextAssumption ==
  /\ Born \subseteq Ids /\ Changing \subseteq Ids
  /\ \A n \in {IdentityMax, ItemsMax, PacketMax, ItemBudget, TextBudget, DeltaRows, DeltaMax,
               InjectMax, MaxEvents} : n \in Nat
  /\ DeltaRows # 0 /\ DiffLimits \subseteq Nat \ {0}
  /\ Query \in Seq(STRING) /\ Evidence \subseteq Nat

VARIABLES
  continuity,  \* Store.continuity: what each revision changed
  alive,       \* the ACTIVE rows
  gone,        \* the retired ones
  sessions,    \* Store.sessions: the project of each
  unwritten,   \* the sessions that sessions.jsonl has not got
  surfaced,    \* Store.surfaced: what a session was shown, kept in memory only
  calls,       \* the handlers at work
  chain,       \* history: the cursor a session holds and what it was told since
  shown,       \* history: what answers showed a session since the start
  lost,        \* history: the sessions that some start did not find
  events       \* history: how much of MaxEvents is used

vars == <<continuity, alive, gone, sessions, unwritten, surfaced, calls, chain, shown, lost, events>>
store == <<continuity, alive, gone, unwritten, lost>>

-----------------------------------------------------------------------------
(***************************************************************************)
(* Sessions, cursors and changes.                                          *)
(***************************************************************************)
NoProject == ""  \* what belongs to the user, wherever that is
NoSession == [known |-> FALSE, project |-> NoProject]
InProject(project) == [known |-> TRUE, project |-> project]
Project(s) == sessions[s].project

\* A message checkpoint names a project.  One that names none is no conflict.
Conflict(existing, incoming) ==
  incoming # NoProject /\ existing # NoProject /\ existing # incoming

\* Mutant of Upserted: a session that had no project takes the one named.
UpsertedAdopting(row, project) ==
  IF row.known /\ (row.project # NoProject \/ project = NoProject) THEN row ELSE InProject(project)

Upserted(row, project) == IF row.known THEN row ELSE InProject(project)

\* A context packet signs a cursor for its session (1), all others one for
\* the project (2).
Cursor(version, s, revision) ==
  [version |-> version, session |-> IF version = 1 THEN s ELSE "any",
   project |-> Project(s), revision |-> revision]

Accepts(s, cursor) ==
  cursor.project = Project(s) /\ (cursor.version = 1 => cursor.session = s)

ContinuityHead == Len(continuity)
Sees(project, r) == continuity[r].project \in {NoProject, project}
VisibleTo(project) == {r \in DOMAIN continuity : Sees(project, r)}
Between(project, after, upto) == {r \in VisibleTo(project) : after < r /\ r <= upto}

FirstN(seq, n) == SubSeq(seq, 1, Min({n, Len(seq)}))
Newest(seq, n) == SubSeq(seq, Max({1, Len(seq) - n + 1}), Len(seq))

\* ContinuityChanges: what follows a revision, or the newest, first.
ContinuityChanges(after, project, limit, recent) ==
  IF recent THEN Reverse(Newest(InOrder(VisibleTo(project)), limit))
  ELSE FirstN(InOrder(Between(project, after, ContinuityHead)), limit)

\* Mutant of Highest: the next cursor is the head of the log.
HighestIsHead(after, changes) == ContinuityHead

Highest(after, changes) == Max({after} \cup Range(changes))

-----------------------------------------------------------------------------
(***************************************************************************)
(* What fits into an answer.                                               *)
(***************************************************************************)
\* Mutant of Packed: an item that is too large ends nothing and costs nothing.
PackedFree(list, skipped, budget, most, cost) ==
  [kept |-> FirstN(Those(list, Range(list) \ skipped), most), cut |-> FALSE]

\* Items in their order, each while the budget pays for it, at most some.
Taken(a, x, skipped, most, cost) ==
  IF Len(a.kept) = most THEN [a EXCEPT !.cut = TRUE]
  ELSE IF x \in skipped THEN a
  ELSE IF cost[x] > a.left THEN [a EXCEPT !.cut = TRUE]
  ELSE [a EXCEPT !.kept = Append(@, x), !.left = @ - cost[x]]

Packing(list, skipped, budget, most, cost) ==
  LET after[n \in 0 .. Len(list)] ==
        IF n = 0 THEN [kept |-> <<>>, left |-> budget, cut |-> FALSE]
        ELSE Taken(after[n - 1], list[n], skipped, most, cost)
  IN  after

Packed(list, skipped, budget, most, cost) ==
  LET end == Packing(list, skipped, budget, most, cost)[Len(list)]
  IN  [kept |-> end.kept, cut |-> end.cut]

Size == [m \in Ids |-> Len(Facts[m].subject) + Len(Facts[m].content)]

Eligible(m, project) == ~Facts[m].tainted /\ Facts[m].project \in {NoProject, project}
EligibleIn(project) == {m \in alive : Eligible(m, project)}

\* What an index may recall of some rows, and what it says each is worth: any
\* of them, as its candidates are cut by a score that is not the one that ranks
\* them, and a query or a hydration that fails is skipped.
Recalled(rows) == UNION {[some -> Evidence] : some \in SUBSET rows}

\* The hits of a lexical search among them, all rows being equally warm.  What
\* the index says replaces the strength of a fuzzy match.
Fresh == [lifecycle |-> "ACTIVE", disputed |-> FALSE, confidence |-> 1000, activation |-> 1000]
Matches == [m \in Ids |-> ClassifyMatch(m, Query)]
MatchOf(recalled, m) ==
  IF Matches[m].class = Fuzzy /\ recalled[m] > 0 THEN [Matches[m] EXCEPT !.strength = recalled[m]]
  ELSE Matches[m]
Hits(recalled) ==
  LET hit(m) == [m |-> m, class |-> Matches[m].class,
                 key |-> RankKey(m, Fresh, MatchOf(recalled, m), 0)]
  IN  Sorted({hit(m) : m \in {m \in DOMAIN recalled : Matches[m].class > 0}},
             LAMBDA a, b : LessKey(a.key, b.key))

\* The rankings a search may come to, and what it answers.
Rankings(project) == {Hits(recalled) : recalled \in Recalled(EligibleIn(project))}
Searched(ranking, limit) == WithinQuota(ranking, limit, IdentityMax)
IdsOf(hits) == [i \in DOMAIN hits |-> hits[i].m]

\* recentMemories of one scope, the warmest first: here in the order of ids,
\* and without the limit of 50, which is far beyond what a packet holds.
Recent(project, ofProject) ==
  InOrder({m \in EligibleIn(project) : (Facts[m].project # NoProject) = ofProject})

OfProject(list) == Those(list, {m \in Ids : Facts[m].project # NoProject})
OfNone(list) == Those(list, {m \in Ids : Facts[m].project = NoProject})

ImportantKind(kind) == kind \in {"PROJECT_DECISION", "PERSONAL_GOAL", "LESSON"}
Core(list) ==
  Packed(Those(list, {m \in Ids : IdentityKind(Facts[m].kind)}), {}, ItemBudget, ItemsMax, Size)
Important(list) ==
  Packed(Those(list, {m \in Ids : ImportantKind(Facts[m].kind)}), {}, ItemBudget, ItemsMax, Size)

-----------------------------------------------------------------------------
Idle == [pc |-> "idle"]
NoCursor == [version |-> 0, session |-> "any", project |-> NoProject, revision |-> 0]
Nothing == [cursor |-> NoCursor, told |-> <<>>, from |-> 0]

Event == events < MaxEvents /\ events' = events + 1

Created(m) == [target |-> m, project |-> Facts[m].project]

\* Sessions may be older than this process, and hold the cursor of a time
\* when nothing had changed.
Init ==
  /\ continuity = [i \in 1 .. Cardinality(Born) |-> Created(InOrder(Born)[i])]
  /\ alive = Born /\ gone = {}
  /\ sessions \in [Sessions -> {NoSession} \cup {InProject(p) : p \in Projects}]
  /\ surfaced = [s \in Sessions |-> {}]
  /\ calls = [c \in Calls |-> Idle]
  /\ chain = [s \in Sessions |-> IF sessions[s].known
                                 THEN [cursor |-> Cursor(2, s, 0), from |-> 0, told |-> <<>>] ELSE Nothing]
  /\ shown = [s \in Sessions |-> {}]
  /\ unwritten = {} /\ lost = {} /\ events = 0

\* UpsertSession, for a checkpoint of messages: a new session, or the later
\* activity of an old one.  Either writes all sessions, and keeps the new one
\* if that fails.
Checkpoint ==
  \E s \in Sessions, project \in Projects :
    /\ ~(sessions[s].known /\ Conflict(Project(s), project))
    /\ sessions' = [sessions EXCEPT ![s] = Upserted(@, project)]
    /\ \/ unwritten' = {} /\ UNCHANGED events
       \/ ~sessions[s].known /\ unwritten' = unwritten \cup {s} /\ Event
    /\ <<sessions', unwritten'>> # <<sessions, unwritten>>
    /\ UNCHANGED <<continuity, alive, gone, lost, surfaced, calls, chain, shown>>

\* CommitMutation: the rows and the continuity log change together.
Commit(target, rows) ==
  /\ continuity' = Append(continuity, Created(target))
  /\ alive' = rows /\ gone' = gone \cup (alive \ rows)
  /\ Event /\ UNCHANGED <<sessions, unwritten, surfaced, calls, chain, shown, lost>>

Remember == \E m \in Ids \ (alive \cup gone) : Commit(m, alive \cup {m})
Forget == \E m \in alive \cap Changing : Commit(m, alive \ {m})
Reinforce == \E m \in alive \cap Changing : Commit(m, alive)
Correct ==
  \E m \in alive, n \in Ids \ (alive \cup gone) :
    /\ Facts[m].kind = Facts[n].kind /\ Facts[m].project = Facts[n].project
    /\ Commit(n, (alive \ {m}) \cup {n})

-----------------------------------------------------------------------------
(***************************************************************************)
(* A handler finds the session of its own client, and goes on from there.  *)
(***************************************************************************)
Unasked == {"relevance", "strong"}   \* requests of the host, before a step

Begin(c) ==
  \E s \in Sessions, kind \in {"reflex", "context", "recents"} \cup Unasked :
    /\ calls[c].pc \in {"idle", "answered"} /\ sessions[s].known
    /\ calls' = [calls EXCEPT ![c] =
         [pc |-> IF kind \in Unasked THEN "search" ELSE "head", kind |-> kind, session |-> s,
          cursor |-> NoCursor, list |-> <<>>, core |-> <<>>, delta |-> <<>>, read |-> <<>>,
          cut |-> FALSE, wanted |-> {},
          before |-> IF kind \in Unasked THEN shown[s] ELSE {}]]
    /\ Event /\ UNCHANGED <<store, sessions, surfaced, chain, shown>>

\* One step of a handler that only reads.
Becomes(c, from, call) ==
  /\ calls[c].pc = from
  /\ calls' = [calls EXCEPT ![c] = call]
  /\ UNCHANGED <<store, sessions, surfaced, chain, shown, events>>

ReadHead(c) ==
  LET me == calls[c]
      version == IF me.kind = "reflex" THEN 2 ELSE 1
  IN  Becomes(c, "head", [me EXCEPT
        !.cursor = Cursor(version, me.session, ContinuityHead),
        !.pc = CASE me.kind = "reflex" -> "global" [] me.kind = "context" -> "search" [] OTHER -> "project"])

\* The identity of the user, then what matters in the project.
ReadGlobal(c) ==
  LET me == calls[c]
      core == Core(Recent(Project(me.session), FALSE))
  IN  /\ me.pc = "global"
      /\ Becomes(c, "global", [me EXCEPT !.pc = "important", !.core = core.kept, !.cut = core.cut])

ReadImportant(c) ==
  LET me == calls[c]
      important == Important(Recent(Project(me.session), TRUE))
  IN  /\ me.pc = "important"
      /\ Becomes(c, "important",
                 [me EXCEPT !.pc = "delta", !.list = important.kept, !.cut = @ \/ important.cut])

\* The newest changes, the oldest of them first, without those of memories
\* the packet shows anyway.
ReadDelta(c) ==
  LET me == calls[c]
      read == Reverse(ContinuityChanges(0, Project(me.session), DeltaRows, TRUE))
      known == {r \in Range(read) : continuity[r].target \in Range(me.core \o me.list)}
      delta == Packed(read, known, DeltaMax, DeltaRows, [r \in DOMAIN continuity |-> 1])
  IN  /\ me.pc = "delta"
      /\ Becomes(c, "delta",
                 [me EXCEPT !.pc = "mark", !.delta = delta.kept, !.read = read, !.cut = @ \/ delta.cut])

\* The memories of a context packet: hits of its query, or recent ones,
\* which two reads collect and a failing one leaves out.
ReadContext(c) ==
  LET me == calls[c]
      list(hits) == FirstN(OfProject(hits), 2 * PacketMax) \o FirstN(OfNone(hits), PacketMax)
      packed(items) == Packed(items, {}, TextBudget, Len(items), Size)
  IN  /\ me.pc = "search" /\ me.kind = "context"
      /\ \E ranking \in Rankings(Project(me.session)) :
           LET answer == packed(list(IdsOf(Searched(ranking, 12))))
           IN  Becomes(c, "search", [me EXCEPT !.pc = "mark", !.list = answer.kept, !.cut = answer.cut])

ReadProject(c) ==
  LET me == calls[c]
  IN  \/ Becomes(c, "project", [me EXCEPT !.pc = "recent",
                   !.list = FirstN(Recent(Project(me.session), TRUE), 2 * PacketMax)])
      \/ Becomes(c, "project", [me EXCEPT !.pc = "mark"])

ReadRecent(c) ==
  LET me == calls[c]
      list == me.list \o FirstN(Recent(Project(me.session), FALSE), PacketMax)
      packed == Packed(list, {}, TextBudget, Len(list), Size)
  IN  /\ me.pc = "recent"
      /\ \/ Becomes(c, "recent", [me EXCEPT !.pc = "mark", !.list = packed.kept, !.cut = packed.cut])
         \/ Becomes(c, "recent", [me EXCEPT !.pc = "mark", !.list = <<>>])

\* Relevance asks for twice what it may show, before it knows what was
\* shown.  What it should show is what its search recalled, within that reach.
Asked(me, hits) ==
  Those(hits, {h \in Range(hits) : me.kind = "strong" => StrongAutomaticMatch(h, Query)})
Reach(hits) == FirstN(hits, 2 * InjectMax)

Relevance(c) ==
  LET me == calls[c]
  IN  /\ me.pc = "search" /\ me.kind \in Unasked
      /\ \E ranking \in Rankings(Project(me.session)) :
           Becomes(c, "search",
             [me EXCEPT !.pc = "compose",
                        !.read = IdsOf(Asked(me, Searched(ranking, 2 * InjectMax))),
                        !.wanted = Range(IdsOf(Asked(me, Reach(ranking))))])

\* Mutant of SurfacedIn: what any session was shown.
SurfacedInAny(s) == UNION Range(surfaced)

SurfacedIn(s) == surfaced[s]

Compose(c) ==
  LET me == calls[c]
      packed == Packed(me.read, SurfacedIn(me.session), TextBudget, InjectMax, Size)
  IN  /\ me.pc = "compose"
      /\ Becomes(c, "compose",
                 [me EXCEPT !.pc = "mark", !.list = packed.kept, !.cut = packed.cut, !.read = <<>>])

\* Mutant of MarkSurfaced: the loop over the packet ends after its first memory.
MarkSurfacedFirst(s, list) == [surfaced EXCEPT ![s] = @ \cup {m \in list : \A n \in list : m <= n}]

MarkSurfaced(s, list) == [surfaced EXCEPT ![s] = @ \cup list]

\* Mutant of Issued: the cursor is signed when the packet is done.
IssuedLate(me) == IF me.cursor = NoCursor THEN NoCursor ELSE [me.cursor EXCEPT !.revision = ContinuityHead]

Issued(me) == me.cursor

\* What was shown is marked, then answered.  A cursor starts a chain of diffs.
Mark(c) ==
  LET me == calls[c]
      now == Range(me.core \o me.list)
  IN  /\ me.pc = "mark"
      /\ surfaced' = MarkSurfaced(me.session, now)
      /\ shown' = [shown EXCEPT ![me.session] = @ \cup now]
      /\ calls' = [calls EXCEPT ![c] = [me EXCEPT !.pc = "answered", !.cursor = Issued(me)]]
      /\ chain' = IF me.cursor = NoCursor THEN chain
                   ELSE [chain EXCEPT ![me.session] =
                          [cursor |-> Issued(me), from |-> Issued(me).revision, told |-> <<>>]]
      /\ UNCHANGED <<store, sessions, events>>

\* A diff without a cursor shows the newest changes.
DiffRecent ==
  \E s \in Sessions, limit \in DiffLimits :
    LET changes == ContinuityChanges(0, Project(s), limit, TRUE)
        next == Highest(0, changes)
    IN  /\ sessions[s].known
        /\ chain' = [chain EXCEPT ![s] = [cursor |-> Cursor(2, s, next), from |-> next, told |-> <<>>]]
        /\ Event /\ UNCHANGED <<store, sessions, surfaced, calls, shown>>

\* Any session of any client may come with a cursor it got somewhere.
Diff ==
  \E s \in Sessions, t \in Sessions, limit \in DiffLimits :
    /\ sessions[s].known /\ chain[t] # Nothing /\ Accepts(s, chain[t].cursor)
    /\ LET after == chain[t].cursor.revision
           changes == ContinuityChanges(after, Project(s), limit, FALSE)
       IN  chain' = [chain EXCEPT ![s] =
                       [chain[t] EXCEPT !.cursor = Cursor(2, s, Highest(after, changes)),
                                        !.told = @ \o changes]]
    /\ Event /\ UNCHANGED <<store, sessions, surfaced, calls, shown>>

\* A restart keeps what is persisted: rows, changes and, after an exit that
\* wrote them, all sessions.  The handlers and what was surfaced are gone, the
\* clients keep their cursors: those of a project, as a session that is lost
\* gets another id when it comes again.
Restart ==
  \E forgotten \in {{}, unwritten} :
    /\ sessions' = [s \in Sessions |-> IF s \in forgotten THEN NoSession ELSE sessions[s]]
    /\ chain' = [s \in Sessions |-> IF s \in forgotten /\ chain[s].cursor.version = 1 THEN Nothing
                                    ELSE chain[s]]
    /\ lost' = lost \cup forgotten /\ unwritten' = {}
    /\ surfaced' = [s \in Sessions |-> {}] /\ shown' = [s \in Sessions |-> {}]
    /\ calls' = [c \in Calls |-> Idle]
    /\ UNCHANGED <<continuity, alive, gone, events>>

Serve(c) ==
  \/ Begin(c) \/ ReadHead(c) \/ ReadGlobal(c) \/ ReadImportant(c) \/ ReadDelta(c)
  \/ ReadContext(c) \/ ReadProject(c) \/ ReadRecent(c) \/ Relevance(c) \/ Compose(c)
  \/ Mark(c)

Next ==
  \/ Checkpoint \/ Remember \/ Forget \/ Reinforce \/ Correct
  \/ \E c \in Calls : Serve(c)
  \/ DiffRecent \/ Diff \/ Restart

Spec == Init /\ [][Next]_vars

-----------------------------------------------------------------------------
(***************************************************************************)
(* Properties.                                                             *)
(***************************************************************************)
Answered == {c \in Calls : calls[c].pc = "answered"}
Sums(list) == LET sum[n \in 0 .. Len(list)] == IF n = 0 THEN 0 ELSE sum[n - 1] + Size[list[n]] IN sum
SumOf(list) == Sums(list)[Len(list)]

\* The types, and the bounds an answer keeps.
TypeOK ==
  /\ \A r \in DOMAIN continuity : continuity[r] \in [target : Ids, project : {Facts[m].project : m \in Ids}]
  /\ alive \subseteq Ids /\ gone \subseteq Ids \ alive
  /\ unwritten \subseteq Sessions /\ lost \subseteq Sessions
  /\ \A s \in Sessions : surfaced[s] \subseteq Ids /\ sessions[s].known \in BOOLEAN
  /\ events \in 0 .. MaxEvents
  /\ \A c \in Answered :
       LET me == calls[c] IN
       CASE me.kind = "reflex" ->
              /\ Len(me.core) <= ItemsMax /\ Len(me.list) <= ItemsMax /\ Len(me.delta) <= DeltaMax
              /\ SumOf(me.core) <= ItemBudget /\ SumOf(me.list) <= ItemBudget
         [] me.kind \in {"context", "recents"} -> Len(me.list) <= 3 * PacketMax /\ SumOf(me.list) <= TextBudget
         [] OTHER -> Len(me.list) <= InjectMax /\ SumOf(me.list) <= TextBudget

\* Whoever follows a cursor, through whatever sessions, limits and restarts,
\* is told every change its project may see up to the cursor it holds, once
\* and in order, and nothing else.
ToldOnceInOrder ==
  \A s \in Sessions : chain[s] # Nothing =>
    chain[s].told =
      InOrder(Between(chain[s].cursor.project, chain[s].from, chain[s].cursor.revision))

\* The cursor a session was last given is accepted from that session, if no
\* start failed to find the session: one that is lost may come again with
\* another project.
CursorStaysGood ==
  \A s \in Sessions \ lost : chain[s] # Nothing => Accepts(s, chain[s].cursor)

\* A wake-up packet and the diffs from its cursor leave no gap: a change up
\* to the cursor is in the delta, is of a memory the packet shows, fell to
\* a budget the packet admits, or is older than all it looked back on.
WakeUpLeavesNoGap ==
  \A c \in Answered : calls[c].kind = "reflex" =>
    LET me == calls[c] IN
    \A r \in VisibleTo(me.cursor.project) : r <= me.cursor.revision =>
      \/ r \in Range(me.delta)
      \/ continuity[r].target \in Range(me.core \o me.list)
      \/ me.cut
      \/ Len(me.read) = DeltaRows /\ r < me.read[1]

\* What an answer showed a session before a relevance request was made is
\* not injected by it, whatever other requests of the session run beside it.
NotShownAgain ==
  \A c \in Answered : calls[c].kind \in Unasked =>
    Range(calls[c].list) \cap calls[c].before = {}

\* What the search of a request recalled within its reach is injected, unless
\* an answer of this process has shown it to the very session that asks, or the
\* answer says that it is truncated: no other session's answers, no overlapping
\* request and no earlier process make it withhold a memory silently.
NewIsInjected ==
  \A c \in Answered : calls[c].kind \in Unasked /\ ~calls[c].cut =>
    calls[c].wanted \subseteq Range(calls[c].list) \cup shown[calls[c].session]
=============================================================================
