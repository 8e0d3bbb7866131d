# Mindmory Lite in TLA+

TLA+ specifications of `mindmoryd-lite`, the single-process memory daemon of
this repository: what it promises about governed memories and archived
messages, how its journals, projections, locks and restarts keep the promise,
and where they do not. TLC checks the modules on small instances; TLAPS checks
theorems about the mutation lane, the archive, runtime state, keys, vectors and
packets for every value of the constants.
`PROJECT.json` lists the components, the runs, the source lines of every
definition, the hazards, the disagreements found and the theorems.

    tlc -workers 2 -config MCMutationJournal_power.cfg MCMutationJournal
    tlapm MutationJournalProofs.tla

## 1. The system

One process owns `var/data` (a file lock keeps a second one out), keeps every
record kind in Go maps under one mutex, `Store.mu`, and answers HTTP on a
loopback port. Two append-only journals are authoritative: `memory_events.jsonl`
for governed memory and `messages/messages-*.jsonl` for the archive. The other
JSONL files, the SQLite index and the vector generations are projections.

| component | state | operations | interacts with | hard behaviour | correct when |
|---|---|---|---|---|---|
| mutation lane (`server.go`, `proposal.go`) | proposals by request hash | `applyMutation`, promotion of a duplicate, admin approve, reject and retire | holds `mutationMu` around the lane; calls the Store call by call | handlers that read in one Store call and write in another; retries; a failed commit answered as "nothing happened" | one effect per request, one successor per version; answer and journal agree |
| mutation journal (`mutation_event.go`) | `memory_events.jsonl`, sequence, HMAC chain | `CommitMutation`, append, refresh of five projections, `loadMutationEvents` | holds `Store.mu` from the first byte to the last projection | death between write, fsync and any projection; a lying fsync; a torn tail | replay equals what was served; nothing acknowledged is lost |
| JSONL store (`store.go`) | maps, `<kind>.jsonl`, `meta.json` | `openStore`, `flushKindLocked`, `Close`, low-RAM switch | everything | a failed rewrite after the map changed; order of opening steps | files never run ahead of the journal, never lose a row |
| message archive (`message_journal.go`, `queries.go`) | hash-chained segments, `messages_current`, sequence and turn counters | `InsertMessage`, rollover, quarantine, legacy migration | the index answers duplicates, segments hold the rows | failed or partial appends, torn tails, migration interrupted, retries | one row per external id; a restart reads back what was served |
| SQLite projection (`index.go`) | `memories_current`, `messages_current`, evidence, fingerprints | upserts, rebuild at open | sole copy of rows in low-RAM mode | lags or fails after the commit point | equals the canonical rows |
| sessions, metadata | sessions map, session ordinal, `meta.jsonl` | `UpsertSession`, `loadMeta`, `persistMeta` | the ordinal is the decay clock of ranking; the project binds cursors | `meta.jsonl` missing or behind `sessions.jsonl` after a crash | the clock runs forward; a session's cursor stays good |
| runtime memory state (`queries.go`) | confidence, dispute mark, access counts, last use; pending bumps | `RecordAccess`, `BumpAccess`, `FlushAccessBumps`, `ApplyFeedback` | overwritten by promotions; merged again by replay | four copies written at different times, errors dropped | nothing is lost or counted twice beyond the named ways |
| integrity keys (`key_rotation.go`) | active key, `key_rotations.jsonl`, anchor | `SetIntegrityKey`, `RotateIntegrityKey`, snapshot and restore of the journals | the event journal | a command cut between write, fsync and answer | the store opens with the key the operator was told, never with a retired one |
| vector store (`vectorstore/`) | generations, `CURRENT`, records, map lines, committed count | `createGeneration`, `Append`, `Activate`, recovery, search | vector sync, queries without `Store.mu` | failure between record, map line, count and manifest | a generation reopens with what was committed |
| vector sync (`store.go`, `system_status.go`) | rows to embed, status, incident | `SyncVectors` from two routes, sidecar import, rebuilds | releases `Store.mu` around the embedder | rows, model and generation change while it embeds; two routes at once | a hit scores its own vector; a rebuild ends |
| embedders, query cache | cache of query vectors | `Embed`, `get`, `put` | provider, vector generation | eviction and generation switch against a running query | a hit belongs to the current model |
| HTTP guards, ops ring | rate window, ring of events | request admission, `Ops.Record` | every handler | window boundaries | limits hold |
| retrieval and ranking (`server.go`, `index.go`, `retrieval/`) | none of its own | search with expansions, candidates, hydration, fallback scan, vectors, ranking | index, vectors, access records | several reads with changes between them; parts of them fail | nothing ineligible is served; a quiet search is the ranking of what its texts recall |
| context, relevance, continuity (`server.go`, `relevance.go`) | what each session was shown; continuity log; signed cursors | wake-up, context packet, relevance, diff | search, lane, sessions | handlers that read in several calls while changes commit; budgets that cut | every change told once and in order; nothing shown twice, nothing found silently withheld |
| verification gates (`internal/memory`) | none | `VerifyMutation`, evidence checks | lane | gate order | a high-risk mutation is never automatic |
| learner | turn cursor | passes over old turns, submits mutations | lane | repeated pass after a restart | nothing is learned twice |
| importer, snapshots | none | CSV import, copy of the data directory | maps without journals; running store | import against index and segments; torn copies | imported rows survive |
| artifacts, MCP relay, CLI, evaluation | small transition tables; none | lifecycle moves; relayed tool calls | HTTP | retries of a relayed call | see plan |

## 2. Modules

### `GovernedMemory`, `MutationEvents`, `MutationJournal`

`GovernedMemory` is the promise: versioned rows, requests that take effect at
most once, atomically. `MutationEvents` holds the data shared by commit and
replay: events, the rows, evidence links and continuity entries an event
determines, and the replay of a whole journal. `loadMutationEvents` applies the
events one by one, each overwriting the row it names; `Replay` states the outcome,
the row of the last event that touches a memory (the lemma `InOrderIsReplay` justifies
the shorthand).

`MutationJournal` is the lane. State and code:

| variable | code |
|---|---|
| `journal`, `durable`, `torn` | `memory_events.jsonl`; the records already fsynced; a partial last record |
| `file`, `index` | the JSONL projections, each replaced by rename; `memories_current` |
| `memories`, `proposals`, `evidence`, `continuity`, `seq` | the maps of `Store` and `mutationEventSeq` |
| `lane` | the handler inside `mutationMu` and how far `CommitMutation` has come |
| `rejecters` | reject handlers, which take no `mutationMu` |
| `phase` | `boot`, `up`, `down`, `refused` |
| `told` | history: requests that some client was told are APPLIED |

One action per Store call; a Store call that writes several files is one action
per file, because the process can die between them although no other handler can
look in between (`MuHeld`). `Submit`, `Approve` and `Retire` decide on rows of
the index, as `LoadMemoryRow` and `EligibleMemories` do, and commit against the
row `CommitMutation` checks (`Current`), which differ while the index lags.
`VerifyMutation`, the current-turn rule and the evidence checks appear as a free
choice of outcome. The HMAC chain is represented by the sequence check. `Close`
writes the files in the order of `flushAllLocked` and may stop after any of them.

### `MessageLog`, `MessageArchive`

`MessageLog` is the promise: an append-only log in which a key occurs once.
`MessageArchive` models `InsertMessage` from the duplicate check to the answer,
`appendMessageRecordLocked` split at the points where bytes reach the disk
(`Insert` creates the segment, `WriteRecord`, `SyncRecord`, `UpsertMessage`,
`Answer`), the two ways of opening (`OpenSegments`, `OpenLegacy` with `Migrate`
row by row), `Serve` (rebuilding `messages_current`, then low-RAM release) and
`Close`. A segment is its list of records, whether a partial record follows, and
how many records are fsynced. Two appends that run together on one line are
`Glued`. The hash of a row is its identity, since identities are never reused.
A message that conflicts with the content stored under its key is refused
without a change, hence no action. `ensureAppendFile` failing is a `write` fault. It
fsyncs the entry of a new segment in `messages/`, but nobody fsyncs the entry of
`messages/` in the data directory, which the first append creates
(`message_journal.go:131`); the module takes that one to survive a power loss.

### `VectorStore`, `VectorSync`

`VectorStore` has no variables: what a generation directory holds, what an open
`Store` remembers of it, and every outcome of `Append` (`AppendOutcomes`, one per
failing write; `AppendCrashes`, one per write a crash may cut), of recovery and of
verification. `VectorSync` makes steps of them:

| variable | code |
|---|---|
| `rows` | lifecycle of the memories |
| `generations`, `current`, `legacy` | the generation directories, `CURRENT`, the sidecar `vectors.jsonl` |
| `serving`, `issue` | `Store.VectorStore` and `vectorIssue` |
| `refs` | the table `vector_refs` |
| `provider` | the model and vector length the embedder answers with |
| `blocked`, `status` | `semanticBlocked` and the cached system status with its incident |
| `admitted` | a rebuild request that has looked at the status and has not yet tried `vectorRebuildMu` |
| `mu`, `sync` | `Store.mu` across steps, and how far each sync has come |
| `query`, `cache` | a running `vectorHits` and the query vector cache |
| `glitches` | history: the writes that failed in this process |

A sync is `Plan` (under the mutex), `Embedded` (without it) and `Begin`,
`AppendOne`, `Activate`, `Synced` (under it again), from both admin routes and
from the import of the sidecar at a start; queries take no mutex and run between
any two of these.

A rebuild is admitted by the status it sees (`Admit`) and starts when it gets the lock
(`Rebuild`), by when the incident may have gone; one request at a time is between
the two. The import makes a generation of the model and length of a sidecar row, which
need not be the provider's. A record stands for the source whose vector it holds, so a
hit that names another source is a wrong hit.

### `RuntimeState`

The ungoverned fields of a memory in their four copies (`maps`, `file`, `index`,
the row inside a promotion's event), the pending `bumps`, and the session clock
with `sessionsFile` and `meta`. `promotion` is the copy a duplicate's handler took
before `Store.mu`; `CommitMutation` commits it or refuses it (`RefuseMutation`: the
version has moved on, or the append failed). `UpsertSession` gives a new session its
ordinal or writes the rows again for a later activity, which also repairs an earlier
failed write. `owed` adds up what clients did, and `excused` records by which of the
named ways a memory may have lost some of it; `lost` holds the ordinals of sessions
that died unwritten.

### `Matching`, `Search`, `ContextLane`

`Matching` has no variables either: match classes, tokens and phrases, similarity,
decay and activation, rank keys, aliases, relevance. A text is a sequence of atoms
(stemmed words and CJK characters), fractions are in thousandths, BM25 scores are
the share of the query a row holds, and decay is linear between the code's points.
`Search` is `searchMemories` read by read: candidates and hydration for every
expansion, the fallback scan, the vector candidates with their join
(`SemanticCandidates`), their rows one by one (`LoadMemoryRow`), the merge, the access
records, with commits and failing reads between them; `ever` and `behind` record what
was eligible, or was so by the index, at some moment of the search. What is embedded
of an id never changes here, so the comparison of embedding hashes holds; vectors that
are out of date are the subject of `VectorSync`. `Ideal` is the reference in one step:
it ranks what the texts of the query recall, up to `CandidateCap` rows each, with the
vector hits, and cuts. A memory that no text recalls is in neither.

`ContextLane` is what reaches a session: `reflexPacket`, `contextPacket`, the two
relevance routes and `diff`, each split where it takes `Store.mu` anew, and a restart
that forgets what was shown, and any session whose write had failed. Its searches may
miss anything: a ranking (`Rankings`) is of any of the eligible rows (`Recalled`),
since BM25 candidates are capped by a score other than the ranking's and a failing
query or hydration is skipped, and what the index says of a row (`Evidence`) replaces
the strength of a fuzzy match. Aliases are not expanded, so a row that only an
expansion matches is no hit here. A cursor is what its signature protects. Where the
code orders by warmth, the order is by id here, since nothing said of a packet depends
on it.

### `IntegrityKeys`

`memory_events.jsonl` and `key_rotations.jsonl` as records that carry a number,
the identity of the record before them (the hash) and a key (the HMAC); how much
of each is fsynced; and the one process that holds the directory: the daemon, which
appends events and takes snapshots, or the rotation command, which exits.
`offered` holds the keys the operator was led to use, `retired` the ones an
acknowledged rotation replaced. `Restore` starts over from a snapshot with the key
kept beside it.

`MC*.tla` instantiate the modules for TLC. Definitions whose comment begins with
"Mutant of" are used by no specification: each is the definition it names with
a plausible mistake, and shows that a property can fail.

## 3. Runs

Bounds are named constants: `MaxEvents` on the mutation journal, `MaxRows` and
`SegmentSize` on the archive. Three events are enough for a memory to be
created, superseded and its successor touched, and for a request to be retried
after a crash around another one; `project`, where everything but `fsync` may
fail under three kinds of request, stops at two, which is enough for a
version to get two successors or a request two events; three memories are one imported and two new.
Four rows in segments of two give a full segment, a rollover, and a torn record
in either. Kills, restarts and failures are not counted, so any number occurs.
Symmetry is over fresh identities only.

The other modules are bounded by the number of things that may happen:
`MaxEvents` counts crashes, failed writes and changes in `VectorSync` (two, on
two memories and two generations: a failure and what follows from it) and requests,
commits and failed session writes in `ContextLane` (three: a wake-up or injection, a
commit, and the answer that must reflect it; one of the first memories may change,
`Changing`); `MaxCalls` counts calls, crashes and failures in
`RuntimeState` (five: a feedback inside a promotion, a crash and a replay);
`MaxChanges` counts changed rows within a search (two, of one memory; one, of two
memories, in `index_grants`);
`MaxRecords` counts events and rotations together (five: two rotations with events
on either side). The corpus of `MCSearch` holds two names of which one begins the
other, an exact subject in two projects, a pair only the id tells apart, a memory
that policy keeps back, and a term that more memories hold than a candidate query
returns. `search` merges semantic hits as the daemon does by default (`union`); that
its properties hold for the experimental merges too is proved, since `Merges` is any
set of them there.

Passing runs:

| run | mode and faults | properties | shows |
|---|---|---|---|
| `power` | power loss, failing projections | `ToldAppliedSurvives`, `NoRowWithoutEvent`, `ImplementsGovernedMemory` | a commit takes effect exactly at its fsync |
| `project` | failed appends, projections and index, kills, a concurrent rejecter; unindexed import | `TypeOK`, `OneSuccessor`, `AppliedOnce`, `StateMatchesJournal`, `FailedCommitLeavesNoEvent` | all kinds of request, interleaved with rejections and deaths at every step, produce one history; projection failures never reach the answer or the next start |
| `lowram` | index as the only copy; failed appends, kills, also within `Close` | `NothingHardDeleted`, `ImplementsGovernedMemory` | the low-RAM mode is sound as long as no write of the index or a projection fails and the store was reopened since its import (`Reopened`): `Close`, which writes `memories.jsonl` from the index, drops no row, wherever a kill cuts it short |
| `ghost` | fsync errors, partial appends, power loss | `OpensUnambiguous` | a damaged journal is refused or tells one story |
| `archive_power` | power loss, failed appends and projections, an old store that is migrated | `TurnsCountUsers`, `ReloadsWhatItServes`, `AcknowledgedArchived`, `NeverRefuses`, `ImplementsMessageLog` | numbers, chain, map and index agree with the segments after any failure; what a host was told survives; the quarantine suffices when appends fail whole |
| `archive_faults` | everything but power loss | `AnsweredAgain` | while the daemon serves, a retry gets the id it was given |
| `vectors` | two rebuild routes, requests under an older status, import of any model, queries; every failing write, a failing or changed provider, crashes inside an append | `HitsOwnVector`, `CurrentReopens`, `PresentIsFindable`, `BuildingEnds` | what a query scores is the vector it names whatever is swapped under it; only the named failed writes harm a generation; a rebuild comes to an end |
| `runtime` | both memory modes, failing index, file, session and meta writes, crashes | `FeedbackKept`, `CountedOnce`, `ClockRunsForward`, `CopiesAgree` | a crash, a promotion's older copy and a dropped error are the only ways to lose feedback or a count; two ways lead the clock astray: a start that finds sessions and no `meta.jsonl`, and, for the memories that carry its ordinal, a session whose `sessions.jsonl` write failed before a crash |
| `search` | lexical, fallback and semantic modes, the default merge; every read failing, a stale index, changes between reads | `OnlyEligibleServed`, `UndisturbedIsIdeal`, `ExactIsServed`, `WidensOnly` | entitlement holds through every interleaving; the order of reads and candidates changes nothing about the answer; an exact subject is served unless others fill its own quota; expansions only add to the ranking, before the limit |
| `context` | two sessions, two handlers at a time, searches that miss rows, commits, failed session writes, restarts | `TypeOK`, `ToldOnceInOrder`, `CursorStaysGood`, `WakeUpLeavesNoGap`, `NotShownAgain`, `NewIsInjected` | following cursors tells every visible change once and in order; what is injected is new, and what a search recalled is not silently withheld |
| `keys` | kills, power loss, partial writes, failing fsyncs; snapshot and restore | `ToldKeyOpens`, `RetiredStaysOut`, `SecondReadingAgrees`, `SnapshotOpens` | the operator always holds a key that opens the store, unless a file was harmed; a retired key opens it never |

The type invariants of the modules whose run does not list it (`TypeOK` of
`VectorSync`, `RuntimeState`, `Search`, `MessageArchive`, `IntegrityKeys`) hold in
the configurations of these runs.

Where a property has an exception, it is a history variable set by the one step
that is excused (`glitches`, `excused`, `forgotten`, `lost`, `stale`, `damaged`), never a
guard on the environment. For what the code does wrong in such a step, a
configuration below has the counterexample; that sessions which die unwritten
(`lost`) must be excused follows from `queries.go:62` alone.

One run expects a violation, quoted in `PROJECT.json`: in `archive_import` the
first message after an import hides the imported ones at the next start.

Further configurations hold what else was found, and what bounds the passing runs
and the theorems. Each gives a counterexample:

| cfg | property | counterexample |
|---|---|---|
| `MCMutationJournal_sync_failure` | `FailedCommitLeavesNoEvent` | an event whose fsync failed stays in the file, its proposal is rejected as "not committed" (`server.go:681`), a restart applies it |
| `MCMutationJournal_reject_race` | `RejectedNeverApplied` | a rejection decided before a commit overwrites APPLIED (`server.go:1570`, against `proposal.go:75`) |
| `MCMutationJournal_lowram_index` | `OneSuccessor` | a failed index upsert gives a version two successors in low-RAM mode |
| `MCMutationJournal_kill_then_power` | `NoRowWithoutEvent` | an event that a killed process had not fsynced is replayed into fsynced projections, then lost with the power |
| `MCMutationJournal_import_lowram` | `NothingHardDeleted` | an import followed by the low-RAM switch serves an empty index and, closing, writes it over `memories.jsonl` |
| `MCMutationJournal_retry` | `RetryReplays` | a repeated CORRECT or FORGET is refused instead of replayed, since its target is no longer ACTIVE; no memory changes |
| `MCMessageArchive_archive_retry` | `OncePerKey` | a failed index upsert makes the retry archive the message twice; the next start then fails on the UNIQUE key |
| `MCMessageArchive_archive_short` | `NeverRefuses` | a partial record is only repaired at startup; the next append runs into it and is lost with it |
| `MCMessageArchive_archive_sync` | `NeverRefuses` | a record whose fsync failed keeps the number the next one gets, and the chain check refuses the store |
| `MCMessageArchive_archive_migration` | `LegacyKept` | a kill during the migration of `messages.jsonl` hides the rows not yet migrated |
| `MCMessageArchive_archive_kill_then_power` | `AcknowledgedArchived` | a record read back after a kill is acknowledged without an fsync, then lost with the power |
| `MCVectorSync_vector_incident` | `IncidentRemains` | a failed rebuild whose incident has gone meanwhile leaves semantic search blocked by a status no rebuild can name (`system_status.go:126`, against `server.go:1364`) |
| `MCVectorSync_vector_repeat` | `SafeToRepeat` | a sync that is repeated after a failed count write appends over a wrong count (`store.go:258`) |
| `MCRuntimeState_restarts_at_max` | `RestartsAtMax` | without a readable `meta.jsonl` the clock restarts behind the sessions it has read (`store.go:624`) |
| `MCSearch_index_grants` | `IndexNeverGrants` | after a failed `Index.Upsert` a forgotten memory is hydrated from the index and served (`mutation_event.go:290`, against `queries.go:355`) |
| `MCIntegrityKeys_keys_power` | `SomeKeyOpens` | a power loss inside an append leaves a partial last record in a file that no start repairs |

Deadlock is checked except where a bound on requests or faults may be used up and leave
nothing to do: the configurations `power` and `ghost` of the mutation journal, `runtime` and `vectors`, and five of
the further ones of these three modules, say `CHECK_DEADLOCK FALSE`. In the
two journals a process that refused to start may be started again, so a damaged store is
not a deadlock.

**Fairness.** `VectorSync` assumes weak fairness of every sync that a route has
entered: both routes set a deadline (15 and 30 minutes), after which the provider call
returns an error, and `Store.mu` is released by all its holders. Nothing is
assumed about clients, crashes or restarts. `BuildingEnds` needs no more. The
other specifications state no fairness: their properties are about what may not
happen, or refinements of a safety specification, and a daemon whose client never
returns satisfies them too.

## 4. Proofs

Eight modules hold the theorems, one or more per component, each extending the
module it is about. They hold for every set of memories, messages, requests,
sessions, keys, models and faults and without the bounds of the runs, except for
the assumptions listed. Every inductive invariant was checked by TLC on small
instances before it was proved, which is where most of their conjuncts come from.

| module | theorem | assumption | property |
|---|---|---|---|
| `MutationJournalProofs` | `TypeCorrect` | none | `TypeOK` |
| | `Succession` | `CommitsStand` | `OneSuccessor` |
| | `Once` | `CommitsStand` | `AppliedOnce` |
| | `JournalGoverns` | `CommitsStand` | `StateMatchesJournal` |
| | `EventsComeFirst` | `CommitsStand` | `NoRowWithoutEvent` |
| | `CleanFailure` | `CommitsStand` | `FailedCommitLeavesNoEvent` |
| | `AcknowledgedSurvives` | `CommitsStand` | `ToldAppliedSurvives` |
| | `RowsKept` | `CommitsStand` | `NothingHardDeleted` |
| | `OpensToOneStory` | `RowsStand` | `OpensUnambiguous` |
| | `Refinement` | `CommitsStand` | `ImplementsGovernedMemory` |
| `RuntimeStateProofs` | `FeedbackSurvives`, `AccessCounted`, `OneRow`, `ClockForward` | none | `FeedbackKept`, `CountedOnce`, `CopiesAgree`, `ClockRunsForward` |
| `IntegrityKeysProofs` | `OfferedKeyOpens`, `RetiredForGood`, `SnapshotUsable`, `NewServerAgrees` | none | `ToldKeyOpens`, `RetiredStaysOut`, `SnapshotOpens`, `SecondReadingAgrees` |
| `VectorSyncProofs` | `VectorsKept` | none | the invariant |
| | `CurrentOpensAgain`, `PresentIsFound`, `HitsAreOwn` | none | `CurrentReopens`, `PresentIsFindable`, `HitsOwnVector` |
| `MessageArchiveProofs` | `ArchiveTypes` | none | `TypeOK` |
| | `RepeatsAgree` | `OneStorm` | `AnsweredAgain` |
| | `AcknowledgedStays` | `OneStorm`, no `short` fault | `AcknowledgedArchived` |
| | `OpensAgain`, `TurnsAreCounted`, `KeysAreOnce` | `CleanFailures` | `NeverRefuses`, `TurnsCountUsers`, `OncePerKey` |
| | `ReloadsTheSame` | `CleanFailures`; an import left in the map no message that is still to be migrated | `ReloadsWhatItServes` |
| | `ArchiveIsLog` | `CleanFailures` | `ImplementsMessageLog` |
| `ContextLaneProofs` | `ContextInvariant`, `ContextTypes` | none | the invariant, `TypeOK` |
| | `ToldInOrder`, `CursorsAccepted`, `NoGap`, `NothingTwice` | none | `ToldOnceInOrder`, `CursorStaysGood`, `WakeUpLeavesNoGap`, `NotShownAgain` |
| | `InjectedIfNew` | `2 * InjectMax <= IdentityMax` | `NewIsInjected` |
| `SearchProofs` | `SearchInvariant` | none | the invariant |
| | `ServesTheEntitled`, `ExactlyServed` | none | `OnlyEligibleServed`, `ExactIsServed` |
| | `IdealInvariant` | none | the invariant of an undisturbed search |
| | `AnswersTheIdeal`, `Widens` | none | `UndisturbedIsIdeal`, `WidensOnly` |

`MutationJournalProofs` begins with what appending an event does to the last touch
of every memory, to links, revisions and proposers, and what makes a journal well
formed (`JournalOK`). `MatchingProofs` has no theorem of its own: its lemmas say what
the operators of `Matching` yield for all memories and texts, and the proofs about
packets and searches cite them.

**What is assumed, and why.** An assumption is a configuration, never a restriction
of what happens in it, and where it is needed a configuration of section 3 is the
counterexample.

- `CommitsStand`: an fsync that fails has written nothing that stays
  (`sync_failure`), kills and power losses do not both occur (`kill_then_power`),
  and in low-RAM mode the import was indexed and no write of the index or a projection fails (`import_lowram`, `lowram_index`; a projection that fails keeps the index from being written).
- `RowsStand`: in low-RAM mode, where the index stands in for the rows, neither the
  index nor a projection fails. All other faults may occur together.
- `OneStorm`: power losses occur without kills and failing fsyncs
  (`archive_kill_then_power`: a record that is read back after a kill is
  acknowledged, although it was never fsynced). `AcknowledgedStays` also excludes
  the partial append (`archive_short`).
- `CleanFailures`: `OneStorm`, and no `short`, `sync` or `index` fault, each of which
  leaves a record that the process does not know of (`archive_short`,
  `archive_sync`, `archive_retry`).
- `ReloadsTheSame`, after an import: the store is in low-RAM mode or the import
  brought no messages (`archive_import`).
- `InjectedIfNew`: relevance asks for twice the memories it may show. Hits of identity
  count against `IdentityHitsMax` (20), not against that limit, so a request for
  more than ten may miss one. The default is five, the maximum twelve.
- On constants: there is a key (`Keys # {}`), the first memories are finitely many, a
  message is the user's or not, and a wake-up packet looks back on at least one
  change (the code: 25).

**The mutation journal.** None of the properties is inductive. `IInv` strengthens
them:

- `JournalInv`: event `i` has number `i`, expects the version the events before
  it leave, and creates only memories nothing before it touched. This is what
  replay accepts, and `OneSuccessor` and `AppliedOnce` follow from it.
- `LaneInv`: which steps a lane can be at in which phase, that its event is the
  journal's last one while `Store.mu` is held, and that a decision not yet
  written carries a request no event carries.
- `DurableInv`: without kills, what the maps reflect is fsynced. It is why a
  power loss cannot take back what was acknowledged.
- `MapsInv`: maps, links and revisions are the replay of the journal (in low-RAM
  mode the index, one event behind during a refresh).
- `ProposalInv`: APPLIED implies an event, a failed commit implies none.
- `FileInv`: nothing on disk and nothing told is ahead of the journal.

The step lemma has one case per action (`SubmitInv`, `WriteEventInv`, ...). The
refinement maps the write (or, where power may fail, the fsync) of an event to
the step of `GovernedMemory` the event stands for, and every other step to a
stutter. `OpensUnambiguous` needs another invariant, since an fsync error leaves
an event behind that the process does not count. `GhostInv` says of every prefix of
the journal, not only of the whole, that it tells one story if it would open
(`StoryInv`), and ties the count of the process to the events it applied (`CountInv`)
and, as long as no ghost stands, the rows to them (`CountedInv`).

**Runtime state.** `RuntimeInv`: the last promotion of a memory in the journal has the
version owed to it (`JournalInv`); what the copy that is served, or would be after
the next start, says of a memory, depending on how file, row, pending bumps and
fingerprint compare (`RowInv`); and that every
ordinal a row carries is that of a session the process has, or would have after the
next start, or of one that died unwritten, and none of theirs is past the clock
(`ClockInv`).

**Integrity keys.** A power loss leaves any prefix of a file that holds what was
fsynced. `KeysInv` says of every pair of such prefixes of the two files that some
offered key opens it (`Survivors`), of the process at work how far it is (`ProcessInv`),
and that none of these prefixes ends with a retired key (`RetiredInv`). A prefix
shorter than what a process has read counts as damage, which is what makes it
inductive.

**Vectors.** Below, what the files of one generation look like after any failures
(`Laid`, `Kept`, `Sound`): only the last record can be out of step with its line, or
the ordinals after it are out of place. So the three records that opening looks at
speak for all (`SampleSuffices`). Above, which generation serves, which are being
built by which route, and what `CURRENT` names (`ServingInv`, `SyncInv`, `RefsInv`,
`CurrentInv`). A query, which takes no mutex, holds what was true of its generation
when it looked (`QueryInv`).

**The archive.** `ArchiveInv` is about what stands, that is, can no longer be taken
back; it gives types under all faults, `AcknowledgedStays` and `RepeatsAgree`.
`ChainInv` says in every phase that the segments read as a chain and that the
counters of the store are those of its last row: while it serves (`UpInv`,
`TableInv`, `MapInv`), between two rows of a migration (`MovingInv`), and between two
processes (`OpenedInv`, `UnstartedInv`); TLC checked it on twelve configurations, of
34,043 to 147,929 states. The refinement maps the archive to what stands in the
order of its numbers. Its lemma is that at most one written record at a time does
not stand yet (`BehindInv`), so an fsync adds one message to the log.

**Sessions and packets.** `ContextInv` has one part about cursors and one about
handlers. A cursor was signed for its session and is no newer than the log, and what
was told since is what its project sees between two revisions (`ChainInv`); a diff
then continues the chain (`Continues`), and a commit cannot change it, since the log
only grows. A handler is between two reads: where it can be (`PathInv`), what its
answer costs so far (`CostInv`), what it leaves out (`GapInv`) and what it must hold
(`InjectInv`); each is stated of what it has read, which is why a commit in between
keeps it (`CommitKeeps`). TLC checked `ContextInv` on the 470,226 states of `context`.

**Searches.** What a search carries from one read to the next are lists of rows and
hits. `SearchInv` bounds all of them by one set (`May`): the memories that were
eligible at some moment of this search, and those that its index still called
eligible then (`behind`). `Finds(E)` and `Hits(E)` are what a list may hold for
such a set `E`; one lemma per operator says that it yields no more than it was given
(`ScoredIs`, `MergedIs`, `VectorHitsIs`, `RankedCandidatesAre`, ...), so a step of the
search adds only rows it judged itself, and a commit in between only widens `E`. The
rows that the vectors found, loaded one by one, are such a list too.
`behind` is a history variable that the proof asked for. `OnlyEligibleServed` first
excused the memories whose row was stale at the moment of the answer; a recall during
the search repairs such a row after the search has read it, so the excuse came too
late, which the failed proof showed and a run of two changes of one memory confirmed.

`ExactIsServed` needs the opposite, what a list cannot lack, and an invariant of its
own, `KeptInv`: the query itself is asked first (`Begun`, `Asked`), and a memory whose
subject it is, eligible so far (`Carries`), is in the list that the search works on or the index failed for every text, so the scan is still to come (`Whole`, `Kept`). For
each operator one lemma then says what it holds if its argument does (`BM25Finds`,
`LikeFinds`, `JoinHas`, `MergedHas`, ...). Ranking puts exact hits first (`ExactFirst`),
and a list that is cut after `n` of a class either holds a hit of the class or `n`
others of its kind (`QuotaHas`): `IdentityMax` of them where it is an identity, as many
as the limit where it is not. TLC checked `KeptInv` on the states of `search`.

`UndisturbedIsIdeal` compares a search of many reads with one of a single step, and the
two do not collect in the same order: an index without `ORDER BY` returns its
candidates as it likes, and the reference takes memories by id. So `IdealInv` says less
than equality as long as a search collects: its list has each memory once (`Once`) and
the elements that the texts tried so far recall, each as the first text that recalls
it has it (`Tries`, `Collects`, `Queried`; `FoundGrows` adds a text). Scoring and
sorting then remove the difference: a list is determined by its elements and a strict
order in which it rises (`SameList`), and rank keys order hits strictly, since the
last part of a key is the id (`SortedRises`, `SortedSame`, `MergedSame`). `KeptInv` gives the rest, that
a search nothing disturbed has asked the index with success and scans nothing. What
disturbs it is named: a fault, a batch as long as `CandidateCap`, a change of a row.
`WidensOnly` follows from the same invariant: what the query finds alone is found by the
first text of its expansion, with the same match (`ExpandedFinds`), and of two rising lists, one
with elements of the other, the smaller is a part of the larger in its order
(`PartSame`). TLC checked `IdealInv` on the 363,061 states of `search`.

**Form.** Sequences that come out of sets are defined by place (`InOrder(S)` puts at
`i` the number with `i - 1` below it, `Those(seq, wanted)` picks places) and packets
by a function on the numbers up to a length (`Packing`). What such a definition
yields for every length (`MatchingProofs`) is proved without an induction theorem: a set of naturals
has a least element (`LeastNumber`, from the well-foundedness of `<`), so a set with 0
and every successor is all of them (`NaturalsIn`). Replay is defined by the last event
that touches a memory and needs not even that.

**Only model-checked.** `BuildingEnds`: liveness under fairness. Every invariant, action
property and refinement that a passing run checks is a theorem. The properties of the
violation run and of the further configurations have counterexamples.

## 5. Plan

Modelled, in this order: `MutationJournal`; `MessageArchive`; `VectorStore` and
`VectorSync`; `RuntimeState`; `Matching`, `Search` and `ContextLane`;
`IntegrityKeys`. All have proofs. To come:

1. `Proposals`: gates, states and reviewers, with the liveness question of a
   PENDING proposal without a gate, which a kill between staging and commit
   leaves behind and no reviewer can approve.
2. `MutationGates` (pure operators of `internal/memory`), `Learner`, and
   `ArtifactLifecycle`.

## 6. Not modelled

- The SemanticOnly experiments, the minimum margin of automatic matches, artifact
  routes, and the project context and reflex loops of a packet: switches and
  sections that select among rows already judged here.
- Verification gates, learner and secret detection: string heuristics; the lane
  admits every decision they can make.
- The rate window and the operations ring: they count in wall-clock time and no
  other component depends on them.
- HTTP routing and encoding, embedding providers as HTTP clients, CSV parsing, the
  MCP relay (one call, one request, no state), command line, configuration,
  message policy detection and the evaluation harness.
- The artifact packages: no path of the Lite daemon calls them.
- Message records in `VerifyDataDir`, and `VerifyDataDir` altogether: it applies the
  checks of the two loaders to the same files and changes nothing.
- Lite code that no production path calls (`AppendContinuity`,
  `ResolveProposalApplied`), and damage to files by other programs: the chain
  checks are modelled against what the daemon itself leaves behind.
