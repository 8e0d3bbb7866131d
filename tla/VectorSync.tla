----------------------------- MODULE VectorSync -----------------------------
(***************************************************************************)
(* The semantic projection of mindmoryd-lite at work: Store.SyncVectors    *)
(* and the two admin routes that run it (adminEmbed, adminVectorRebuild),  *)
(* opening and the import of the legacy sidecar, the startup status and    *)
(* its incidents, and the query path vectorHits with its cache.            *)
(*                                                                         *)
(* Who may step.  Store.mu is held for both halves of SyncVectors and      *)
(* released while the provider embeds; mutations of memories take it.      *)
(* Queries read Store.VectorStore without it, so they interleave with the  *)
(* second half too.  The process may die anywhere, inside an Append too.   *)
(***************************************************************************)
EXTENDS VectorStore, FiniteSets

CONSTANTS
  Models,          \* embedding model identities (name and digest)
  Dims,            \* vector lengths a provider may answer with
  Queries,         \* normalized query texts
  Capacity,        \* of the query vector cache
  Faults,          \* what may fail
  FirstSources,    \* the memories of the store at its first start
  Sidecars,        \* what vectors.jsonl may hold: sequences of the rows of one model
  Embedders,       \* what models and lengths these rows may be of
  LowRAM,          \* count vectors in SQLite, not in the maps
  MaxGenerations,  \* bound on generations ever created
  FirstProvider,   \* the model and the length of the provider at first
  MaxEvents        \* bound on crashes, I/O errors, changes of a memory or the provider

(***************************************************************************)
(* record, map, count, manifest: see AppendOutcomes                        *)
(* activate  Activate fails before or after it wrote CURRENT               *)
(* index     the upsert into vector_refs fails; its error is dropped       *)
(* provider  the provider refuses or the request's deadline passes         *)
(***************************************************************************)
FaultKinds == {"record", "map", "count", "manifest", "activate", "index", "provider"}

Routes == {"embed", "rebuild"}
Syncs == Routes \cup {"import"}

ASSUME VectorAssumption ==
  /\ NoSource \notin Sources
  /\ Faults \subseteq FaultKinds
  /\ FirstSources \subseteq Sources /\ IsFiniteSet(FirstSources)
  /\ Sidecars \subseteq Seq(Sources)
  /\ Embedders \subseteq [model : Models, dimensions : Dims]
  /\ Capacity \in Nat \ {0} /\ FirstProvider \in [model : Models, dimensions : Dims]
  /\ LowRAM \in BOOLEAN
  /\ MaxGenerations \in Nat /\ MaxEvents \in Nat

VARIABLES
  rows,         \* lifecycle of each memory; only an ACTIVE one is eligible
  generations,  \* the generation directories, oldest first
  current,      \* CURRENT, as an index into generations; 0 when there is none
  legacy,       \* the sidecar vectors.jsonl of earlier versions
  phase,        \* the process: down, opening (the import) or up
  serving,      \* Store.VectorStore: its generation (0: nil) and its memory
  issue,        \* Store.vectorIssue
  refs,         \* the table vector_refs
  provider,     \* model and dimensions of the configured provider
  blocked,      \* Server.semanticBlocked
  status,       \* the cached SystemStatus: its state and its incident
  admitted,     \* whether a rebuild request was let through that has no lock yet
  mu,           \* who holds Store.mu across steps
  sync,         \* the syncs in progress
  query,        \* the semantic query in progress
  cache,        \* queryVectorCache: generation, entries most recent first
  events,       \* how many of the events MaxEvents history have happened
  glitches      \* history: the I/O errors since a start found CURRENT in order

disk == <<generations, current>>
server == <<blocked, status, admitted>>
history == <<events, glitches>>
vars == <<rows, disk, legacy, phase, serving, issue, refs, provider, server, mu, sync, query, cache, history>>

-----------------------------------------------------------------------------
NoStore == [generation |-> 0, handle |-> EmptyHandle]
NoVector == [model |-> "none", dimensions |-> 0]
NoIncident == [code |-> "none", model |-> "none"]
Ready == [state |-> "READY", incident |-> NoIncident]
Idle == [at |-> "idle", queue |-> <<>>, next |-> 1, dimensions |-> 0,
         target |-> NoStore, fresh |-> FALSE, failed |-> FALSE]
NoQuery == [at |-> "idle", text |-> "none", generation |-> 0,
            vector |-> NoVector, candidates |-> {}]
EmptyCache == [generation |-> 0, entries |-> <<>>]

Eligible(s) == rows[s] = "ACTIVE"

SameModel == serving.generation # 0 /\ generations[serving.generation].model = provider.model

RefRows(generation, h) ==
  {[generation |-> generation, line |-> h.refs[i]] : i \in DOMAIN h.refs}

Resolvable(s) ==
  \E r \in refs : r.line.source = s /\ r.generation = serving.generation

(***************************************************************************)
(* VectorStatus.Missing: counted in vector_refs in the low-RAM mode, and   *)
(* in the open store otherwise.                                            *)
(***************************************************************************)
Missing ==
  {s \in Sources :
     /\ Eligible(s)
     /\ serving.generation # 0 => ~ IF LowRAM THEN Resolvable(s) ELSE HasVector(serving.handle, s)}

(***************************************************************************)
(* assessSystemStatus with semantic search requested, its cases in the     *)
(* order the code tries them.  An incident is identified by its code and   *)
(* the model of the active generation.                                     *)
(***************************************************************************)
Incident(state, code) ==
  [state |-> state,
   incident |-> [code |-> code,
                 model |-> IF serving.generation = 0 THEN "none"
                           ELSE generations[serving.generation].model]]

Assess ==
  CASE issue -> Incident("ACTION_REQUIRED", "VECTOR_GENERATION_CORRUPT")
    [] ~issue /\ serving.generation = 0 ->
         IF Missing # {} THEN Incident("ACTION_REQUIRED", "VECTOR_GENERATION_MISSING") ELSE Ready
    [] ~issue /\ serving.generation # 0 /\ ~SameModel ->
         Incident("ACTION_REQUIRED", "EMBEDDING_MODEL_MISMATCH")
    [] OTHER -> IF Missing # {} THEN Incident("DEGRADED", "VECTOR_SYNC_REQUIRED") ELSE Ready

\* Mutant of Refresh: the status is assessed and searches are not blocked.
RefreshOpen == status' = Assess /\ UNCHANGED <<blocked, admitted>>

\* statusManager.refresh and what its callers store in semanticBlocked.
Refresh ==
  /\ status' = Assess
  /\ blocked' = (Assess.state = "ACTION_REQUIRED")
  /\ UNCHANGED admitted

Event == events < MaxEvents /\ events' = events + 1

-----------------------------------------------------------------------------
(***************************************************************************)
(* Starting and stopping.                                                  *)
(***************************************************************************)
Named(sidecar) == {sidecar[i] : i \in DOMAIN sidecar}

Init ==
  /\ generations = <<>> /\ current = 0
  /\ legacy \in Sidecars
  /\ rows = [s \in Sources |-> CASE s \in FirstSources -> "ACTIVE"
                                 [] s \notin FirstSources /\ s \in Named(legacy) -> "RETIRED"
                                 [] OTHER -> "none"]
  /\ phase = "down"
  /\ serving = NoStore /\ issue = FALSE /\ refs = {}
  /\ provider = FirstProvider
  /\ blocked = FALSE /\ status = Ready /\ admitted = FALSE
  /\ mu = "free" /\ sync = [r \in Syncs |-> Idle]
  /\ query = NoQuery /\ cache = EmptyCache
  /\ events = 0 /\ glitches = {}

Starts ==
  /\ phase = "down"
  \* A restart may come with another configuration.
  /\ \E m \in Models :
       /\ events > 0 \/ m = provider.model
       /\ provider' = [provider EXCEPT !.model = m]
  /\ UNCHANGED <<rows, legacy, current, server, mu, query, cache, events>>

\* A generation that cannot be opened or verified only degrades the daemon.
StartOpens ==
  /\ Starts
  /\ current # 0
  /\ LET g == generations[current]
         usable == Opens(g) /\ g.state = "READY" /\ VerifySample(Recovered(g), HandleOf(g))
     IN  /\ generations' = IF Opens(g) THEN [generations EXCEPT ![current] = Recovered(g)]
                           ELSE generations
         /\ issue' = ~usable
         /\ glitches' = IF usable THEN {} ELSE glitches
         /\ serving' = IF usable THEN [generation |-> current, handle |-> HandleOf(g)] ELSE NoStore
         \* ReplaceVectorRefs returns early when there is nothing to insert.
         /\ refs' = IF usable /\ g.count > 0
                      THEN {r \in refs : r.generation # current} \cup RefRows(current, HandleOf(g))
                      ELSE refs
  /\ phase' = "opening"
  /\ UNCHANGED sync

StartsWithout ==
  /\ Starts
  /\ current = 0 /\ legacy = <<>>
  /\ serving' = NoStore /\ issue' = FALSE /\ glitches' = {}
  /\ phase' = "opening"
  /\ UNCHANGED <<generations, refs, sync>>

(***************************************************************************)
(* Without CURRENT the sidecar becomes a generation, of the model and the  *)
(* length of one of its rows, whatever the provider is; the rows of others *)
(* are skipped, which legacy leaves out.  Create selects the generation    *)
(* before it holds anything.                                               *)
(***************************************************************************)
StartImports ==
  /\ phase = "down" /\ Len(generations) < MaxGenerations
  /\ current = 0 /\ legacy # <<>>
  /\ glitches' = {}
  /\ \E e \in Embedders :
       generations' = Append(generations, NewGeneration(e.model, e.dimensions, "READY"))
  /\ current' = Len(generations')
  /\ serving' = NoStore /\ issue' = FALSE
  /\ phase' = "opening"
  /\ sync' = [sync EXCEPT !["import"] =
                [Idle EXCEPT !.at = "appending", !.queue = legacy,
                             !.target = [generation |-> current', handle |-> EmptyHandle]]]
  /\ UNCHANGED <<rows, legacy, refs, provider, server, mu, query, cache, events>>

\* InitializeStatus: the only comparison of models outside a sync.
Serve ==
  /\ phase = "opening" /\ sync["import"].at = "idle"
  /\ phase' = "up"
  /\ Refresh
  /\ UNCHANGED <<rows, legacy, disk, serving, issue, refs, provider, mu, sync, query, cache, history>>

Die ==
  /\ phase' = "down"
  /\ serving' = NoStore /\ issue' = FALSE /\ blocked' = FALSE /\ status' = Ready /\ admitted' = FALSE
  /\ mu' = "free" /\ sync' = [r \in Syncs |-> Idle]
  /\ query' = NoQuery /\ cache' = EmptyCache
  /\ Event
  /\ UNCHANGED <<rows, legacy, refs, provider, glitches>>

Crash == phase # "down" /\ Die /\ UNCHANGED disk

Appending(r) == sync[r].at = "appending" /\ sync[r].next <= Len(sync[r].queue)

Glitch(f) == f \in Faults /\ glitches' = glitches \cup {f} /\ Event

Item(r) == sync[r].queue[sync[r].next]
Target(r) == sync[r].target

CrashInAppend(r) ==
  /\ Appending(r)
  /\ LET t == Target(r)
     IN  /\ ~HasVector(t.handle, Item(r))
         /\ \E g \in AppendCrashes(generations[t.generation], t.handle, Item(r)) :
              generations' = [generations EXCEPT ![t.generation] = g]
  /\ Die
  /\ UNCHANGED current

-----------------------------------------------------------------------------
(***************************************************************************)
(* The memories, and the provider behind its fixed name.                   *)
(***************************************************************************)
Remember(s) ==
  /\ phase = "up" /\ mu = "free"
  /\ \/ rows[s] = "none" /\ rows' = [rows EXCEPT ![s] = "ACTIVE"]
     \/ rows[s] = "ACTIVE" /\ rows' = [rows EXCEPT ![s] = "RETIRED"]
  /\ Event
  /\ UNCHANGED <<legacy, disk, phase, serving, issue, refs, provider, server, mu, sync, query, cache, glitches>>

Drift ==
  /\ Event
  /\ \E d \in Dims \ {provider.dimensions} : provider' = [provider EXCEPT !.dimensions = d]
  /\ UNCHANGED <<rows, legacy, disk, phase, serving, issue, refs, server, mu, sync, query, cache, glitches>>

-----------------------------------------------------------------------------
(***************************************************************************)
(* SyncVectors, from the two routes.                                       *)
(***************************************************************************)
(***************************************************************************)
(* adminVectorRebuild, bound to an incident of the cached status, which it *)
(* looks at before it has the lock: the status may have changed when the   *)
(* rebuild starts.  Bound: one request at a time is between the two.       *)
(* vectorRebuildMu is held exactly while its sync is not idle.  adminEmbed *)
(* does nothing before the first half.                                     *)
(***************************************************************************)
Admit ==
  /\ phase = "up" /\ ~admitted
  /\ status.incident # NoIncident
  /\ status.state \in {"ACTION_REQUIRED", "DEGRADED"}
  /\ admitted' = TRUE
  /\ UNCHANGED <<rows, legacy, disk, phase, serving, issue, refs, provider, blocked, status>>
  /\ UNCHANGED <<mu, sync, query, cache, history>>

Rebuild ==
  /\ phase = "up" /\ sync["rebuild"].at = "idle"
  /\ admitted /\ admitted' = FALSE
  /\ status' = [status EXCEPT !.state = "BUILDING"] /\ blocked' = TRUE
  /\ sync' = [sync EXCEPT !["rebuild"].at = "entered"]
  /\ UNCHANGED <<rows, legacy, disk, phase, serving, issue, refs, provider, mu, query, cache, history>>

InSync == UNCHANGED <<rows, legacy, phase, provider, query, cache>>

\* The first half: under Store.mu, the eligible rows that are not current.
Plan(r) ==
  /\ mu = "free" /\ phase = "up"
  /\ \/ r = "rebuild" /\ sync[r].at = "entered"
     \/ r = "embed" /\ sync[r].at = "idle"
  /\ LET wanted == {s \in Sources : Eligible(s) /\ ~(SameModel /\ HasVector(serving.handle, s))}
     IN  \E q \in [1 .. Cardinality(wanted) -> wanted] :
           /\ \A s \in wanted : \E i \in DOMAIN q : q[i] = s
           /\ sync' = [sync EXCEPT ![r].queue = q,
                                   ![r].at = IF q = <<>> THEN "done" ELSE "embedding"]
  /\ UNCHANGED <<disk, serving, issue, refs, server, mu, history>> /\ InSync

Embedded(r) ==
  /\ sync[r].at = "embedding"
  /\ \/ sync' = [sync EXCEPT ![r].at = "answered", ![r].dimensions = provider.dimensions]
     \/ /\ "provider" \in Faults
        /\ sync' = [sync EXCEPT ![r].at = "done", ![r].failed = TRUE]
  /\ UNCHANGED <<disk, serving, issue, refs, server, mu, history>> /\ InSync

(***************************************************************************)
(* The second half takes Store.mu again and looks at the store it finds    *)
(* now: another sync may have replaced it.                                 *)
(***************************************************************************)
NeedsGeneration(r) ==
  SameModel => generations[serving.generation].dimensions # sync[r].dimensions

Begin(r) ==
  /\ sync[r].at = "answered" /\ mu = "free"
  /\ \/ /\ NeedsGeneration(r) /\ Len(generations) < MaxGenerations
        /\ generations' = Append(generations,
                             NewGeneration(provider.model, sync[r].dimensions, "BUILDING"))
        /\ mu' = r
        /\ sync' = [sync EXCEPT ![r].at = "appending", ![r].fresh = TRUE,
                      ![r].target = [generation |-> Len(generations'), handle |-> EmptyHandle]]
     \* CreateBuilding fails: at the bound always, for want of another outcome.
     \/ /\ NeedsGeneration(r) /\ Len(generations) = MaxGenerations
        /\ sync' = [sync EXCEPT ![r].at = "done", ![r].failed = TRUE]
        /\ UNCHANGED <<generations, mu>>
     \/ /\ ~NeedsGeneration(r)
        /\ sync' = [sync EXCEPT ![r].at = "appending", ![r].target = serving]
        /\ mu' = r
        /\ UNCHANGED generations
  /\ UNCHANGED <<current, serving, issue, refs, server, history>> /\ InSync

(***************************************************************************)
(* A build gives up at the first row that changed or could not be          *)
(* appended; an import too, and leaves the generation it selected          *)
(* unopened.  SyncVectors releases Store.mu as it returns.                 *)
(***************************************************************************)
GiveUp(r) ==
  /\ sync' = [sync EXCEPT ![r].at = "done", ![r].failed = TRUE]
  /\ mu' = "free"

Continue(r, handle, failed) ==
  /\ sync' = [sync EXCEPT ![r] =
       [sync[r] EXCEPT !.next = @ + 1, !.target = [sync[r].target EXCEPT !.handle = handle],
                       !.failed = @ \/ failed]]
  /\ UNCHANGED mu

\* The open store is the one being appended to, unless a build is detached.
Shared(r, handle) ==
  serving' = IF sync[r].fresh \/ r = "import" THEN serving ELSE [serving EXCEPT !.handle = handle]

RowChanged(r) ==
  /\ r # "import" /\ Appending(r) /\ ~Eligible(Item(r))
  /\ IF sync[r].fresh THEN GiveUp(r) ELSE Continue(r, Target(r).handle, TRUE)
  /\ UNCHANGED <<disk, serving, issue, refs, server, history>> /\ InSync

\* The import skips a row that is not eligible without counting it.
RowSkipped ==
  /\ Appending("import") /\ ~Eligible(Item("import"))
  /\ Continue("import", Target("import").handle, FALSE)
  /\ UNCHANGED <<disk, serving, issue, refs, server, history>> /\ InSync

\* Mutant of UpsertRef: the row is left to the next restart.
UpsertLater(r, handle) == UNCHANGED <<refs, history>>

UpsertRef(r, handle) ==
  LET row == [generation |-> Target(r).generation, line |-> handle.refs[Len(handle.refs)]]
  IN  \/ refs' = refs \cup {row} /\ UNCHANGED history
      \/ Glitch("index") /\ UNCHANGED refs

AppendOne(r) ==
  /\ Appending(r) /\ Eligible(Item(r)) /\ ~HasVector(Target(r).handle, Item(r))
  /\ LET t == Target(r) IN
     \/ \E o \in AppendOutcomes(generations[t.generation], t.handle, Item(r), {}) :
          /\ generations' = [generations EXCEPT ![t.generation] = o.disk]
          /\ Continue(r, o.handle, FALSE)
          /\ Shared(r, o.handle)
          \* A detached build upserts its refs once it is active.
          /\ IF sync[r].fresh THEN UNCHANGED <<refs, history>> ELSE UpsertRef(r, o.handle)
     \/ \E f \in Faults : Glitch(f) /\
        \E o \in AppendOutcomes(generations[t.generation], t.handle, Item(r), {f}) :
          /\ ~o.ok
          /\ generations' = [generations EXCEPT ![t.generation] = o.disk]
          /\ IF sync[r].fresh \/ r = "import" THEN GiveUp(r) ELSE Continue(r, o.handle, TRUE)
          /\ Shared(r, o.handle)
          /\ UNCHANGED refs
  /\ UNCHANGED <<current, issue, server>> /\ InSync

\* Append answers with the ref it has: another sync got there first.  When
\* the count has run ahead of refs there is none, and the handler panics:
\* its locks are released and nothing else it would have done happens.
AppendKnown(r) ==
  /\ Appending(r) /\ Eligible(Item(r)) /\ HasVector(Target(r).handle, Item(r))
  /\ IF AnswersExisting(Target(r).handle, Item(r))
       THEN Continue(r, Target(r).handle, FALSE)
       ELSE /\ sync' = [sync EXCEPT ![r] = Idle]
            /\ mu' = "free"
  /\ UNCHANGED <<disk, serving, issue, refs, server, history>> /\ InSync

Appended(r) == sync[r].at = "appending" /\ sync[r].next > Len(sync[r].queue)

Select(g) == [generations EXCEPT ![g].state = "READY"]

(***************************************************************************)
(* Activate verifies, marks the manifest READY and then writes CURRENT;    *)
(* the store is swapped after that, and the old one closed.                *)
(***************************************************************************)
Activate(r) ==
  /\ Appended(r) /\ sync[r].fresh
  /\ LET t == Target(r) IN
     \/ /\ VerifyAll(generations[t.generation], t.handle)
        /\ generations' = Select(t.generation) /\ current' = t.generation
        /\ serving' = t /\ issue' = FALSE
        /\ \/ refs' = refs \cup RefRows(t.generation, t.handle) /\ UNCHANGED history
           \/ Glitch("index") /\ UNCHANGED refs
        /\ sync' = [sync EXCEPT ![r].at = "done"] /\ mu' = "free"
     \/ /\ Glitch("activate")
        /\ generations' = Select(t.generation)
        /\ current' \in {current, t.generation}
        /\ GiveUp(r)
        /\ UNCHANGED <<serving, issue, refs>>
  /\ UNCHANGED server /\ InSync

Synced(r) ==
  /\ r # "import" /\ Appended(r) /\ ~sync[r].fresh
  /\ sync' = [sync EXCEPT ![r].at = "done"] /\ mu' = "free"
  /\ UNCHANGED <<disk, serving, issue, refs, server, history>> /\ InSync

Failed(r) == sync[r].failed

(***************************************************************************)
(* adminEmbed looks at the error only; a build's failure is an error, rows *)
(* that were merely skipped or failed to append are not.                   *)
(***************************************************************************)
EmbedErrs ==
  Failed("embed") /\ (sync["embed"].fresh \/ sync["embed"].next <= Len(sync["embed"].queue))

\* Mutant of RebuildFailed: the error is answered and the status forgotten.
RebuildForgotten == UNCHANGED <<status, admitted>>

\* statusManager.rebuildFailed.
RebuildFailed == status' = [Assess EXCEPT !.state = "ACTION_REQUIRED"] /\ UNCHANGED admitted

Return(r) ==
  /\ r # "import" /\ sync[r].at = "done" /\ mu = "free"
  /\ sync' = [sync EXCEPT ![r] = Idle]
  /\ IF r = "embed"
       THEN IF EmbedErrs THEN UNCHANGED server ELSE Refresh
       ELSE IF Failed(r)
              THEN RebuildFailed /\ UNCHANGED blocked
              ELSE Refresh
  /\ UNCHANGED <<disk, serving, issue, refs, mu, history>> /\ InSync

ImportDone ==
  /\ \/ Appended("import") /\ serving' = Target("import") /\ issue' = FALSE
     \/ sync["import"].at = "done" /\ serving' = NoStore /\ issue' = TRUE
  /\ sync' = [sync EXCEPT !["import"] = Idle]
  /\ UNCHANGED <<disk, refs, server, mu, history>> /\ InSync

-----------------------------------------------------------------------------
(***************************************************************************)
(* vectorHits.                                                             *)
(***************************************************************************)
InQuery == UNCHANGED <<rows, legacy, disk, phase, serving, issue, refs, provider, server, mu, sync, history>>

ForGeneration(c, g) == IF c.generation = g THEN c ELSE [generation |-> g, entries |-> <<>>]

\* A text has one entry, which makes room for the new one.
Without(entries, q) ==
  LET at == {i \in DOMAIN entries : entries[i].text = q}
      i == CHOOSE j \in at : TRUE
  IN  IF at = {} THEN entries ELSE SubSeq(entries, 1, i - 1) \o SubSeq(entries, i + 1, Len(entries))

CacheGet(c, q) == {c.entries[i].vector : i \in {j \in DOMAIN c.entries : c.entries[j].text = q}}

CachePut(c, q, v) ==
  LET entries == <<[text |-> q, vector |-> v]>> \o Without(c.entries, q)
  IN  [c EXCEPT !.entries = SubSeq(entries, 1, IF Len(entries) < Capacity THEN Len(entries) ELSE Capacity)]

Ask(q) ==
  /\ phase = "up" /\ query.at = "idle"
  /\ ~blocked /\ serving.generation # 0 /\ serving.handle.refs # <<>>
  /\ LET c == ForGeneration(cache, serving.generation)
         hit == CacheGet(c, q)
     IN  /\ cache' = IF hit = {} THEN c ELSE CachePut(c, q, CHOOSE v \in hit : TRUE)
         /\ query' = [NoQuery EXCEPT !.at = IF hit = {} THEN "embedding" ELSE "searching",
                                     !.text = q, !.generation = serving.generation,
                                     !.vector = IF hit = {} THEN NoVector ELSE CHOOSE v \in hit : TRUE]
  /\ InQuery

AskEmbedded ==
  /\ query.at = "embedding"
  /\ \/ /\ query' = [query EXCEPT !.at = "searching", !.vector = provider]
        /\ cache' = CachePut(ForGeneration(cache, query.generation), query.text, provider)
     \/ /\ "provider" \in Faults
        /\ query' = NoQuery /\ UNCHANGED cache
  /\ InQuery

\* Search runs on the store it finds now; a length it does not expect is an
\* error, and the caller falls back to what it found without vectors.
Search ==
  /\ query.at = "searching"
  /\ LET g == generations[serving.generation]
     IN  query' = IF g.dimensions # query.vector.dimensions THEN NoQuery
                  ELSE [query EXCEPT !.at = "resolving", !.generation = serving.generation,
                          !.candidates = Candidates(g, serving.handle)]
  /\ UNCHANGED cache /\ InQuery

\* A candidate is a hit when vector_refs of the generation serving now names
\* it and the row it loads is still eligible.
Hits == {c \in query.candidates : Resolvable(c.source) /\ Eligible(c.source)}

Answer ==
  /\ query.at = "resolving" /\ mu = "free"
  /\ query' = NoQuery
  /\ UNCHANGED cache /\ InQuery

-----------------------------------------------------------------------------
\* Everything a sync does once it was asked for.
SyncStep(r) ==
  \/ r = "rebuild" /\ Plan(r)
  \/ Embedded(r) \/ Begin(r)
  \/ RowChanged(r) \/ AppendOne(r) \/ AppendKnown(r)
  \/ Activate(r) \/ Synced(r) \/ Return(r)

ImportStep == AppendOne("import") \/ RowSkipped \/ ImportDone

Next ==
  \/ StartOpens \/ StartsWithout \/ StartImports \/ Serve
  \/ Crash \/ \E r \in Syncs : CrashInAppend(r)
  \/ \E s \in Sources : Remember(s)
  \/ Drift
  \/ Admit \/ Rebuild \/ Plan("embed")
  \/ \E r \in Routes : SyncStep(r)
  \/ ImportStep
  \/ \E q \in Queries : Ask(q)
  \/ AskEmbedded \/ Search \/ Answer

(***************************************************************************)
(* A handler that was entered runs on: both routes have a deadline, after  *)
(* which the provider call returns an error, and Store.mu is a mutex whose *)
(* holders all release it.  Nobody has to send a request.                  *)
(***************************************************************************)
Fairness == \A r \in Routes : WF_vars(SyncStep(r))

Spec == Init /\ [][Next]_vars /\ Fairness

-----------------------------------------------------------------------------
TypeOK ==
  /\ rows \in [Sources -> {"none", "ACTIVE", "RETIRED"}]
  /\ current \in 0 .. Len(generations)
  /\ serving.generation \in 0 .. Len(generations)
  /\ phase \in {"down", "opening", "up"}
  /\ mu \in Routes \cup {"free"}
  /\ \A r \in Syncs : sync[r].at \in {"idle", "entered", "embedding", "answered", "appending", "done"}
  /\ Len(cache.entries) <= Capacity
  /\ glitches \subseteq Faults

(***************************************************************************)
(* A hit of a semantic search scores the vector of the memory it names,    *)
(* and compares it with a query embedded by the same model: whatever was   *)
(* rebuilt, swapped, closed or cached while the query was running.  The    *)
(* one exception is a process whose write of a committed count failed:     *)
(* Append raised the count in memory first, so refs and records no longer  *)
(* line up (vectorstore/store.go:339).                                     *)
(***************************************************************************)
HitsOwnVector ==
  query.at = "resolving" /\ "count" \notin glitches =>
    \A c \in Hits :
      /\ c.vector = c.source
      /\ generations[query.generation].model = query.vector.model

(***************************************************************************)
(* Whatever moment the process dies at, the generation CURRENT names opens *)
(* again with every vector that was committed.  Only an Append that failed *)
(* in its map line or its count, and a process that went on, can make it   *)
(* unreadable.                                                             *)
(***************************************************************************)
CurrentReopens ==
  current # 0 /\ glitches \cap {"map", "count"} = {} =>
    LET g == generations[current]
    IN  Opens(g) /\ g.state = "READY" /\ VerifyAll(Recovered(g), HandleOf(g))

(***************************************************************************)
(* Between syncs, the open store and vector_refs name the same vectors, so *)
(* what VectorStatus counts as present can be found; the exceptions are a  *)
(* dropped upsert error and an Append that failed after it had committed.  *)
(***************************************************************************)
PresentIsFindable ==
  /\ phase = "up" /\ mu = "free"
  /\ glitches \cap {"index", "manifest", "count"} = {}
  => \A s \in Sources : HasVector(serving.handle, s) <=> Resolvable(s)

(***************************************************************************)
(* A rebuild that quarantined the MCP tools ends its BUILDING state: a     *)
(* panic in Append is the only way to leave it there.                      *)
(***************************************************************************)
BuildingEnds ==
  (status.state = "BUILDING") ~> (status.state # "BUILDING" \/ "count" \in glitches)

(***************************************************************************)
(* server.go:1364 "vector rebuild failed; the incident remains active":    *)
(* while semantic search is blocked by a status that asks for action,      *)
(* there is an incident whose rebuild would be accepted.                   *)
(***************************************************************************)
IncidentRemains ==
  phase = "up" /\ blocked /\ status.state = "ACTION_REQUIRED" => status.incident # NoIncident

\* store.go:258 "safe to repeat after interruption": the retry of a sync that
\* failed leaves a store whose refs name their own records.
SafeToRepeat ==
  serving.generation # 0 => VerifyAll(generations[serving.generation], serving.handle)
=============================================================================
