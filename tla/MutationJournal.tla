--------------------------- MODULE MutationJournal --------------------------
(***************************************************************************)
(* The mutation lane of mindmoryd-lite: the handlers of                    *)
(* internal/lite/server.go that decide a governed mutation, the commit of  *)
(* internal/lite/mutation_event.go, its projections, and restart.          *)
(*                                                                         *)
(* Who may step.  Server.mutationMu admits one handler at a time to apply, *)
(* approve or retire: that handler is the lane.  Reject handlers take no   *)
(* mutationMu.  Store.mu is held from the first byte of an event to the    *)
(* last projection (MuHeld); every other Store call is one step.  The      *)
(* process may die between any two steps.                                  *)
(*                                                                         *)
(* What is on disk.  journal is memory_events.jsonl as a reader of the     *)
(* file sees it; its first `durable' records are fsynced.  file holds the  *)
(* projections, each replaced atomically; index is the SQLite projection.  *)
(***************************************************************************)
EXTENDS MutationEvents

CONSTANTS
  Rejecters,   \* concurrent reject handlers
  LowRAM,      \* the low-RAM mode: memory rows are read from the index
  Reopened,    \* the store was opened again after the import, which indexes it
  Faults,      \* what may go wrong
  MaxEvents    \* bound on the length of the journal

(***************************************************************************)
(* append  the append of an event fails before it writes a byte            *)
(* sync    the event is written and its fsync reports an error             *)
(* short   the append stops after a part of the record                     *)
(* flush   rewriting a JSONL projection fails                              *)
(* index   an upsert into the SQLite projection fails                      *)
(* kill    the process dies; what was written stays in the page cache      *)
(* power   the machine dies; what was not fsynced may be lost or torn      *)
(***************************************************************************)
FaultKinds == {"append", "sync", "short", "flush", "index", "kill", "power"}

ASSUME LaneAssumption ==
  /\ LowRAM \in BOOLEAN
  /\ Reopened \in BOOLEAN
  /\ Faults \subseteq FaultKinds
  /\ MaxEvents \in Nat

VARIABLES
  journal, durable, torn,                        \* memory_events.jsonl
  file, index,                                   \* the projections on disk
  memories, proposals, evidence, continuity,     \* the maps of Store
  seq,                                           \* mutationEventSeq
  phase,                                         \* the process
  lane, rejecters,                               \* the handlers
  told                                           \* history: requests answered as APPLIED

disk == <<journal, durable, torn>>
maps == <<memories, proposals, evidence, continuity, seq>>
vars == <<disk, file, index, maps, phase, lane, rejecters, told>>

-----------------------------------------------------------------------------

Statuses == {"NONE", "PENDING", "APPLIED", "REJECTED"}

\* ReasonCode; REVIEW stands for every gate a reviewer cannot override.
Reasons == {"", "INTENT", "REVIEW", "COMMIT_FAILED_PRE_EVENT",
            "REVIEWER_REJECTED", "APPLIED"}

Proposals == [status : Statuses, reason : Reasons]

NoProposal == [status |-> "NONE", reason |-> ""]

Pending(reason) == [status |-> "PENDING", reason |-> reason]
Rejected(reason) == [status |-> "REJECTED", reason |-> reason]
Applied == [status |-> "APPLIED", reason |-> "APPLIED"]

\* The projections refreshMutationProjectionsLocked rewrites, in its order.
FlushStages == {"memories", "proposals", "evidence", "continuity"}

NextStage(stage) ==
  CASE stage = "memories"   -> "proposals"
    [] stage = "proposals"  -> "evidence"
    [] stage = "evidence"   -> "continuity"
    [] stage = "continuity" -> "index"

\* What a lane is doing, the mutation it is committing, and on whose behalf.
Ways == {"submit", "promote", "approve", "retire", "boot"}

LaneSteps == {"idle", "commit", "written", "index", "reject"} \cup FlushStages

NoEvent ==
  [seq |-> 0, revision |-> 0, proposal |-> NoRequest, new |-> NoMemory,
   target |-> NoMemory, expected |-> 0, life |-> "NONE"]

IdleLane == [step |-> "idle", event |-> NoEvent, way |-> "boot"]

IdleRejecter == NoRequest

MuHeld == lane.step \in {"written", "index"} \cup FlushStages

\* A handler may start, or a Store call be made, in a serving process.
Serving == phase = "up" /\ ~MuHeld

\* The row CommitMutation checks, and the row a handler decides on: handlers
\* read the SQLite projection (LoadMemoryRow, EligibleMemories) in either mode.
Current(m) == IF LowRAM THEN index[m] ELSE memories[m]

IsActive(m) == index[m].life = "ACTIVE"

\* newID: identities nothing in memory, on disk or in the journal uses.
Fresh ==
  {m \in MemoryIDs : /\ Current(m) = NoRow
                     /\ file.memories[m] = NoRow
                     /\ Touching(journal, m) = {}}

\* The number the next continuity entry gets: one more than the last entry's.
IsNextRevision(n) ==
  /\ \A c \in continuity : c < n
  /\ n = 1 \/ n - 1 \in continuity

Emptied ==
  /\ memories' = [m \in MemoryIDs |-> NoRow]
  /\ proposals' = [r \in Requests |-> NoProposal]
  /\ evidence' = {}
  /\ continuity' = {}
  /\ seq' = 0

Init ==
  /\ journal = <<>> /\ durable = 0 /\ torn = FALSE
  /\ memories = IF LowRAM THEN [m \in MemoryIDs |-> NoRow] ELSE ImportedRows
  /\ proposals = [r \in Requests |-> NoProposal]
  /\ evidence = {} /\ continuity = {} /\ seq = 0
  /\ file = [memories |-> ImportedRows, proposals |-> proposals,
             evidence |-> evidence, continuity |-> continuity]
  /\ index = IF Reopened THEN ImportedRows ELSE [m \in MemoryIDs |-> NoRow]
  /\ phase = "up"
  /\ lane = IdleLane
  /\ rejecters = [x \in Rejecters |-> IdleRejecter]
  /\ told = {}

-----------------------------------------------------------------------------
(***************************************************************************)
(* Deciding.  SaveProposals is the proposals.jsonl rewrite that ends every *)
(* Store call that changes a proposal; failing, it leaves the map changed  *)
(* and the file as it was, or renamed but reported as an error.            *)
(***************************************************************************)
SaveProposals == file' = [file EXCEPT !.proposals = proposals']

SaveProposalsFails ==
  /\ "flush" \in Faults
  /\ SaveProposals \/ file' = file

Commits(event, way) ==
  lane' = [step |-> "commit", event |-> event, way |-> way]

Decided(r, m, t, life) ==
  [NoEvent EXCEPT !.proposal = r, !.new = m, !.target = t, !.life = life,
                  !.expected = IF t = NoMemory THEN 0 ELSE index[t].version]

\* mutationTarget comes first: a request whose target is not ACTIVE is refused.
TargetAdmitted(r) == r.target # NoMemory => IsActive(r.target)

LaneFree == Serving /\ lane.step = "idle"

\* An identical request: answered from the proposal it already has.
Replayed(r) ==
  /\ LaneFree
  /\ TargetAdmitted(r)
  /\ proposals[r].status # "NONE"
  /\ told' = IF proposals[r].status = "APPLIED" THEN told \cup {r} ELSE told
  /\ UNCHANGED <<disk, file, index, maps, phase, lane, rejecters>>

\* A new request: no proposal has its hash.
Admits(r) ==
  /\ LaneFree
  /\ TargetAdmitted(r)
  /\ proposals[r].status = "NONE"

Propose(r, reason) == proposals' = [proposals EXCEPT ![r] = Pending(reason)]

\* A gate holds the request back: it waits for a reviewer.
Stage(r, reason) ==
  /\ Admits(r)
  /\ Propose(r, reason)
  /\ SaveProposals \/ SaveProposalsFails
  /\ UNCHANGED <<disk, index, memories, evidence, continuity, seq, phase, lane,
                 rejecters, told>>

\* What a request asks for, with a new identity where it creates a memory.
Mutations(r) ==
  CASE r.kind = "REMEMBER" -> {Decided(r, m, NoMemory, "ACTIVE") : m \in Fresh}
    [] r.kind = "CORRECT"  -> {Decided(r, m, r.target, "SUPERSEDED") : m \in Fresh}
    [] r.kind = "FORGET"   -> {Decided(r, NoMemory, r.target, "FORGOTTEN")}

\* A REMEMBER that repeats the subject of an ACTIVE memory reinforces it.
Promotions(r) ==
  IF r.kind = "REMEMBER"
  THEN {Decided(r, NoMemory, m, "ACTIVE") : m \in {n \in MemoryIDs : IsActive(n)}}
  ELSE {}

\* Verified by the user's own words: stage without a gate, then commit.
Submit(r) ==
  /\ Admits(r)
  /\ Len(journal) < MaxEvents
  /\ Propose(r, "")
  /\ \/ /\ SaveProposals
        /\ \/ \E e \in Mutations(r) : Commits(e, "submit")
           \/ \E e \in Promotions(r) : Commits(e, "promote")
     \/ SaveProposalsFails /\ UNCHANGED lane
  /\ UNCHANGED <<disk, index, memories, evidence, continuity, seq, phase, rejecters,
                 told>>

\* A reviewer overrides the intent gate, and only that gate.
Approve(r) ==
  /\ LaneFree
  /\ Len(journal) < MaxEvents
  /\ proposals[r] = Pending("INTENT")
  /\ TargetAdmitted(r)
  /\ \E e \in Mutations(r) : Commits(e, "approve")
  /\ UNCHANGED <<disk, file, index, maps, phase, rejecters, told>>

\* Mutant of Retire: a lifecycle no reader of the row knows.
RetireAsRetired(m) ==
  /\ LaneFree
  /\ Len(journal) < MaxEvents
  /\ IsActive(m)
  /\ Commits(Decided(NoRequest, NoMemory, m, "RETIRED"), "retire")
  /\ UNCHANGED <<disk, file, index, maps, phase, rejecters, told>>

\* The reviewer's undo path: no proposal, the target leaves as SUPERSEDED.
Retire(m) ==
  /\ LaneFree
  /\ Len(journal) < MaxEvents
  /\ IsActive(m)
  /\ Commits(Decided(NoRequest, NoMemory, m, "SUPERSEDED"), "retire")
  /\ UNCHANGED <<disk, file, index, maps, phase, rejecters, told>>

-----------------------------------------------------------------------------
(***************************************************************************)
(* CommitMutation: check under Store.mu what was decided without it, write *)
(* the event, fsync it, apply it to the maps, refresh the projections.     *)
(***************************************************************************)
Committable(e) ==
  /\ e.proposal # NoRequest => proposals[e.proposal].status = "PENDING"
  /\ e.new # NoMemory => Current(e.new) = NoRow
  /\ e.target # NoMemory =>
       Current(e.target) = [life |-> "ACTIVE", version |-> e.expected]

\* Only the direct path rejects its proposal when the commit fails.
CommitFails ==
  lane' = IF lane.way = "submit" THEN [lane EXCEPT !.step = "reject"] ELSE IdleLane

CommitConflict ==
  /\ phase = "up" /\ lane.step = "commit"
  /\ ~Committable(lane.event)
  /\ CommitFails
  /\ UNCHANGED <<disk, file, index, maps, phase, rejecters, told>>

WriteEvent ==
  /\ phase = "up" /\ lane.step = "commit"
  /\ Committable(lane.event)
  /\ \E n \in 1 .. MaxEvents + 1 :
       /\ IsNextRevision(n)
       /\ LET e == [lane.event EXCEPT !.seq = seq + 1, !.revision = n]
          IN  /\ journal' = Append(journal, e)
              /\ lane' = [lane EXCEPT !.step = "written", !.event = e]
  /\ UNCHANGED <<durable, torn, file, index, maps, phase, rejecters, told>>

AppendFails ==
  /\ phase = "up" /\ lane.step = "commit"
  /\ Committable(lane.event)
  /\ \/ "append" \in Faults /\ torn' = torn
     \/ "short" \in Faults /\ torn' = TRUE
  /\ CommitFails
  /\ UNCHANGED <<journal, durable, file, index, maps, phase, rejecters, told>>

SyncFails ==
  /\ lane.step = "written"
  /\ "sync" \in Faults
  /\ CommitFails
  /\ UNCHANGED <<disk, file, index, maps, phase, rejecters, told>>

\* Mutant of SyncEvent: the event is applied and answered without an fsync.
ApplyUnsynced ==
  /\ lane.step = "written"
  /\ LET e == lane.event
     IN  /\ memories' = IF LowRAM THEN memories ELSE ApplyRows(memories, e)
         /\ proposals' = IF e.proposal = NoRequest THEN proposals
                         ELSE [proposals EXCEPT ![e.proposal] = Applied]
         /\ evidence' = IF LowRAM THEN evidence ELSE evidence \cup Link(e)
         /\ continuity' = continuity \cup {e.revision}
         /\ seq' = e.seq
  /\ lane' = [lane EXCEPT !.step = IF LowRAM THEN "proposals" ELSE "memories"]
  /\ UNCHANGED <<disk, file, index, phase, rejecters, told>>

\* The commit point, and applyMutationEventLocked.
SyncEvent ==
  /\ lane.step = "written"
  /\ durable' = Len(journal)
  /\ LET e == lane.event
     IN  /\ memories' = IF LowRAM THEN memories ELSE ApplyRows(memories, e)
         /\ proposals' = IF e.proposal = NoRequest THEN proposals
                         ELSE [proposals EXCEPT ![e.proposal] = Applied]
         /\ evidence' = IF LowRAM THEN evidence ELSE evidence \cup Link(e)
         /\ continuity' = continuity \cup {e.revision}
         /\ seq' = e.seq
  /\ lane' = [lane EXCEPT !.step = IF LowRAM THEN "proposals" ELSE "memories"]
  /\ UNCHANGED <<journal, torn, file, index, phase, rejecters, told>>

\* The mutation is answered as applied whether or not a projection failed.
Answered ==
  /\ lane' = IdleLane
  /\ told' = IF lane.event.proposal = NoRequest THEN told
             ELSE told \cup {lane.event.proposal}

Flushed(stage) ==
  CASE stage = "memories"   -> [file EXCEPT !.memories = memories]
    [] stage = "proposals"  -> [file EXCEPT !.proposals = proposals]
    [] stage = "evidence"   -> [file EXCEPT !.evidence = evidence]
    [] stage = "continuity" -> [file EXCEPT !.continuity = continuity]

\* In low-RAM mode memories.jsonl and evidence.jsonl are not rewritten.
Skipped(stage) == LowRAM /\ phase = "up" /\ stage = "evidence"

FlushProjection ==
  /\ lane.step \in FlushStages
  /\ file' = IF Skipped(lane.step) THEN file ELSE Flushed(lane.step)
  /\ lane' = [lane EXCEPT !.step = NextStage(lane.step)]
  /\ UNCHANGED <<disk, index, maps, phase, rejecters, told>>

\* Mutant of FlushFails: a projection that fails is answered as a failed commit.
FlushFailsTheCommit ==
  /\ phase = "up" /\ lane.step \in FlushStages
  /\ "flush" \in Faults
  /\ ~Skipped(lane.step)
  /\ file' \in {file, Flushed(lane.step)}
  /\ CommitFails
  /\ UNCHANGED <<disk, index, maps, phase, rejecters, told>>

\* The first projection that fails ends the refresh; the event stands.
FlushFails ==
  /\ phase = "up" /\ lane.step \in FlushStages
  /\ "flush" \in Faults
  /\ ~Skipped(lane.step)
  /\ file' \in {file, Flushed(lane.step)}
  /\ Answered
  /\ UNCHANGED <<disk, index, maps, phase, rejecters>>

\* Mutant of RefreshIndex: the row of the target is not upserted.
RefreshNewRow ==
  /\ phase = "up" /\ lane.step = "index"
  /\ index' = ApplyRows(index, [lane.event EXCEPT !.target = NoMemory])
  /\ Answered
  /\ UNCHANGED <<disk, file, maps, phase, rejecters>>

RefreshIndex ==
  /\ phase = "up" /\ lane.step = "index"
  /\ index' = ApplyRows(index, lane.event)
  /\ Answered
  /\ UNCHANGED <<disk, file, maps, phase, rejecters>>

\* The new row, the target and the evidence are upserted one after another.
RefreshIndexFails ==
  /\ phase = "up" /\ lane.step = "index"
  /\ "index" \in Faults
  /\ index' \in {index, ApplyRows(index, [lane.event EXCEPT !.target = NoMemory]),
                 ApplyRows(index, lane.event)}
  /\ Answered
  /\ UNCHANGED <<disk, file, maps, phase, rejecters>>

-----------------------------------------------------------------------------
(***************************************************************************)
(* Rejecting: after a failed commit, inside the lane; and by a reviewer,   *)
(* who reads the status and writes the rejection in two Store calls with   *)
(* nothing in between to keep the lane out.                                *)
(***************************************************************************)
RejectProposal(r, reason) == proposals' = [proposals EXCEPT ![r] = Rejected(reason)]

RejectFailedCommit ==
  /\ phase = "up" /\ lane.step = "reject"
  /\ RejectProposal(lane.event.proposal, "COMMIT_FAILED_PRE_EVENT")
  /\ SaveProposals \/ SaveProposalsFails
  /\ lane' = IdleLane
  /\ UNCHANGED <<disk, index, memories, evidence, continuity, seq, phase, rejecters,
                 told>>

CheckPending(x, r) ==
  /\ Serving /\ rejecters[x] = IdleRejecter
  /\ proposals[r].status = "PENDING"
  /\ rejecters' = [rejecters EXCEPT ![x] = r]
  /\ UNCHANGED <<disk, file, index, maps, phase, lane, told>>

Reject(x) ==
  /\ Serving /\ rejecters[x] # IdleRejecter
  /\ RejectProposal(rejecters[x], "REVIEWER_REJECTED")
  /\ SaveProposals \/ SaveProposalsFails
  /\ rejecters' = [rejecters EXCEPT ![x] = IdleRejecter]
  /\ UNCHANGED <<disk, index, memories, evidence, continuity, seq, phase, lane, told>>

-----------------------------------------------------------------------------
(***************************************************************************)
(* Dying and opening again.  openStore loads the projections, replays the  *)
(* journal over them, rewrites all four and rebuilds the index; a torn or  *)
(* out-of-sequence journal is refused.                                     *)
(***************************************************************************)
Stopped ==
  /\ phase' = "down"
  /\ lane' = IdleLane
  /\ rejecters' = [x \in Rejecters |-> IdleRejecter]
  /\ Emptied
  /\ UNCHANGED <<index, told>>

Kill ==
  /\ "kill" \in Faults
  /\ phase \in {"up", "boot"}
  /\ Stopped
  /\ UNCHANGED <<disk, file>>

\* A partial record may outlive the records before it.  That its bytes are lost
\* as well is the failure that wrote none of them.
PowerLoss ==
  /\ "power" \in Faults
  /\ phase \in {"up", "boot"}
  /\ \E n \in durable .. Len(journal) :
       /\ journal' = SubSeq(journal, 1, n)
       /\ durable' = n
       /\ torn' \in {torn, torn \/ n < Len(journal)}
  /\ Stopped
  /\ UNCHANGED file

\* flushAllLocked: the first n of four files, in its order.  A write that
\* fails, like a death between two writes, leaves the rest as they were.
FlushedAll(n, rows) ==
  [file EXCEPT !.memories = IF n > 0 THEN rows ELSE @,
               !.proposals = IF n > 1 THEN proposals ELSE @,
               !.continuity = IF n > 2 THEN continuity ELSE @,
               !.evidence = IF n > 3 /\ ~LowRAM THEN evidence ELSE @]

Lengths == IF Faults \cap {"flush", "kill", "power"} = {} THEN {4} ELSE 0 .. 4

\* Mutant of Close: the map is written out in low-RAM mode too.
CloseFromMaps ==
  /\ Serving
  /\ \E n \in Lengths : file' = FlushedAll(n, memories)
  /\ Stopped
  /\ UNCHANGED disk

\* Close: every projection is written out, in low-RAM mode from the index.
Close ==
  /\ Serving
  /\ \E n \in Lengths : file' = FlushedAll(n, [m \in MemoryIDs |-> Current(m)])
  /\ Stopped
  /\ UNCHANGED disk

\* Mutant of Acceptable: the order of the events is not checked.
Untorn == ~torn

Acceptable == ~torn /\ \A i \in DOMAIN journal : journal[i].seq = i

Refuse ==
  /\ phase = "down"
  /\ ~Acceptable
  /\ phase' = "refused"
  /\ UNCHANGED <<disk, file, index, maps, lane, rejecters, told>>

\* Mutants of Open: the projection is trusted, for memories or for proposals.
OpenTrustingRows ==
  /\ phase = "down"
  /\ Acceptable
  /\ memories' = file.memories
  /\ proposals' = [r \in Requests |->
                     IF r \in Proposers(journal) THEN Applied ELSE file.proposals[r]]
  /\ evidence' = file.evidence \cup Links(journal)
  /\ continuity' = file.continuity \cup Revisions(journal)
  /\ seq' = Len(journal)
  /\ phase' = "boot"
  /\ lane' = [IdleLane EXCEPT !.step = IF journal = <<>> THEN "index" ELSE "memories"]
  /\ UNCHANGED <<disk, file, index, rejecters, told>>

OpenTrustingProposals ==
  /\ phase = "down"
  /\ Acceptable
  /\ memories' = Replay(file.memories, journal)
  /\ proposals' = file.proposals
  /\ evidence' = file.evidence \cup Links(journal)
  /\ continuity' = file.continuity \cup Revisions(journal)
  /\ seq' = Len(journal)
  /\ phase' = "boot"
  /\ lane' = [IdleLane EXCEPT !.step = IF journal = <<>> THEN "index" ELSE "memories"]
  /\ UNCHANGED <<disk, file, index, rejecters, told>>

Open ==
  /\ phase = "down"
  /\ Acceptable
  /\ memories' = Replay(file.memories, journal)
  /\ proposals' = [r \in Requests |->
                     IF r \in Proposers(journal) THEN Applied ELSE file.proposals[r]]
  /\ evidence' = file.evidence \cup Links(journal)
  /\ continuity' = file.continuity \cup Revisions(journal)
  /\ seq' = Len(journal)
  /\ phase' = "boot"
  /\ lane' = [IdleLane EXCEPT !.step = IF journal = <<>> THEN "index" ELSE "memories"]
  /\ UNCHANGED <<disk, file, index, rejecters, told>>

OpenFails ==
  /\ phase = "boot" /\ lane.step \in FlushStages \cup {"index"}
  /\ "flush" \in Faults
  /\ file' \in {file} \cup (IF lane.step = "index" THEN {} ELSE {Flushed(lane.step)})
  /\ Stopped
  /\ UNCHANGED disk

\* openIndex; then low-RAM mode releases the maps it no longer needs.
Serve ==
  /\ phase = "boot" /\ lane.step = "index"
  /\ index' = memories
  /\ memories' = IF LowRAM THEN [m \in MemoryIDs |-> NoRow] ELSE memories
  /\ evidence' = IF LowRAM THEN {} ELSE evidence
  /\ phase' = "up"
  /\ lane' = IdleLane
  /\ UNCHANGED <<disk, file, proposals, continuity, seq, rejecters, told>>

-----------------------------------------------------------------------------
Next ==
  \/ \E r \in Requests : Replayed(r) \/ Submit(r) \/ Approve(r)
  \/ \E r \in Requests, reason \in {"INTENT", "REVIEW"} : Stage(r, reason)
  \/ \E m \in MemoryIDs : Retire(m)
  \/ CommitConflict \/ WriteEvent \/ AppendFails \/ SyncFails \/ SyncEvent
  \/ FlushProjection \/ FlushFails \/ RefreshIndex \/ RefreshIndexFails
  \/ RejectFailedCommit
  \/ \E x \in Rejecters : Reject(x) \/ \E r \in Requests : CheckPending(x, r)
  \/ Kill \/ PowerLoss \/ Close
  \/ Refuse \/ Open \/ OpenFails \/ Serve

Spec == Init /\ [][Next]_vars

-----------------------------------------------------------------------------
(***************************************************************************)
(* Properties.                                                             *)
(***************************************************************************)
Lanes == [step : LaneSteps, event : Events, way : Ways]

Files ==
  [memories : [MemoryIDs -> Rows], proposals : [Requests -> Proposals],
   evidence : SUBSET EvidenceLinks,
   continuity : SUBSET Nat]

TypeOK ==
  /\ journal \in Seq(Events)
  /\ durable \in 0 .. Len(journal)
  /\ torn \in BOOLEAN
  /\ file \in Files
  /\ index \in [MemoryIDs -> Rows]
  /\ memories \in [MemoryIDs -> Rows]
  /\ proposals \in [Requests -> Proposals]
  /\ evidence \in SUBSET EvidenceLinks
  /\ continuity \in SUBSET Nat
  /\ seq \in Nat
  /\ phase \in {"down", "boot", "up", "refused"}
  /\ lane \in Lanes
  /\ rejecters \in [Rejecters -> Requests \cup {IdleRejecter}]
  /\ told \in SUBSET Requests

\* The events the maps reflect: all but one that is written and not yet synced.
AppliedLog ==
  IF lane.step = "written" THEN SubSeq(journal, 1, Len(journal) - 1) ELSE journal

\* What no further failure of the configured kind can take back.
CommittedLog ==
  IF "power" \in Faults THEN SubSeq(journal, 1, durable) ELSE journal

\* Whatever failed before - a projection, the process, the machine - the maps
\* of a running store are exactly what its journal says, row by row, with no
\* orphaned memory, evidence or continuity entry (server.go:680-683; replay is
\* loadMutationEvents).
StateMatchesJournal ==
  phase \in {"up", "boot"} =>
    /\ (LowRAM /\ phase = "up") \/ memories = Replay(ImportedRows, AppliedLog)
    /\ (LowRAM /\ phase = "up") \/ evidence = Links(AppliedLog)
    /\ continuity = Revisions(AppliedLog)
    /\ \A r \in Proposers(AppliedLog) : proposals[r].status \in {"APPLIED", "REJECTED"}

\* A version of a memory has at most one successor, and a memory that was
\* superseded or forgotten has none: the optimistic check of CommitMutation.
OneSuccessor ==
  \A i, j \in DOMAIN journal :
    i < j /\ journal[i].target # NoMemory /\ journal[i].target = journal[j].target
      => /\ journal[i].life = "ACTIVE"
         /\ journal[i].expected < journal[j].expected

\* However often a client repeats a request, and whatever fails in between, at
\* most one event carries it (the replay check on RequestHash, server.go:594).
AppliedOnce ==
  \A i, j \in DOMAIN journal :
    journal[i].proposal = journal[j].proposal /\ journal[i].proposal # NoRequest => i = j

\* A client that was told APPLIED finds its mutation in what survives.
ToldAppliedSurvives ==
  told \subseteq Proposers(CommittedLog)

\* An error from CommitMutation means that no event was committed, so rejecting
\* the staged proposal is safe (server.go:680-683).
FailedCommitLeavesNoEvent ==
  \A r \in Requests :
    proposals[r] = Rejected("COMMIT_FAILED_PRE_EVENT") => r \notin Proposers(journal)

\* A proposal marked REJECTED is never applied (proposal.go:75).
RejectedNeverApplied ==
  \A r \in Requests :
    proposals[r] = Rejected("REVIEWER_REJECTED") => r \notin Proposers(journal)

\* Whatever an interrupted or failed append left behind, a journal that opens
\* tells one story: no version with two successors, no request applied twice
\* (loadMutationEvents refuses every other journal).
OpensUnambiguous == phase = "boot" => OneSuccessor /\ AppliedOnce

\* An identical request is answered from the proposal it has (server.go:593).
RetryReplays ==
  \A r \in Requests : proposals[r].status = "APPLIED" => TargetAdmitted(r)

\* Every governed row of the projections comes from the import or from an event.
NoRowWithoutEvent ==
  \A m \in MemoryIDs \ Imported :
    file.memories[m] # NoRow => Touching(journal, m) # {}

\* Nothing is ever hard-deleted (server.go:1586): whatever is decided, fails or
\* stops, a row of memories.jsonl is replaced by another row of that memory.  In
\* low-RAM mode Close has only the index to write the rows from; the property is
\* for a store that was opened again after its import, and so indexed.
NothingHardDeleted ==
  [][\A m \in MemoryIDs : file.memories[m] # NoRow => file'.memories[m] # NoRow]_vars

\* The lane implements the abstract memory: a commit takes effect exactly once
\* and at once, at the write (or, if power may fail, at the fsync) of its event.
Memory == INSTANCE GovernedMemory WITH
  rows <- Replay(ImportedRows, CommittedLog), effected <- Proposers(CommittedLog)

ImplementsGovernedMemory == Memory!Spec
=============================================================================
