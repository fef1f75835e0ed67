# TLA+ models of CaseGraphen

CaseGraphen keeps *case spaces* (typed graphs of work, evidence, decisions and
the relations between them) in append-only stores, derives from them what is
ready, blocked or halted, runs workers on what is ready, and hosts an MCP
control plane through which agents submit execution topologies, reserve
resources and report progress. It is a command-line program and a long-lived MCP
host; several of both may work on the same directories at once, and nothing but
files connects them.

This directory holds TLA+ models of its parts, the TLC runs that check them and
the TLAPS proofs about them. `PROJECT.json` lists the components, the runs, the
source lines behind every definition, the hazards the properties are aimed at,
and the findings.

## Inventory

| Part | State | Operations | Hard behaviour | What makes it correct |
|---|---|---|---|---|
| case store (`native_store.rs`, `native_store/support.rs`) | per case: lock file, hash-chained morphism log, head file, periodic snapshots | import, append, rebuild, rebuild adopting the log, read | processes serialized only by a lock file that an operator may remove; crash between any two file-system calls; readers without lock | mutual exclusion, one history, acknowledged entries stay, reads return published states |
| case model and reducer (`native_model.rs`) | cells, relations, log | apply a morphism, when appending and when replaying | two reducers for one language | they accept the same morphisms; authority enters with the genesis only |
| readiness, evaluation, halts (`native_eval/`, `native_halt.rs`) | none (derived) | evaluate, derive halts | evidence edges, reviews and edits in any order | satisfaction rests on a standing review; a halt names what clears it |
| review, gates, close, plans, packets (`native_review.rs`, `native_cli/ops/mutations.rs`, `plan.rs`, `packet.rs`) | review morphisms, proposals, plan file | attach, review, transition, propose, apply, reject, plan review, packet apply and resume, close-check | stale decisions, two writes of a plan review | closed only when resolved; an accepted plan is the reviewed one |
| run dispatch (`native_cli/ops/run.rs`, `exec/`) | run directories, traces, anchors | select steps, dispatch workers, apply results, anchor traces | several calls on one plan; one step of a round failing; kill around spawn and between trace and anchor | transitions apply to ready cells; anchors and traces agree and say what happened; dispatches do not overlap unasked |
| resource allocator (`resource_allocator.rs`) | journal of event files, archive, checkpoints, compaction records, head hint; replay state in memory | reserve, dispose, snapshot, checkpoint, verify, compact | several hosts, caches validated by a hint, crash inside compaction, retried requests, older writers without lock | one ledger: admissible, idempotent, never losing an event; both replay paths agree |
| resource protocol (`resource_protocol.rs`) | occupancy index | grant, release, reconcile allocations | index kept up to date for the life of a host | index decides like the rules |
| control plane (`control_plane.rs`, `mcp_stdio.rs`) and operational host (`bin/casegraphen-mcp-host.rs`) | answer journal in memory and on disk, content-addressed files | tools/call, replay by cursor, publish, start | crash between effect and durable answer, failing writes, journals of older builds | effects at most once, answers stable, reported files whole |
| topology, lint, deployment policy, expansion, redesign, simulation, compiler | topology claims and reviews in the log, bundles on disk, expansion controller | submit, lint, simulate, expand, review, compile, verify, authorise, redesign, migrate | edits on disk, reviews reopened, budgets over several rounds | only the reviewed content gets authority; growth stays within the policy; what runs at once does not collide |
| runtime protocol, integration, streaming reconciliation | none in the host (a call carries its inputs) | ingest, reconcile, release | reports late, repeated, reordered, equivocating | complete means one lineage per node; releases are earned |
| verification policy (`verification_policy.rs`) | none (proofs derived from ledger and files) | derive proofs, reconcile a policy | proofs older than the ledger, files of two runs | a policy is satisfied by the present ledger |
| memory (`memory/`) | memory claims among the evidence of a case, index files | propose, query, explain, history, conflicts, sources, candidates, rebuild and validate an index | a read works on one replay while the case moves on; hiding and conflicts depend on each other and are searched to a fixed point | what is shown is accepted, granted and not hidden; the search ends; what a proposal lets through can be read |
| GitHub evidence, workflow lift, topology reports, worktree adapter, command line, rendering, schemas | none | parse, normalise, print | - | not modelled, see below |

Everything that changes a case goes through the store's append, which refuses a
morphism built on an older revision. That is why `CaseStore` alone has the steps
of an append, and the other modules take an append for one step that either
extends the revision it was built on or is refused.

## Modules and plan

All of the plan's parts that keep state are written:

1. `CaseStore` (with proofs).
2. `ResourceProtocol`, `OccupancyIndex`, `AllocatorLedger`, `ResourceAllocator`,
   with the refinement `ResourceAllocator => AllocatorLedger` (with proofs).
3. `RunDispatch` (with proofs).
4. `CaseEvaluation` (operators) and `CaseLifecycle`, which EXTENDS it (with proofs).
5. `ControlPlane` (with proofs).
6. `GraphTopology`, `GraphSimulation`, `GraphCompiler` (operators) and
   `GraphDeployment`, which composes the three (with proofs).
7. `RuntimeReports`, `VerificationLineage` (operators) and `GraphRun`, which
   composes them with the ledger of a case (with proofs).
8. `MemoryPlane`, which EXTENDS `CaseLifecycle` with the reads of its claims (with
   proofs).

Every safety property that a passing run checks is also proved; what is left to TLC
alone is liveness.

`CaseStore` models one case directory and the processes that work on it. Every
file-system call that another process can observe is an action. `lockTok` and
`lockFull` are the lock file (creator's token, token written yet), `log`, `head`
and `snaps` the files it protects; a file may be torn, a log may lack its last
newline. `pc` of a process names the call it is about to make: `Acquire`,
`LockWrite`, `ReadBack` are `CaseLockGuard::acquire`; `Unlock`, `Unlink` its
`Drop`; `...Check` are the `still_owned` checks before each durable write. An
import goes `Mkdir`, lock, `ImportCheck`, `SnapCheck`, `SnapWrite`, `LogInit`,
`LogWrite`, `HeadCheck`, `HeadWrite`, `Inspect`; an append reads (`ReadLog`,
`ReadHead`, `ReadSnaps`), is validated, writes the scheduled snapshot, the log
line (`LogVerify` reads it back) and the head; its error paths `Truncate` and
`DropSnap` undo these. `Crash` kills a process between calls, `CrashInWrite`
inside one; `OperatorClearsStaleLock` is the recovery that the refusal message
asks for, `OperatorDisplaces` the same with the holder alive.

`ResourceProtocol` holds the conflict and capacity rules as operators on sets of
reservations. `OccupancyIndex` is `ResourceOccupancyIndex` with its insertions
and removals as a specification of its own (`IndexSpec`). `AllocatorLedger` is the abstract specification: a sequence of
committed requests. `ResourceAllocator` is the implementation: `active` and
`archive` map sequence numbers to events, `checkpoints` and `compactions` are
sets of published files, `cache` is each process's replay state, and the actions
are the steps of `append` (`Load`, `AnswerFromJournal`, `Validate`, `Link`,
`Sync`, `Respond`) and of the maintenance that a host performs after a commit at
its interval (`CreateCheckpoint`, `AdoptCheckpoint`, `VerifyLatestCheckpoint`,
`StartCompact`, `ArchiveOne`, `PublishRecord`, `DeleteOne`), each part of it
under a lock of its own. `journal` is a history variable; the refinement maps
the ledger to its requests.

`RunDispatch` models `run --step`, `run --frontier` and `operate`. `log` grows by
appends that extend exactly the revision they were built on, and a revision is a
length of the log. `made`, `file` and `out` are the run directories, their trace
files and the worker's files; `worker` is the process of a trace. A call goes
`Begin`, `Select`, `Reserve` (create_dir) and `Start` (the first trace) for each
selected step; the threads of `dispatch_step_worker` go `Mark`, `Spawn`, `Exit`,
or are refused (`Reject`); after `Join` each result is applied:
`AppendEvidence`, `Judge`, `AppendTransition`, `Finish` (the trace naming its
anchor), `Anchor`, or `Rewind` when that append is refused. Errors go where the
code sends them: a round records a failed step and goes on (`fail`), a single
step drops its `TraceGuard` (`Drop`), and an error in settling a trace ends the
call and drops the guards of all the steps that follow (`Abort`). `Edit` is any
other command on the case space. `aborted` and `stranded` are history variables
that name the traces settled by such a drop and those left naming an anchor by a
kill or a failing write.

`CaseEvaluation` is the evaluator as operators on a case space
`[cells, rels, log]`: source boundaries and trust, canonical evidence coverage,
readiness, obstructions, completion candidates, review gaps, assurance, the
close invariants, and the halts with the operations they name. `Context(cs)`
holds what `NativeCaseIndex` computes once. `CaseLifecycle` has the commands as
actions: `EvidenceAttach`, `PacketApply`, `PacketResume`, `CellTransition`,
`ReviewApply`, `MorphismPropose`, `MorphismApply`, `MorphismReject`,
`PlanPropose`, and the plan review in its two writes, `PlanReviewAppend` and
`PlanReviewWrite`, with `PlanReviewCrash` and `EditPlanFile` between and around
them. Each command passes its operation gate (capability, actor, operation), then
the reducer. `MorphismApplies` is `apply_morphism`, `MorphismAppliesIndexed` is
`apply_morphism_indexed`. The constant `Cases` is the set of cases one may start
with, each a genesis with the batches, packets, changes, plans and review scope
that its users bring; the variable `origin` is the one chosen in `Init` and never
changes.

`ControlPlane` is one host: `mem` and `disk` are `ControlPlaneState` in memory and
in the state file, `temporaries` the temporary files a dead host left, `files`
the content-addressed files (absent, torn, whole), `reserved` what the allocator's
journal holds, `host` the request in progress. A call is found pending, found
journaled or fresh (`CallPending`, `CallJournaled`, `CallFresh`); a fresh one is
marked and committed before `Delegate` runs its effect file by file
(`CreateFile`, `FillFile`, `DelegateReturns`), then `JournalAnswer` and `Commit`
write the answer. `Crash` and `Start` come at any point, `Replay` is a client that
reconnects with its cursor, `AdvanceCase` another writer of the case. `invoked`,
`reply`, `answers`, `cursor` and `seen` are what clients observe.

`GraphTopology` holds topologies, their validation, the linter, the patches of
dynamic expansion, diffs and the policy manifest; `GraphSimulation` the simulator
with its scheduler as a step function folded to the end of the run;
`GraphCompiler` bundles, their verification by compiling the retained inputs
again, the reviewed mode and the deployment authority. `GraphDeployment` lets
clients, reviewers, hosts of two releases and whoever can write the artifact
directory act on one case: `log` and `claims` are the case, `bundles` the files,
`ctl` the expansion controller, `redesign` a proposal and its dispositions,
`reply` what the last call handed out. The disjuncts of `Next` group the calls.

`RuntimeReports` holds validation and reconciliation of runtime reports, of
resource allocations, of a JSONL batch and of a stream; `VerificationLineage` the
producer and verifier proofs and the policy's reconciliation. In `GraphRun` the
client accumulates `records` and `events`, workers and reviewers move the
`ledger` (`CliRun`, `CliReview`), and the client asks: `ReconcileRun`,
`ReconcileStreamingRun`, `ReconcileVerificationLineage`. `HoldProducer`,
`HoldVerifier` and `ReconcileHeld` are a caller of the library that keeps proofs
while the ledger moves. `answer` is the last answer.

`MemoryPlane` adds to the commands of `CaseLifecycle` the reads of the claims among
a case's evidence. A read is taken in three kinds of step, so that the case can
move on between them: `StartRead` checks policy and query, replays the case
(`seen`) and computes what is said of each claim by itself (`base`);
`ResolveConflicts` is one pass of the loop over contradicting pairs, of which
`contested` holds what was found so far; when a pass finds nothing new,
`AnswerRead` projects the claims under grant, scope, time and budget into
`answer`. `MemoryPropose` answers a draft with a
proposal (`proposed`) that `EvidenceAttach` may then bring into the case;
`index` is an index file, which the reads rebuild and validate and which anyone
may edit. Timestamps are civil dates whose validity the model decides as the code
does, leap years included.

The `MC*` modules define the instances, the `*_proofs` modules hold theorems.
Definitions marked "Variant" are mutated forms of the definition that follows
them, used to show that a property can fail.

## Abstractions

- Hashes are collision free: an entry, an event, a bundle or a file is its own
  hash. The state that a log folds to is the log.
- Writes of one line or one small file are atomic unless the process is killed
  inside them; only processes crash, the machine does not lose power, so syncs
  order nothing (a sync may fail, which is an error like another). A panic is
  the death of the process.
- `remove_dir_all` removes the files in one step and the directory in another.
- A failing call is any single call that returns an error, `MaxIoFailures` in all.
- Store: what the operation gate, the reducer and the evaluator's contract refuse
  is a nondeterministic refusal of the entry (`CaseLifecycle` has those rules).
- Dispatch: reading or writing one trace file, listing the run directories
  and a replay are one step each; a failing append has committed nothing; a
  thread does not panic. The plan is accepted when a call begins. What success
  conditions, new obstructions and the plan's transition classes decide is a
  nondeterministic refusal in `Judge`; what a worker binding says is whether it
  is refused. A work cell is ready, blocked or resolved.
- The allocator's identity file is written once and compared ever after; it is
  left out, and so are schema versions.
- Case: the text of a cell and its provenance but for source and review status
  are left out; a morphism is the set of fields it changes; a proposal that
  names an older revision is dropped, since nothing can be done with it.
  Projections and correspondences are left out, and with them the close invariants
  on the declared source boundary and on projection loss and the review gap on
  projection loss: `Closeable` takes them to hold, so the code refuses more.
- Store: `MutualExclusion`, `HistoryIsSound`, `AcknowledgedEntriesStay` and `AnswersAreTrue` are
  stated for holders whose lock nobody removed. The window that a displaced holder
  has between `still_owned` and its write is declared in the code
  (`support.rs` 166-170, `ASSUME-LOCK-001`); what it does beyond that window is
  `CaseStore_displaced.cfg`.
- Control plane: the decision a tool takes is whether its payload is valid; a
  result that claims what only a review may claim is one value, `false_claim`.
  Lines that do not parse and requests without the token change nothing. A tool
  of this build makes no false claim afresh: one comes from the journal of an
  earlier build. `unsupported_schema` and `artifact_hash_collision` are refusals
  like the others.
- Graphs: arrays that the code sorts are sets; a compiler identity is the
  semantic profile it belongs to; the simulator's random numbers are any of the
  values their ranges allow. Its clock and its sums are numbers; the code adds with
  `saturating_add`, so what is said of them holds below 2^64 milliseconds. `summarize`
  sorts its samples and takes three of them; `Ranked` says which without the sorting.
- Runtime: findings are sets of codes. The client's terminal reports are those
  among its records, in arrival order; the stream is closed once the last batch
  has come; readiness of a gated cell is that a claim of the run is accepted
  (`Case` stands in for the evaluator, whose rules are in `CaseEvaluation`), so what
  `StageReleasesAreEarned` says of acceptance is said of that rule. That the case
  evaluates is assumed. Left out, where the code refuses more: repeated ids in the
  lists of a report, media types and unreadable allocations of a batch, the lenses
  and attestation names of a policy.
- Memory: the text of a claim is a set of terms and a size in tokens; the ids of
  claims are ordered by a rank. The required fields of a contract, a policy and a
  query are one Boolean each, `complete`. A read names the revision that was
  replayed, and the findings on an index are one comparison with the index that
  would be built.

## Runs

| Run | States | Shows |
|---|---|---|
| `store_safety` | 1,482,016 | two processes import, append, rebuild and read, with one crash and one failing call: `MutualExclusion`; `HistoryIsSound` (one chain, a head at most one behind, snapshots that agree); `AcknowledgedEntriesStay`; `AnswersAreTrue` (reads are published states, a lost race is reported stale) |
| `store_progress` | 423,509 | `OperationsEnd` behind a dead holder and behind a displaced one |
| `occupancy_index` | 7,396 | `IndexIsFaithful`: the index equals what it is derived from, decides like the rules, and every removal succeeds |
| `allocator_hosts` | 92,339 | two hosts, conflicting and colliding requests, maintenance, a crash and a failing call: `DecidesOnWholeJournal`; `JournalIsSound` (a request is committed at most once, `CommittedOnce`, and the full replay and the one from the checkpoint agree, `ReplayPathsAgree`); and the refinement `ImplementsLedger` |
| `allocator_older_writer` | 87,394 | `OlderWriterDoesNoHarm`: a writer without the lock neither repeats a sequence number nor grants what collides, as long as nothing is compacted; and `CallsReturn` |
| `dispatch_calls` | 678,166 | three calls of two runners on one step, with retries, supersessions and a kill: `TransitionsApplyToReadyCells`, `PlainDispatchIsAlone`, `TracesAreTrue` (anchors verify, traces tell what happened, no anchor is named that is not there) |
| `dispatch_rounds` | 100,703 | one call over three steps with parallel workers, rejected bindings, another writer and a failing operation: `RoundsAreTrue` (`TracesAreTrue`, and no step is dispatched twice by one call, `NoRepeatWithinACall`) and `CallsReturn` |
| `case_commands` | 26,621 | in one case two actors attach, review, reopen, waive, transition, edit and retire in any order, with edits that the rules must refuse; in another a plan file is edited by anyone and its reviews are cut short between log and file: `SatisfactionRestsOnReview`, `CloseRestsOnDecisions` (a case that may be closed leaves no evidence requirement without a standing review or waiver), `NamedOperationsClear`, `ReducersAgree`, `AuthorityIsGenesis`, and `FilesAwaitTheirReview` (`PacketsWaitForReview`, `AcceptedPlanIsReviewedPlan`) |
| `memory_reads` | 54,344 | reads of every small graph of claims that hide and contradict each other, and of a case whose claims are proposed, attached, reviewed and disputed meanwhile: `AnswersAreConsistent`, `AcceptedMemoryIsEarned`, `ProposalsAreReadable`, `ContestedOnlyGrows`, `ConflictsSettle` |
| `control_plane` | 1,586,135 | calls, retries under new ids and keys, a reservation, a journal of an earlier build, one crash and one failing write: `EffectAtMostOnce`, `AnswersAreStable` (a journaled answer is repeated, unless another request took the id of the one that asks), `ReportedFilesAreWhole`, and `ReplaysAreSound` (a host loads the journal it wrote, `OwnJournalLoads`, and serves nothing from it that only a review may claim, `ServedClaimsAreTruthful`) |
| `graph_deployment` | 32,709 | topologies expanded, simulated, reviewed, compiled, rewritten on disk, authorised, migrated: `AuthorityIsReviewed`, `AuthorisedRunsDoNotCollide`, `ExpansionStaysWithinPolicy`, `TransitionsAreExact`, `SimulationFitsTheGraph` |
| `graph_run` | 94,546 | batches and events in any order, held proofs, reviews taken back: `CompleteMeansOneLineage`, `RunAnswersAreTrue` (a batch is what arrived, `BatchIsWhatArrived`, and proposals are outputs of terminal attempts, `ProposalsAreTerminalOutputs`), `StageReleasesAreEarned`, `PolicySatisfactionIsCurrent` |

### Where the code does not keep what is said of it

Eleven sentences of a comment, a guide or an ADR are stated as properties that TLC
refutes; the findings quote them. Each has a configuration beside the runs, which
gives the counterexample when TLC is called with it and the module named.

| Configuration | Module | What happens |
|---|---|---|
| `CaseStore_displaced.cfg` | `MCCaseStore` | a displaced append rolls back and cuts off its successor's entry |
| `CaseStore_import_rollback.cfg` | `MCCaseStore` | an import that cannot take the lock leaves its directory |
| `ResourceAllocator_checkpoint_authority.cfg` | `MCResourceAllocator` | a reused reservation id is bound to another deployment after a checkpoint |
| `RunDispatch_live.cfg` | `MCRunDispatch` | a dispatch that has made its run directory and not yet its trace is passed over by way of a recorded reservation failure and `--retry-step`, and both workers run |
| `RunDispatch_anchors.cfg` | `MCRunDispatch` | the anchor of one step is refused, the call gives up, and the trace of the next step, whose worker ran, is anchored with the hashes from before; no later call can read the traces |
| `CaseLifecycle_halts.cfg` | `MCCaseLifecycle` | a halt on an external wait names `review accept` of the waiting cell, which does not end the wait |
| `CaseLifecycle_waived.cfg` | `MCCaseLifecycle` | a waived contradiction goes on blocking the close check through the completion candidate that is generated for it, which no command can review (`native_review.rs:666`, against `native_halt.rs` 605-608 and `mutating.md` 112-118) |
| `MemoryPlane_rewritten.cfg` | `MCMemoryPlane` | an update morphism rewrites the contract of an accepted claim in place, and reads go on showing it as reviewed (`native_model.rs:1145`, against `docs/design/memory-plane.md` 128-129) |
| `MemoryPlane_kinds.cfg` | `MCMemoryPlane` | a query for some kinds drops claims of other kinds before hiding is decided, so a claim that a decision supersedes is shown as current (`query.rs:296`, against `memory-plane.md` 75 and `memory-threat-model.md` 27) |
| `ControlPlane_cursor.cfg` | `MCControlPlane` | an answer whose durable write failed is replayed, its number is used again after a crash, and a client past that number never sees the second answer |
| `ControlPlane_repeated.cfg` | `MCControlPlane` | a repeat under a new id is answered by its key and leaves no trace of that id; once another request has been executed under the id, the same repeat is refused as a collision (`control_plane.rs:646`, against `docs/guides/graph-engineering-product-surface.md` 56) |

Met while modelling, without a configuration of its own:

- `disposition_reviewed_projected` (`resource_allocator.rs:747`) expects the
  superseding reservation of a reviewed supersession as "validated by resource
  protocol" before that validation has run, and panics without it.
- `CaseLockGuard::acquire` (`support.rs:86`) removes the lock path when writing
  its token fails, without comparing; the other removals compare (ADR 0017).
- An adopting rebuild overwrites a head that lags the log (ADR 0005, 94-95).
- After a compaction the create-new backstop of the journal no longer meets the
  file that was there (`resource_allocator.rs:937`, ADR 0026, 32-34).
- A selection that is stale spawns a worker for a step that another call has
  finished meanwhile: `reserve_trace_identity_from_attempt` passes over finished
  attempts and nothing reads the case space again before the spawn, against the
  comment at `run.rs:1731` ("ineligible before anything spawns"). The transition
  is still refused (`TransitionsApplyToReadyCells`).
- When the replay before `finish` fails, `Drop` records `transition_applied` as
  false although the transition is in the log. Of the traces in `aborted`,
  `TracesTellWhatHappened` therefore says only that one which reports a transition
  is right.
- A run directory left without a trace by a kill is refused by `run --step` for
  good; a frontier round and `--retry-step` get past it.
- A plan review killed between its append and the write of the file leaves a plan
  that every later verification calls tampered with (`plan.rs` 104-185, 301-426).
- `NeedsEvidence` names `evidence attach` for a proof cell, which
  `is_coverage_target` (`mutations.rs:267`) refuses as a target.
- A maintenance failure after an allocator commit is answered as a refusal
  although the reservation stands (`casegraphen-mcp-host.rs:700`); a retry with
  the same key finds it. A torn content-addressed file is a collision for every
  later write of the same content, and nothing removes it.
- A reviewed bundle of the earlier profile can never get a migration proposal
  (`graph_compiler.rs` 748-790, against ADR 0027). A bundle's plan id and plan
  mappings are not bound by its review.
- The linter's `theoretical_parallel_width` is the widest level of a layering and
  can be below what the simulator runs at once.
- Deferred expansion candidates enter `seen` and are duplicates ever after; the
  host starts a fresh controller on every call; rounds after the dry one, and
  patches without nodes after the budget is spent, still propose.
- A stale-graph report with the same node and attempt can supply a released
  artifact (`source_report_names_artifact` ignores the graph; ADR 0025). A stream
  of several chunks is never complete, since each chunk but the last leaves a
  finding. `reconcile_run` does not compare its base revision with the store.
- Through the host no policy that asks for two verifiers can be satisfied, since
  only the latest review of a claim yields a verifier proof
  (`verification_policy.rs` 1281-1289); in the library, with proofs kept, it can,
  and then an accept that was reopened counts again after a later accept. A
  reopen maps to `Rejected`, so a reject proof stays in force after it.
- `validate_work_cell_references` is called nowhere, and the derivations of
  declared and adapter-trusted lineages have no caller.

### Bounds

Two processes are what it takes for a race; four operations let an import, two
competing appends and a reader or a recovery happen; the snapshot interval of two
(32 in the code) gives scheduled and unscheduled entries within a log of three;
three revision ids allow two proposers to choose the same one. The allocator's
three events allow a conflict, a release and a grant that depends on it, with a
checkpoint before the last. For dispatch, three calls let a kill, a recorded
failure and a retry follow each other; three steps on two cells with two threads
give parallel workers, a step that waits for its cell and a second chunk; the
attempts are as many as those calls can reserve.

A case log of four entries behind one proposal lets evidence be attached,
reviewed and reopened, or edited in between; the instance has an inferred and a
source-backed requirement and edits that each rule of the reducer refuses. Three
calls of the control plane let an effect, its loss and its retry happen with one
crash and one failing write. `GraphDeployment` bounds the log by three entries,
one bundle and two rounds: a review, its reopening and the next one, and a spawn
budget that two rounds together exceed. The guards `Designing`, `Compiling`,
`Room` and `Growing` order independent halves of the model so that their
interleavings, which do not read each other's state, are not multiplied. In
`GraphRun` three batches give a report, its repetition and a collision, and one
batch a whole run whose retries form a circle; five
ledger entries give a run, its reviews and a second run; proofs are derived while
no runtime input has arrived, since neither reads the other's state but for
readiness and revision.

`MemoryPlane` starts from every graph of at most three hiding or contradicting
edges on four claims, which has a conflict that depends on a hiding that depends
on a conflict, and from one case that moves for two entries after its genesis
(`MaxLog` 3): a claim attached and reviewed, or disputed, between the replay of a
read and its answer.

Deadlock is not checked where operations are bounded, since every process may be
idle at the bound; `OccupancyIndex` checks it.

### Fairness

Weak fairness on the steps of a process that has started an operation: an
operating system goes on scheduling it. Nobody is obliged to start, crash or
intervene. A worker ends at the latest when its timeout kills it. The waits for
locks have deadlines in the code (`LOCK_WAIT_BUDGET`, the writer timeout), so
giving up is a step like any other. `ResolveConflicts` is fair because the loop of
a read works on its own copy and waits for nobody. The case commands, the control
plane and the graph modules state safety only: each of their calls is answered when it is made, and whether
anyone calls again is not the program's to decide.

## Proofs

`CaseStore_proofs` proves `MutualExclusion` for every number of processes,
operations, crashes and failing calls. The invariant (`LockInv`) says that a
process inside its critical section is the creator of the lock file as long as
no live lock was removed; it needs that tokens are distinct and that a process
that has created the directory (`ImportControl`) cannot remove a lock it does
not own.
The second part proves `HistoryIsSound`, `AcknowledgedEntriesStay` and
`AnswersAreTrue` under the same generality, from `StoreInv`. None of the three is
inductive: whether a rollback may cut the log depends on what the appender read
earlier. `HolderKnows` therefore says, by program position, what the holder of the
lock knows of the files (the log is the one it read, the head names its tail, its
entry continues it, a snapshot with its revision is its own); mutual exclusion keeps
it true while others run. `ChainIsPublished` ties the files to history: everything
ever published is at or before the head, and the log is at most one entry ahead
of it, so cutting off the own line, or emptying an import that was never
published (`ImportIsAlone`), removes nothing acknowledged. Readers hold no lock;
`ReadersSawTheChain` says that what a reader has read is still a prefix of the
log or was never published, which needs that the hash of a removed line is never
written again (`HashesAreFresh`). `ProposersAreBased` (a proposal's base stays covered by
the head) makes a wrong sequence impossible once the base revision agrees.
`StepsWriteUnderLock` and `FilesMove` list once what a step can do to the files, so
that the invariance proofs do not go through the actions each time.

`ResourceAllocator_proofs` proves the inductive invariant `IndInv`: the files
hold exactly the journal (`JournalInv`, `DiskInv`); a sequence number that is
only archived is covered by a checkpoint; every state in memory is a prefix of
the journal, so that a missing next file means it is all of it; only the holder
of the lock publishes. From it follow `DecidesOnWholeJournal` and, when there is
no older writer (`MaxOlderWrites = 0`), the refinement `ImplementsLedger`, for
any requests, hosts, intervals and bounds. Under the same condition `SoundInv`
gives `JournalIsSound`: the journal is a chain in which a key occurs once, what was
acknowledged is in it, and every checkpoint and compaction record is a prefix of
it, so that replaying either way gives the same state. It needs that the holder
of the lock decides on the whole journal (`IndInv`), and what a compaction in
progress has copied (`ProgressInv`).
`OlderWriterDoesNoHarm` is proved for any number of writes without the lock, from
`AnyWriterInv`: while nothing has been archived, every event of the journal still has
its active file, and what a host or an older writer has in memory is a prefix of the
journal; so the file that creating-new may link is the one behind the whole
journal, and who links it has validated its request against all of it. It uses that
the grants of a request are finitely many and their units counts (`GrantsAssumption`).
`IndexIsFaithful` is proved of `IndexSpec`, for any candidates that are finite sets of grants, with units exactly where a rate-limit
group is named (`CandidatesAssumption`). Its sums over sets are folds, of which only the
recursion equation is used: `Total` is shown to be the sum that adds one element
after the other in whatever order (`IsSum`), by a smallest counterexample, and then
to grow and shrink by what an insertion or a removal brings. `IndexInv` adds to the
property that the reservations held are finitely many of the candidates, whose
groups are ones the index has a capacity for.

`RunDispatch_proofs` proves `TransitionsApplyToReadyCells` for any plan, any
number of runners and all bounds. `IInv` adds to it that a call stands before a
transition only if its step was eligible at the revision it will extend
(`Judged`). It is inductive because a later append does not change what the log
says of a cell at a revision (`CellInStable`), because only `Judge` brings a call
there, and because the append is refused unless the log still has that length.
The second part proves `TracesAreTrue`, `PlainDispatchIsAlone` and
`RoundsAreTrue` under the same generality. `TruthInv` follows what a call holds:
`HeldOK` and `ItemOK` say of every reserved step and of the one in progress where
its trace file, its worker and the log stand, by program position; `HeldApart`,
`PicksOK` and disjoint `mine` say that a trace has one writer, and `TraceOK` says
what is left when that writer is gone. `PlainDispatchIsAlone` needs that a plain
dispatch reserves an attempt only when every earlier one is finished
(`EarlierFinished`), and that no finished trace has a worker at large. What is
said of the traces that a call gave up on rests on `ClaimInv`: neither a trace file
nor the guard in memory that is written to it next claims a transition before the
log has one; it is kept apart from `TruthInv`, which is silent on `aborted`.
`StepShape` says so of every action once, so that the invariance proof does not
repeat itself per action; the existence of a last deciding entry is taken from
the well-foundedness of the naturals.

`CaseLifecycle_proofs` proves the six properties of `case_commands` for any cases,
grants, actors, edits and bounds. For `AuthorityIsGenesis` (whatever sequence of
commands is accepted, the capability cells are the ones of the genesis, with the
contents they had there) the invariant `AuthorityInv` adds that every cell has the
fields of a cell (`Typed`): retiring a cell sets its lifecycle and keeps its type
only if it has one, and otherwise nothing would say that a retired cell does not
come out as a capability. The others rest on `CaseInv`, which reads the log as a
record: its first entry is the genesis, every cell comes with exactly one entry
(`AddedOnce`), coverage is recorded by the entry that brings its evidence, a review
comes after what it reviews, canonical reviews are accepted reviews, evidence keeps
boundary and structure while later evidence starts untrusted
(`EvidenceKeepsBoundary`), a packet's move follows an acceptance of its claim that
stands (`PacketsInOrder`). `AppendKeepsCase` proves once that an append whose entry
says what the command does (`EntryFits`) keeps all of it; each command is then
shown to write such an entry. `SatisfactionRestsOnReview` and
`FilesAwaitTheirReview` follow from the order in the log, and so does
`CloseRestsOnDecisions`, since both the evidence and the waiver that the close
check counts are read off the latest review of their target (`MetRestsOnReview`);
`NamedOperationsClear` follows from the evaluator's definitions in a state that
satisfies `CaseInv`, and `ReducersAgree` from comparing the two reducers conjunct by
conjunct (`SameVerdict`). Two assumptions on the constants are used.
`CellsAreComplete`: cells have the fields of `CaseCell`, which is a struct.
`GenesisIsWhole`: a case starts with one creation entry that holds its cells and
relations, which import checks by rebuilding the space from it
(`native_store.rs` 44-75, 1285-1315) and which lift and `space new` write.
`NamedOperationsClear` asks that the new evidence have an id of its own, and
speaks of wants of evidence, proof and events: a dependency on an evidence cell is
not ended by attaching another one.

`MemoryPlane_proofs` proves `ContestedOnlyGrows`, `AnswersAreConsistent`,
`AcceptedMemoryIsEarned` and `ProposalsAreReadable` for any graph of claims, any
policy and any query.
A pass over the claims covers what it started from (`NextPassCovers`), because
more contested claims hide fewer others (`UnhiddenGrows`) and fewer hidden claims
give more conflicts (`ConflictsGrow`): the loop is monotone although hiding is
not. `ReadInProgress` is the invariant: while a read runs, `base` is what its copy
of the case gives, no answer stands, and projection begins only when another pass
would add nothing (`AtFixedPoint`). That an answer projected from a fixed point
fits together is `ProjectionIsConsistent`. That the loop ends is a matter of
fairness and is left to `ConflictsSettle`. `AcceptedMemoryIsEarned` composes the
two modules: every step of a read leaves the case alone, so `CaseInv` and
`AuthorityIsGenesis` hold of the case (`MemoryLeavesTheCase`) when a read copies
it, the copy keeps what they imply of its reviews and capabilities
(`SeenIsEarned`) while the case moves on, and what is shown was selected from
claims in the reader's grant and scope (`ReadIsGranted`). It needs that a claim
past its end is not taken for one not yet begun, hence that a timestamp names one
number (`InstantsAreNumbers`). `ReadsAreComplete` says that a query has the fields
of `MemoryQuery`. `ProposalsAreReadable` follows from what `memory propose` checks,
compared condition by condition with the read path.

`ControlPlane_proofs` proves the four properties of `control_plane` for any
requests, notifications and numbers of calls, crashes and failing writes.
`HostInv` says where a host stands: both copies of the state are ones that
the program writes (`Written`), a request in progress is pending in memory and on
disk, and is in neither index until it is journaled. `EffectInv` adds that a key
whose effect was delegated is pending or answered, in memory and on disk, from
then on; the marker is committed before the effect and withdrawn only by the
write that holds the answer. `StableInv` says that what memory serves is on
disk (`Synced`) and every answer given is backed by both; it is not inductive
without it, because a failed write leaves an answer in memory that the next host
does not know, and what saves the property is that its key stays pending.
`FilesInv` says that what the journal reports is whole, and of a request in
progress that each of its files is whole or still to do. The assumption
`OlderJournalIsWritten` says of the journal of an earlier build what every build has
kept of its file: numbers from 1 to the counter, not repeated, and the two
indexes in step (`control_plane.rs` 438-530, 709-728); it may hold answers that
this build would refuse. A case that starts from such a journal has the files it
reports.

`GraphDeployment_proofs` proves the five properties of `graph_deployment` for
any topologies, documents, claims, rounds and bounds. For `AuthorityIsReviewed`, the
invariant `DeploymentInv` says little of the files, and that is the point: a bundle
that verifies is the compilation of the inputs it holds, whoever wrote it, and the
deployment authority compares its manifest with the latest review of the claim
(`reviewed_deployment_authority`). So the invariant only
needs the shape of the log and of the claims; the rest is that the latest review is
at the largest position of its kind, which exists (`LastPosition`).
`AuthorisedRunsDoNotCollide` is about the linter: what verifies was compiled, hence
linted, and two nodes with conflicting claims in a linted topology are joined by an
exclusion edge or by a path. `SearchAvoidsWhatIsDone` says what a path means for
schedules: a set of finished nodes that is closed under predecessors and does not
hold a node is never entered by the breadth-first search from that node, so nothing
that the search reaches can start while that node has not finished. That the
topology has no cycle is not needed.
`ExpansionStaysWithinPolicy` follows from `WithinPolicy`, which one candidate after the
other keeps (`CandidateStaysWithin`): a proposal is new, what its diff counts is what it
adds (`DiffCountsAdditions`, because a patch that is applied adds new ids, once
each, and updates existing ones), and a fingerprint is seen for each. It also gives
`TransitionsAreExact` what it needs of the controller: its base never changes, and its
proposals apply to it.
`SimulationFitsTheGraph` is about the event loop of the simulator, for any linted
topology, any request that validates, any samples and any order of the node array.
`RunOK` is what every turn of the loop keeps: what has started came after all it
depends on (`InOrder`); the clock lies between every chain of what is done and the sum
of what is done, and so does each finish time with its node added (`InTime`); the widest
moment fits the request and some antichain (`InWidth`). Starting a node keeps it because
a chain that ends in the node is a chain of done nodes and the node; finishing nodes
keeps it because no path joins two active nodes (`ActiveNodesAreApart`, by
`SearchAvoidsWhatIsDone`), so that a chain holds one of them at most
(`ChainsHoldOneActive`). Here the topology must have no cycle: if no node were ready and
none active, no level of `dag_metrics` would leave what is done (`SomeNodeIsNext`), and a
ready node starts when none is active because parallelism and capacities are positive
(`StartNodeCases`). So every turn completes a node, and after as many turns as there are
nodes none is left (`RunFinishes`): the loop ends without its panic. `RankedSamples` says
what the summary takes of the samples, and sums over sets of nodes are taken apart by
`SumSteps` and `SumGrows`.
Searches, loops and sums are recursive functions; that they exist, and
what holds of every step of them, is shown by a smallest counterexample
(`SeenExists`, `LoopExists`, `StartingExists`, `RunExists`, `LevelsExist`, `SumExists`), since induction with an operator as its parameter is not
available. The assumptions are that a topology is a struct (`BaseIsTopology`), that
nodes and candidates are vectors (`TopologiesAreFinite`, `RoundsAreSequences`), that
the limits of a policy are counts (`LimitsAreCounts`), and that the numbers of a
simulation request and the durations of its topology are (`SimulationsAreCounts`: they
are `u32` and `u64` in `GraphSimulationRequest` and `TopologyNode`).

`GraphRun_proofs` proves the four properties of `graph_run` for any topology,
records, events, policies, grants and bounds. For `PolicySatisfactionIsCurrent` the
invariant (`RunInv`) reads the ledger (`LedgerInv`): a run appends an attachment and
its anchor together, a claim is attached once and the claims are numbered, a review
comes after the claim it is of. `HeldInv` says that what a caller keeps are proofs
of this case; that they are still current is not assumed but checked when they are
used, and `CurrentFindings` being empty puts their authority and the latest review
into the present ledger. The quorum counts verifier proofs, the property counts
actors: the actors of the verifiers that qualify are different, which gives an
injection into the accepting actors of the ledger. `StageReleasesAreEarned` adds
that what was handed over are the batches' records and stream events
(`InputInv`), and goes through the stages of `reconcile_stream`: no finding on the
chunks gives every index up to the final one, exactly once (`ChunksAreNumbered`);
the terminal attempt of a producer is its only report that no valid retry names
(`TerminalIsTheOnlyEnd`), and a valid retry names a failure (`RetriedAttempts`). The
assumptions are that a quorum is a count (`PoliciesHaveMinimum`), that a batch is a
sequence (`BatchesAreSequences`) and that an absent review status is not an acceptance
(`NoneIsNoStatus`).
The proof found the property overstated as it had been checked before: it also
said that no report retries the released attempt. That held only of the small
instance. With the batch `CircularRun`, in which the failed attempt claims to retry
the success that retried it, the stage is released: that claim is no valid retry,
completeness reports `invalid_retry_lineage`, and a release does not wait for it. What does hold, and is now stated, is that every other
attempt of the producer failed and was retried.

`CompleteMeansOneLineage` compares what `reconcile_runtime_reports` computes (roots,
valid retries, a map of parents, a walk along it from every report, findings for
whatever is odd) with the reference (the reports of a node, put in some order, form
a chain of retries). `SettledRun` stands between the two. On the side of the code,
a walk is a recursive function, shown to exist and to see what it passes
(`WalkExists`, `WalkSees`, `WalkStays`, `WalkLeaves`); when nothing is odd the reports
are `Orderly` (`NothingOddIsOrderly`): each names a failed report among them or none,
no two name the same one, exactly one starts, and no set of them retries only within
itself. Orderly reports with one end are a chain (`OrderlyIsAChain`, by a smallest
counterexample over the number of reports, taking the end off), and in a chain
nothing is odd (`ChainIsInOrder`). `CompleteIsSettled` and
`SettledIsOneLineageEach` then treat all nodes and edges at once. For
`RunAnswersAreTrue`, ingestion without a finding keeps exactly what arrived
(`IngestedIsArrived`), the report vector holds each of those reports once because
their ranks by id are different (`VectorOfReports`), no finding on resources means
that the runtime took what was granted (`ResourcesMean`), and together a batch is
complete exactly when what arrived is (`BatchMeans`); in a settled lineage only the
end succeeded (`SuccessIsTerminal`), so nothing else is proposed (`ProposalsMean`).
The assumptions are that nodes and allocations are vectors (`GraphsAreFinite`,
`BundlesAreFinite`) and that a report record carries its report's id
(`ReportsAreNamed`), which `ingest_jsonl` takes it from.
The proof sharpened both statements. The reference had compared with the ends of
lineages in a way that was right only where each node has one lineage, and left out
that ids of expected nodes and edges are not repeated; the batch property had not
said that what the client expects of resources must fit the topology and the reports
(`ExpectationsFit`), which the instance's expectations did.

Only model-checked: everything about liveness, since fairness and `ENABLED` are beyond the
proof system. What recursive definitions compute is proved where a smallest
counterexample over numbers or finite sets replaces the induction over data.

## Not modelled

- GitHub evidence (`github_evidence/`, about 6,300 lines): pure functions that
  normalise API documents; nothing is kept between calls and what is attached is
  an evidence cell like any other, which `CaseLifecycle` has.
- Workflow and issue lift: translation of documents into a genesis, with which
  `CaseLifecycle` starts.
- Topology reports and diagnostics: linear algebra on floating-point numbers.
- Worktree adapter and path confinement: calls of git and of the file system.
- Command line, text rendering, schema catalogues: no state of their own.
- Of modelled components: how a worker's process group is contained and its
  streams captured (`exec/worker.rs`), what a worker binding must say, the
  wording of compiled plans and reports, the declared and adapter-trusted paths
  of the verification policy, `validate_memory_use_report`, which has no caller.
