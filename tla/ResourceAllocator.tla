------------------------- MODULE ResourceAllocator -------------------------
(***************************************************************************)
(* AtomicResourceAllocator (src/resource_allocator.rs) as operational      *)
(* hosts use it: several processes share a journal directory.  An event is *)
(* published by hard-linking a finished file under its sequence number; an *)
(* advisory lock serializes the processes and dies with them; each process *)
(* keeps the replayed state in memory and validates it against a head      *)
(* hint; checkpoints shorten replay; compaction moves a covered prefix     *)
(* into an archive.  A host that commits an event at its checkpoint        *)
(* interval goes on to checkpoint, verify and compact, each under a lock   *)
(* of its own (src/bin/casegraphen-mcp-host.rs).                           *)
(*                                                                         *)
(* A file whose content never changes is its content.  An event's hash is  *)
(* the number of its publication.  The replay state is the sequence of     *)
(* events it was folded from and the length `base` of the prefix that came *)
(* from a checkpoint: the indexes of ReplayState are functions of these.   *)
(* The allocator identity, written once under the lock, is left out.       *)
(***************************************************************************)
EXTENDS Integers, Sequences, FiniteSets, ResourceProtocol

CONSTANTS Requests, NoId, NoDeployment,   \* see AllocatorLedger
          Procs, NoProc,
          NoRequest, NoEvent, NoHint,
          CheckpointInterval,   \* maintenance interval of the hosts; 0: none
          Retain,               \* retain_active_event_count of the policy
          MaxEvents,            \* bound: sequence numbers
          MaxOps,               \* bound: operations started
          MaxCrashes,           \* bound: processes killed
          MaxIoFailures,        \* bound: file-system calls that fail
          MaxOlderWrites        \* bound: events of a writer that takes no lock

ASSUME AllocatorAssumption ==
    /\ NoProc \notin Procs
    /\ {CheckpointInterval, Retain, MaxEvents, MaxOps, MaxCrashes,
        MaxIoFailures, MaxOlderWrites} \subseteq Nat

\* A reservation request lists its grants; units are counts (u64).
ASSUME GrantsAssumption ==
    \A q \in Requests : q.kind = "reserve" =>
        IsFiniteSet(q.grants) /\ \A g \in q.grants : g.units \in Nat

VARIABLES
    \* the journal directory
    active, archive,          \* sequence number -> event
    checkpoints, compactions,
    hint,                     \* .allocator-head-hint
    lock,                     \* holder of .allocator-writer-lock
    \* one operation of each process
    pc,
    call,                     \* the call's stage, request and intermediate values
    cache,                    \* replay_cache
    result,
    \* the environment
    started, crashes, ioFailures, olderWrites, olderView,
    \* history
    journal,                  \* the events in the order of their publication
    acked                     \* <<key, event hash>> of the successful answers

files == <<active, archive, checkpoints, compactions>>
disk == <<files, hint>>
env == <<started, crashes, ioFailures, olderWrites, olderView>>
EnvButIo == <<started, crashes, olderWrites, olderView>>
history == <<journal, acked>>
vars == <<disk, lock, pc, call, cache, result, env, history>>

Ledger == INSTANCE AllocatorLedger WITH ledger <- [i \in 1 .. Len(journal) |-> journal[i].req]

----------------------------------------------------------------------------
(* Replay *)

Seqs == 1 .. MaxEvents
Event == [seq : Seqs, prior : 0 .. MaxEvents, h : 1 .. MaxEvents, req : Requests]

ASSUME NoEventAssumption == NoEvent \notin Event

Prefix(es, n) == SubSeq(es, 1, n)
HashAt(es, n) == IF n = 0 THEN 0 ELSE es[n].h
LastHash(es) == HashAt(es, Len(es))
RequestsOf(es) == [i \in 1 .. Len(es) |-> es[i].req]

\* apply_checked_event for the event behind es
Applies(es, e) ==
    /\ e.seq = Len(es) + 1
    /\ e.prior = LastHash(es)
    /\ ~Ledger!KeyUsed(RequestsOf(es), e.req.key)
    /\ Ledger!Admissible(RequestsOf(es), e.req)
Chain(es) == \A i \in 1 .. Len(es) : Applies(Prefix(es, i - 1), es[i])

\* The file of a sequence number: the active one, otherwise the archived one
At(n) == IF active[n] # NoEvent THEN active[n] ELSE archive[n]
Present == {n \in Seqs : At(n) # NoEvent}

\* validate_published_compactions
CompactionsValid(verifyBytes) ==
    \A c \in compactions :
        /\ c.checkpoint \in checkpoints
        /\ \A e \in c.archived : /\ archive[e.seq] # NoEvent
                                 /\ verifyBytes => archive[e.seq] = e

\* full_replay: active and archived files from sequence one
FullReplay ==
    LET es == [n \in 1 .. Cardinality(Present) |-> At(n)]
    IN  [events |-> es, base |-> 0,
         ok |-> /\ CompactionsValid(TRUE)
                /\ \A n \in Seqs : active[n] # NoEvent /\ archive[n] # NoEvent
                                     => active[n] = archive[n]
                /\ Present = 1 .. Len(es)
                /\ Chain(es)]

\* load_latest_checkpoint with validate_checkpoint; <<>> when there is none
CheckpointsValid ==
    /\ \A c \in checkpoints : Chain(c)
    /\ \A c, d \in checkpoints : Len(c) = Len(d) => c = d
LatestCheckpoint ==
    IF checkpoints = {} THEN <<>>
    ELSE CHOOSE c \in checkpoints : \A d \in checkpoints : Len(d) <= Len(c)

\* replay: the newest checkpoint, whose prefix must be on disk, and the active
\* files behind it
Replay ==
    LET c == LatestCheckpoint
        suffix == {n \in Seqs : n > Len(c) /\ active[n] # NoEvent}
        es == c \o [i \in 1 .. Cardinality(suffix) |-> active[Len(c) + i]]
    IN  [events |-> es, base |-> Len(c),
         ok |-> /\ CompactionsValid(FALSE)
                /\ CheckpointsValid
                /\ \A n \in 1 .. Len(c) : At(n) = c[n]
                /\ suffix = Len(c) + 1 .. Len(es)
                /\ Chain(es)]

StateOf(r) == [events |-> r.events, base |-> r.base]
HintOf(es) == [generation |-> Len(es), h |-> LastHash(es)]

\* Where ReplayState keeps the deployment of a reservation id.  Events behind the
\* checkpoint are inserted in their order; replay_state_from_checkpoint inserts
\* the covered ones in the order of their idempotency keys.
ReviewedReserves(st, id) ==
    {i \in 1 .. Len(st.events) :
        /\ st.events[i].req.kind = "reserve" /\ st.events[i].req.id = id
        /\ st.events[i].req.deployment # NoDeployment}
BindingByReservationId(st, id) ==
    LET all == ReviewedReserves(st, id)
        late == {i \in all : i > st.base}
        winner == IF late # {} THEN CHOOSE i \in late : \A j \in late : j <= i
                  ELSE CHOOSE i \in all : \A j \in all :
                          st.events[j].req.key <= st.events[i].req.key
    IN  IF all = {} THEN NoDeployment ELSE st.events[winner].req.deployment
BindingByIdentity(st, id, attempt) ==
    LET of == {i \in ReviewedReserves(st, id) : st.events[i].req.attempt = attempt}
    IN  IF of = {} THEN NoDeployment ELSE st.events[CHOOSE i \in of : TRUE].req.deployment

NoCache == [set |-> FALSE, st |-> [events |-> <<>>, base |-> 0],
            checkpoints |-> {}, compactions |-> {}]

\* Variant: the next sequence number is not probed.
CacheValidWithoutProbe(p) ==
    /\ cache[p].set /\ hint # NoHint
    /\ cache[p].checkpoints = checkpoints /\ cache[p].compactions = compactions
    /\ hint = HintOf(cache[p].st.events)

\* replay_cache_locked's test.  Checkpoints and compaction records are only ever
\* added, so an inventory is the set of files.
CacheValid(p) ==
    LET es == cache[p].st.events IN
    /\ cache[p].set /\ hint # NoHint
    /\ cache[p].checkpoints = checkpoints /\ cache[p].compactions = compactions
    /\ hint = HintOf(es)
    /\ Len(es) + 1 \notin Present

----------------------------------------------------------------------------
(* Control *)

\* binding: the reviewed deployment looked up for a disposition; proof: the
\* VerifiedResourceAllocatorCheckpoint; todo: the sequence numbers that compaction
\* still has to move.
NoCall == [stage |-> "none", request |-> NoRequest, binding |-> NoDeployment,
           proof |-> <<>>, todo |-> {}]
Stage(p) == call[p].stage
Request(p) == call[p].request

Goto(p, l) == pc' = [pc EXCEPT ![p] = l]
IoFails == ioFailures < MaxIoFailures /\ ioFailures' = ioFailures + 1
Finish(p, r) == /\ result' = [result EXCEPT ![p] = r]
                /\ Goto(p, "idle")
                /\ call' = [call EXCEPT ![p] = NoCall]
                /\ lock' = NoProc
\* The lock is released and taken again for the next call.
NextCall(p, c) == /\ call' = [call EXCEPT ![p] = c]
                  /\ Goto(p, "lock")
                  /\ lock' = NoProc
                  /\ UNCHANGED result

\* publish_head_hint: the old hint is removed before the new one is renamed into
\* place, so a failure leaves the old one or none.  Callers ignore the failure.
PublishHint(es) ==
    \/ hint' = HintOf(es) /\ UNCHANGED ioFailures
    \/ IoFails /\ hint' \in {hint, NoHint}

Begin(p, q, s) ==
    /\ pc[p] = "idle"
    /\ started < MaxOps
    /\ started' = started + 1
    /\ call' = [call EXCEPT ![p].request = q, ![p].stage = s]
    /\ result' = [result EXCEPT ![p] = "none"]
    /\ Goto(p, "lock")
    /\ UNCHANGED <<disk, lock, cache, crashes, ioFailures, olderWrites, olderView, history>>

\* A reviewed disposition first looks up the deployment of its target.
StartRequest(p, q) ==
    Begin(p, q, IF q.kind = "disposeReviewed" THEN "lookup" ELSE "append")
StartSnapshot(p) == Begin(p, NoRequest, "snapshot")
StartMaintenance(p) == Begin(p, NoRequest, "checkpoint")

\* acquire_writer_lock: try_lock_exclusive until the timeout
AcquireWriterLock(p) ==
    /\ pc[p] = "lock"
    /\ \/ /\ lock = NoProc
          /\ lock' = p
          /\ Goto(p, IF Stage(p) \in {"lookup", "append", "snapshot"} THEN "load" ELSE Stage(p))
          /\ UNCHANGED <<call, result>>
       \/ /\ lock # NoProc
          /\ result' = [result EXCEPT ![p] = "WriterBusy"]
          /\ Goto(p, "idle")
          /\ call' = [call EXCEPT ![p] = NoCall]
          /\ UNCHANGED lock
    /\ UNCHANGED <<disk, cache, env, history>>

\* replay_cache_locked
Load(p) ==
    /\ pc[p] = "load"
    /\ \/ /\ CacheValid(p)
          /\ Goto(p, "decide")
          /\ UNCHANGED <<hint, lock, call, cache, result, ioFailures>>
       \/ /\ ~CacheValid(p) /\ Replay.ok
          /\ cache' = [cache EXCEPT ![p] =
                [set |-> TRUE, st |-> StateOf(Replay),
                 checkpoints |-> checkpoints, compactions |-> compactions]]
          /\ PublishHint(Replay.events)
          /\ Goto(p, "decide")
          /\ UNCHANGED <<lock, call, result>>
       \/ /\ ~CacheValid(p) /\ ~Replay.ok
          /\ Finish(p, "Integrity")
          /\ UNCHANGED <<hint, cache, ioFailures>>
       \/ ~CacheValid(p) /\ IoFails /\ Finish(p, "io") /\ UNCHANGED <<hint, cache>>
    /\ UNCHANGED <<files, EnvButIo, history>>

----------------------------------------------------------------------------
(* append and the reads *)

State(p) == cache[p].st
Committed(p) == RequestsOf(State(p).events)

\* reviewed_reservation_binding_by_identity
Lookup(p) ==
    LET q == Request(p) found == BindingByIdentity(State(p), q.id, q.attempt) IN
    /\ pc[p] = "decide" /\ Stage(p) = "lookup"
    /\ IF found = NoDeployment THEN Finish(p, "Integrity")
       ELSE NextCall(p, [call[p] EXCEPT !.stage = "append", !.binding = found])
    /\ UNCHANGED <<disk, cache, env, history>>

\* snapshot
Report(p) ==
    /\ pc[p] = "decide" /\ Stage(p) = "snapshot"
    /\ Finish(p, "ok")
    /\ UNCHANGED <<disk, cache, env, history>>

\* Variant: a key that is already committed is appended again.
ExistingEventForgotten(p) == {}

\* The committed event under the request's idempotency key
ExistingEvent(p) ==
    {i \in 1 .. Len(State(p).events) : State(p).events[i].req.key = Request(p).key}

\* The existing event answers for the request, or its key was used for another.
AnswerFromJournal(p) ==
    /\ pc[p] = "decide" /\ Stage(p) = "append"
    /\ \E i \in ExistingEvent(p) :
          LET e == State(p).events[i] IN
          IF e.req = Request(p) THEN Finish(p, "ok") /\ acked' = acked \cup {<<e.req.key, e.h>>}
                                ELSE Finish(p, "IdempotencyCollision") /\ UNCHANGED acked
    /\ UNCHANGED <<disk, cache, env, journal>>

\* disposition_reviewed_projected: the target's deployment and, for a
\* supersession, the same deployment for the superseding reservation
ReviewAccepts(p) ==
    LET q == Request(p) IN
    q.kind = "disposeReviewed" =>
        /\ BindingByIdentity(State(p), q.id, q.attempt) = call[p].binding
        /\ q.how = "supersede" => BindingByReservationId(State(p), q.superseding) = call[p].binding

\* .expect("validated by resource protocol") on an absent superseding reservation
ReviewPanics(p) ==
    LET q == Request(p) IN
    /\ q.kind = "disposeReviewed" /\ q.how = "supersede" /\ q.superseding = NoId
    /\ BindingByIdentity(State(p), q.id, q.attempt) = call[p].binding

Validate(p) ==
    /\ pc[p] = "decide" /\ Stage(p) = "append"
    /\ ExistingEvent(p) = {}
    /\ LET accepted == ReviewAccepts(p) /\ Ledger!Admissible(Committed(p), Request(p))
       IN  \/ /\ ReviewPanics(p)              \* the process ends
              /\ Finish(p, "panicked")
              /\ cache' = [cache EXCEPT ![p] = NoCache]
           \/ /\ ~ReviewPanics(p) /\ accepted /\ Len(State(p).events) < MaxEvents
              /\ Goto(p, "link")
              /\ UNCHANGED <<lock, call, result, cache>>
           \/ /\ ~ReviewPanics(p) /\ ~accepted
              /\ Finish(p, "refused")
              /\ UNCHANGED cache
    /\ UNCHANGED <<disk, env, history>>

NewEvent(es, q) == [seq |-> Len(es) + 1, prior |-> LastHash(es), h |-> Len(journal) + 1, req |-> q]

\* Variant: a rename takes the sequence number from whoever has it.
LinkReplacing(p) ==
    LET e == NewEvent(State(p).events, Request(p)) IN
    /\ pc[p] = "link"
    /\ active' = [active EXCEPT ![e.seq] = e]
    /\ journal' = Append(journal, e)
    /\ Goto(p, "sync")
    /\ UNCHANGED <<archive, checkpoints, compactions, hint, lock, call, cache, result, env, acked>>

\* Variant: the retry decides again on the state it already had.
LinkRetryingBlindly(p) ==
    LET e == NewEvent(State(p).events, Request(p)) IN
    /\ pc[p] = "link"
    /\ IF active[e.seq] = NoEvent
       THEN /\ active' = [active EXCEPT ![e.seq] = e]
            /\ journal' = Append(journal, e)
            /\ Goto(p, "sync")
       ELSE Goto(p, "decide") /\ UNCHANGED <<active, journal>>
    /\ UNCHANGED <<archive, checkpoints, compactions, hint, lock, call, cache, result, env, acked>>

\* hard_link publishes the finished file, unless the sequence number is taken:
\* then the journal is replayed and the request decided again.
Link(p) ==
    LET e == NewEvent(State(p).events, Request(p)) IN
    /\ pc[p] = "link"
    /\ \/ /\ active[e.seq] = NoEvent
          /\ active' = [active EXCEPT ![e.seq] = e]
          /\ journal' = Append(journal, e)
          /\ Goto(p, "sync")
          /\ UNCHANGED <<hint, lock, call, cache, result, ioFailures>>
       \/ /\ active[e.seq] # NoEvent /\ Replay.ok
          /\ cache' = [cache EXCEPT ![p].st = StateOf(Replay)]
          /\ PublishHint(Replay.events)
          /\ Goto(p, "decide")
          /\ UNCHANGED <<active, journal, lock, call, result>>
       \/ /\ active[e.seq] # NoEvent /\ ~Replay.ok
          /\ Finish(p, "Integrity")
          /\ UNCHANGED <<active, hint, journal, cache, ioFailures>>
       \/ /\ IoFails
          /\ Finish(p, "io")
          /\ UNCHANGED <<active, hint, journal, cache>>
    /\ UNCHANGED <<archive, checkpoints, compactions, EnvButIo, acked>>

\* The directory is synced before the event enters the state in memory.  A failed
\* sync is reported although the event is in the journal.
Sync(p) ==
    LET st == State(p) e == active[Len(st.events) + 1] IN
    /\ pc[p] = "sync"
    /\ \/ /\ cache' = [cache EXCEPT ![p].st.events = Append(st.events, e)]
          /\ Goto(p, "hint")
          /\ UNCHANGED <<lock, call, result, ioFailures>>
       \/ IoFails /\ Finish(p, "io") /\ UNCHANGED cache
    /\ UNCHANGED <<disk, EnvButIo, history>>

\* The answer; maintain_resource_journal follows at the interval.
Respond(p) ==
    LET es == State(p).events IN
    /\ pc[p] = "hint"
    /\ PublishHint(es)
    /\ acked' = acked \cup {<<Request(p).key, LastHash(es)>>}
    /\ IF CheckpointInterval # 0 /\ Len(es) % CheckpointInterval = 0
       THEN NextCall(p, [NoCall EXCEPT !.stage = "checkpoint"]) ELSE Finish(p, "ok")
    /\ UNCHANGED <<files, cache, EnvButIo, journal>>

----------------------------------------------------------------------------
(* maintain_resource_journal: create_checkpoint, verify_latest_checkpoint, compact *)

\* create_checkpoint publishes what a complete replay yields.
CreateCheckpoint(p) ==
    /\ pc[p] = "checkpoint"
    /\ \/ /\ FullReplay.ok /\ FullReplay.events # <<>>
          /\ checkpoints' = checkpoints \cup {FullReplay.events}
          /\ Goto(p, "adopt")
          /\ UNCHANGED <<lock, call, result, ioFailures>>
       \/ /\ ~FullReplay.ok \/ FullReplay.events = <<>>
          /\ Finish(p, "Integrity")
          /\ UNCHANGED <<checkpoints, ioFailures>>
       \/ /\ FullReplay.ok /\ FullReplay.events # <<>> /\ IoFails
          /\ checkpoints' \in {checkpoints, checkpoints \cup {FullReplay.events}}
          /\ Finish(p, "io")
    /\ UNCHANGED <<active, archive, compactions, hint, cache, EnvButIo, history>>

\* ... and keeps the replayed state.
AdoptCheckpoint(p) ==
    /\ pc[p] = "adopt"
    /\ PublishHint(FullReplay.events)
    /\ cache' = [cache EXCEPT ![p] = [set |-> TRUE, st |-> StateOf(FullReplay),
                                      checkpoints |-> checkpoints, compactions |-> compactions]]
    /\ NextCall(p, [call[p] EXCEPT !.stage = "verify"])
    /\ UNCHANGED <<files, EnvButIo, history>>

VerifyLatestCheckpoint(p) ==
    LET c == LatestCheckpoint IN
    /\ pc[p] = "verify"
    /\ IF /\ c # <<>> /\ CheckpointsValid /\ FullReplay.ok
          /\ Len(c) <= Len(FullReplay.events) /\ Prefix(FullReplay.events, Len(c)) = c
       THEN NextCall(p, [call[p] EXCEPT !.stage = "compact", !.proof = c])
       ELSE Finish(p, "Integrity")
    /\ UNCHANGED <<disk, cache, env, history>>

\* Variant: the cut is not limited to what the checkpoint covers.
CoveredAll(p) == {n \in Seqs : active[n] # NoEvent}

\* The active files that the retention policy lets compaction move
Covered(p) == {n \in 1 .. Len(call[p].proof) - Retain : active[n] # NoEvent}
FirstTodo(p) == CHOOSE n \in call[p].todo : \A m \in call[p].todo : n <= m

StartCompact(p) ==
    /\ pc[p] = "compact"
    /\ IF LatestCheckpoint = call[p].proof /\ CheckpointsValid
       THEN /\ call' = [call EXCEPT ![p].todo = Covered(p)]
            /\ Goto(p, IF Covered(p) = {} THEN "record" ELSE "archive")
            /\ UNCHANGED <<lock, result>>
       ELSE Finish(p, "Integrity")
    /\ UNCHANGED <<disk, cache, env, history>>

ArchiveOne(p) ==
    LET n == FirstTodo(p) IN
    /\ pc[p] = "archive"
    /\ \/ /\ archive[n] \in {NoEvent, active[n]}
          /\ archive' = [archive EXCEPT ![n] = active[n]]
          /\ call' = [call EXCEPT ![p].todo = @ \ {n}]
          /\ Goto(p, IF call[p].todo = {n} THEN "record" ELSE "archive")
          /\ UNCHANGED <<lock, result, ioFailures>>
       \/ /\ archive[n] \notin {NoEvent, active[n]}
          /\ Finish(p, "Integrity")
          /\ UNCHANGED <<archive, ioFailures>>
       \/ IoFails /\ Finish(p, "io") /\ UNCHANGED archive
    /\ UNCHANGED <<active, checkpoints, compactions, hint, cache, EnvButIo, history>>

PublishRecord(p) ==
    LET record == [checkpoint |-> call[p].proof, archived |-> {active[n] : n \in Covered(p)}] IN
    /\ pc[p] = "record"
    /\ \/ /\ compactions' = compactions \cup {record}
          /\ IF Covered(p) = {} THEN Finish(p, "ok")
             ELSE /\ call' = [call EXCEPT ![p].todo = Covered(p)]
                  /\ Goto(p, "delete")
                  /\ UNCHANGED <<lock, result>>
          /\ UNCHANGED ioFailures
       \/ /\ IoFails
          /\ compactions' \in {compactions, compactions \cup {record}}
          /\ Finish(p, "io")
    /\ UNCHANGED <<active, archive, checkpoints, hint, cache, EnvButIo, history>>

\* The archived file is there and has the same bytes.
ArchivedCopy(n) == archive[n] # NoEvent /\ archive[n] = active[n]

DeleteOne(p) ==
    LET n == FirstTodo(p) IN
    /\ pc[p] = "delete"
    /\ \/ /\ ArchivedCopy(n)
          /\ active' = [active EXCEPT ![n] = NoEvent]
          /\ IF call[p].todo = {n} THEN Finish(p, "ok")
             ELSE /\ call' = [call EXCEPT ![p].todo = @ \ {n}]
                  /\ Goto(p, "delete")
                  /\ UNCHANGED <<lock, result>>
          /\ UNCHANGED ioFailures
       \/ /\ ~ArchivedCopy(n)
          /\ Finish(p, "Integrity")
          /\ UNCHANGED <<active, ioFailures>>
       \/ IoFails /\ Finish(p, "io") /\ UNCHANGED active
    /\ UNCHANGED <<archive, checkpoints, compactions, hint, cache, EnvButIo, history>>

----------------------------------------------------------------------------
(* The environment *)

\* A process is killed.  The operating system releases its lock; its memory is
\* gone.  Inside publish_head_hint the hint may be missing.
Crash(p) ==
    /\ crashes < MaxCrashes
    /\ crashes' = crashes + 1
    /\ pc[p] # "idle" \/ cache[p].set
    /\ cache' = [cache EXCEPT ![p] = NoCache]
    /\ Goto(p, "idle")
    /\ call' = [call EXCEPT ![p] = NoCall]
    /\ result' = [result EXCEPT ![p] = "crashed"]
    /\ lock' = IF lock = p THEN NoProc ELSE lock
    /\ \/ UNCHANGED hint
       \/ pc[p] \in {"load", "hint", "adopt"} /\ hint' = NoHint
    /\ UNCHANGED <<files, started, ioFailures, olderWrites, olderView, history>>

\* An older writer that does not honor the lock: it replays the active files and
\* later publishes its event with the same create-new link.
OlderWriterReads ==
    LET m == Cardinality({n \in Seqs : active[n] # NoEvent})
        es == [n \in 1 .. m |-> active[n]] IN
    /\ olderWrites < MaxOlderWrites
    /\ \A n \in 1 .. m : active[n] # NoEvent
    /\ olderView' = es
    /\ UNCHANGED <<disk, lock, pc, call, cache, result,
                   started, crashes, ioFailures, olderWrites, history>>

OlderWriterLinks(q) ==
    LET e == NewEvent(olderView, q) IN
    /\ olderWrites < MaxOlderWrites
    /\ Applies(olderView, e)
    /\ e.seq \in Seqs /\ active[e.seq] = NoEvent
    /\ active' = [active EXCEPT ![e.seq] = e]
    /\ journal' = Append(journal, e)
    /\ olderWrites' = olderWrites + 1
    /\ UNCHANGED <<archive, checkpoints, compactions, hint, lock, pc, call, cache, result,
                   started, crashes, ioFailures, olderView, acked>>

----------------------------------------------------------------------------
Init ==
    /\ active = [n \in Seqs |-> NoEvent] /\ archive = [n \in Seqs |-> NoEvent]
    /\ checkpoints = {} /\ compactions = {} /\ hint = NoHint /\ lock = NoProc
    /\ pc = [p \in Procs |-> "idle"] /\ call = [p \in Procs |-> NoCall]
    /\ cache = [p \in Procs |-> NoCache]
    /\ result = [p \in Procs |-> "none"]
    /\ started = 0 /\ crashes = 0 /\ ioFailures = 0
    /\ olderWrites = 0 /\ olderView = <<>>
    /\ journal = <<>> /\ acked = {}

Start(p) == \/ \E q \in Requests : StartRequest(p, q)
            \/ StartSnapshot(p) \/ StartMaintenance(p)
AppendStep(p) == \/ AcquireWriterLock(p) \/ Load(p) \/ Lookup(p) \/ Report(p)
                 \/ AnswerFromJournal(p) \/ Validate(p) \/ Link(p) \/ Sync(p) \/ Respond(p)
MaintenanceStep(p) == \/ CreateCheckpoint(p) \/ AdoptCheckpoint(p) \/ VerifyLatestCheckpoint(p)
                      \/ StartCompact(p) \/ ArchiveOne(p) \/ PublishRecord(p) \/ DeleteOne(p)
Step(p) == AppendStep(p) \/ MaintenanceStep(p)

Next == \/ \E p \in Procs : Start(p) \/ Step(p) \/ Crash(p)
        \/ OlderWriterReads
        \/ \E q \in Requests : OlderWriterLinks(q)

Spec == Init /\ [][Next]_vars

\* A process that has started a call keeps running; the wait for the lock has a
\* deadline.
FairSpec == Spec /\ \A p \in Procs : WF_vars(Step(p))

----------------------------------------------------------------------------
(* Properties *)

PC == {"idle", "lock", "load", "decide", "link", "sync", "hint", "checkpoint", "adopt",
       "verify", "compact", "archive", "record", "delete"}
Stages == {"none", "lookup", "append", "snapshot", "checkpoint", "verify", "compact"}
Results == {"none", "ok", "refused", "Integrity", "IdempotencyCollision", "WriterBusy",
            "io", "panicked", "crashed"}
Deployments == {q.deployment : q \in Requests} \cup {NoDeployment}

OnlyLockedWriters == olderWrites = 0

\* An older writer does no harm as long as nothing has been archived.
Undisturbed == OnlyLockedWriters \/ \A n \in Seqs : archive[n] = NoEvent

\* Every variable has its type.
TypeOK ==
    /\ {active[n] : n \in Seqs} \cup {archive[n] : n \in Seqs} \subseteq Event \cup {NoEvent}
    /\ \A c \in checkpoints : c \in Seq(Event)
    /\ \A c \in compactions : c.checkpoint \in Seq(Event) /\ c.archived \subseteq Event
    /\ hint = NoHint \/ hint \in [generation : 0 .. MaxEvents, h : 0 .. MaxEvents]
    /\ lock \in Procs \cup {NoProc}
    /\ pc \in [Procs -> PC]
    /\ \A p \in Procs : cache[p].st.events \in Seq(Event) /\ cache[p].st.base \in 0 .. MaxEvents
    /\ \A p \in Procs : /\ Stage(p) \in Stages /\ Request(p) \in Requests \cup {NoRequest}
                         /\ call[p].binding \in Deployments
                         /\ call[p].proof \in Seq(Event) /\ call[p].todo \subseteq Seqs
    /\ result \in [Procs -> Results]
    /\ journal \in Seq(Event)

\* Whenever a process decides on a request, the state it decides on has every
\* event that any process ever committed: hints, inventories and the probe for
\* the next sequence number let no stale cache through.
DecidesOnWholeJournal ==
    OnlyLockedWriters =>
        \A p \in Procs : pc[p] \in {"decide", "link"} => State(p).events = journal

\* In every state, after every crash and between any two steps of a compaction,
\* the journal replays in full, and replaying from the newest checkpoint gives the
\* same events: "both full-replay paths are equivalent" (the comment in compact).
ReplayPathsAgree ==
    Undisturbed =>
        /\ FullReplay.ok /\ FullReplay.events = journal
        /\ Replay.ok /\ Replay.events = journal

\* Every answer given under an idempotency key names the same event, and that
\* event is in the journal once: lost answers, failed syncs, crashes and retries
\* commit nothing twice.
CommittedOnce ==
    \A a \in acked :
        /\ \A b \in acked : a[1] = b[1] => a = b
        /\ Cardinality({i \in 1 .. Len(journal) : journal[i].req.key = a[1]}) = 1
        /\ \E i \in 1 .. Len(journal) : journal[i].h = a[2] /\ journal[i].req.key = a[1]

\* What was answered is what is on disk, and what every way of reading it back gives:
\* CommittedOnce and ReplayPathsAgree together.
JournalIsSound == CommittedOnce /\ ReplayPathsAgree

\* Create-new publication keeps sequence numbers unique, also against a writer that
\* does not honor the lock, as long as no compaction has freed a number (ADR 0026
\* claims this "concurrency backstop" without that condition).
SequenceNumbersAreUnique ==
    Undisturbed => \A i, j \in 1 .. Len(journal) : journal[i].seq = journal[j].seq => i = j

\* Reservations that are active at the same time never conflict and never exceed
\* a capacity, however many processes grant them.
HoldersCompatible == Undisturbed => Ledger!HoldersCompatible

\* A host of an earlier version that takes no writer lock neither takes a sequence
\* number twice nor grants beside what the others granted, for as long as it finds
\* the files it probes for (the create-new publication in append).
OlderWriterDoesNoHarm == SequenceNumbersAreUnique /\ HoldersCompatible

\* The allocator implements the ledger: every step of it commits one admissible
\* request or none, and nothing committed is ever lost.
ImplementsLedger == Ledger!Spec

\* Every call returns, or its process dies, also when others hold the lock.
CallsReturn == \A p \in Procs : pc[p] # "idle" ~> pc[p] = "idle"

----------------------------------------------------------------------------
(* What the repository says of the allocator and the code does not do *)

\* "A checkpoint is an accelerator, never a replacement for journal authority"
\* (ADR 0026): the deployment that a state restored from a checkpoint attributes
\* to a reservation id is the one that the whole journal attributes to it.
CheckpointKeepsAuthority ==
    \A p \in Procs : pc[p] = "decide" =>
        \A q \in Requests :
            BindingByReservationId(State(p), q.id)
                = BindingByReservationId([State(p) EXCEPT !.base = 0], q.id)

============================================================================
