---------------------------- MODULE ControlPlane ----------------------------
(***************************************************************************)
(* The operational MCP host: one process that answers tools/call requests  *)
(* one line at a time (mcp_stdio.rs), keeps a journal of its answers in one *)
(* atomically replaced file (control_plane.rs) and delegates the decision  *)
(* itself (bin/casegraphen-mcp-host.rs).                                   *)
(*                                                                         *)
(* Abstractions.  A digest is the value it is taken of.  A payload is       *)
(* [content, embedded, valid]: what it names, the revision written inside   *)
(* it, and whether the decision it asks for (parsing, lint, compiling,      *)
(* policy, quorum, memory) succeeds; those decisions have modules of their  *)
(* own.  A result is "result" or "false_claim", the latter for an object    *)
(* with an untruthful value under a key of the claim vocabulary.  Requests  *)
(* without the bearer token and lines that do not parse change nothing.    *)
(***************************************************************************)
EXTENDS Integers, Sequences, FiniteSets, FiniteSetsExt, Functions, TLC

CONSTANTS Requests,       \* [id, key, tool, base, audit, payload]
          Notifications,  \* [id, content]
          NoRevision,     \* base_revision_id is absent
          OlderJournal,   \* the state file an earlier build may have left
          Pids,           \* process identifiers a host may be started with
          NoRequest,
          MaxRevision, MaxCalls, MaxCrashes, MaxIoFailures

VARIABLES mem,       \* ControlPlaneState of the running host
          disk,      \* the state file
          temporaries, \* pids whose temporary state file was left behind
          host,      \* [phase, pid, request, todo, response]
          files,     \* artifact files: absent, torn or whole
          reserved,  \* requests whose event the allocator journal holds
          revision,  \* current revision of the case
          invoked,   \* key -> how often the delegate was invoked for it
          reply,     \* the last answer to a tools/call
          answers,   \* journaled answers given so far
          cursor, seen, \* a reconnecting client: its cursor, what it was given
          calls, crashes, ioFailures

vars == <<mem, disk, temporaries, host, files, reserved, revision, invoked, reply, answers,
          cursor, seen, calls, crashes, ioFailures>>

-----------------------------------------------------------------------------
(* The catalog. *)

ChangesManagedState(tool) ==
    tool \in {"attach_runtime_report", "apply_evidence_packet", "review_accept", "review_reject",
              "resume", "supersede_dispatch", "reserve_resources", "release_resources"}

MemoryReads == {"memory_query", "memory_explain", "memory_history", "memory_conflicts", "memory_sources"}
MemoryProposals == {"memory_propose_claim", "memory_propose_supersession", "memory_propose_retraction",
                    "memory_propose_procedure"}

RequiresBaseRevision(tool) ==
    \/ ChangesManagedState(tool)
    \/ tool \in {"compile_deployment_bundle", "compile_reviewed_deployment_bundle", "reconcile_run",
                 "reconcile_resources", "evaluate_expansion_round", "reconcile_streaming_run",
                 "reconcile_verification_lineage", "propose_topology_redesign"}
    \/ tool \in MemoryReads \cup MemoryProposals

-----------------------------------------------------------------------------
(* ControlPlaneState and what is read out of it. *)

\* request_semantic_digest: everything but the two identities.
Semantic(r) == [tool |-> r.tool, base |-> r.base, audit |-> r.audit, payload |-> r.payload]

Entries(s) == {s.byRequest[i].response : i \in DOMAIN s.byRequest}

\* f with v at k, whether or not it had a value there.
With(f, k, v) == [x \in DOMAIN f \cup {k} |-> IF x = k THEN v ELSE f[x]]

\* wire_claim_violation: a result must be an object that claims nothing untrue.
WireClaimViolation(outcome) == outcome = "false_claim"

ServeJournaledUnchecked(response) == response

\* serve_journaled: an answer is decided again each time it is served.
ServeJournaled(response) ==
    IF WireClaimViolation(response.outcome)
    THEN [response EXCEPT !.outcome = "noncanonical_journaled_response"]
    ELSE response

\* replay_after
ReplayAfter(s, sequence) == {ServeJournaled(e) : e \in {x \in Entries(s) : x.sequence > sequence}}
OrderableCursorJournals(s) ==
    /\ \A e \in Entries(s) : e.sequence > 0
    /\ \A n \in DOMAIN s.notifications : s.notifications[n].sequence > 0
    /\ \A i, j \in DOMAIN s.byRequest :
          s.byRequest[i].response.sequence = s.byRequest[j].response.sequence => i = j
    /\ \A m, n \in DOMAIN s.notifications :
          s.notifications[m].sequence = s.notifications[n].sequence => m = n

Numbers(s) ==
    {e.sequence : e \in Entries(s)}
    \cup {s.byKey[k].response.sequence : k \in DOMAIN s.byKey}
    \cup {s.notifications[n].sequence : n \in DOMAIN s.notifications}

DerivedNextSequence(s) == Max({0} \cup Numbers(s))

\* load_durable
LoadDurable(s) == [s EXCEPT !.next = DerivedNextSequence(s)]

Without(s, key) == [s EXCEPT !.pending = Restrict(@, DOMAIN @ \ {key})]

(* persist_durable writes a temporary file named after the process, renames *)
(* it and syncs the directory; an error of the last step is reported though *)
(* the file has been replaced.                                              *)
PersistOutcomes ==
    IF host.pid \in temporaries THEN {"exists"}
    ELSE {"ok"} \cup (IF ioFailures < MaxIoFailures THEN {"error", "unsynced"} ELSE {})

Persist(s, outcome) ==
    /\ outcome \in PersistOutcomes
    /\ disk' = IF outcome \in {"ok", "unsynced"} THEN s ELSE disk
    /\ ioFailures' = IF outcome \in {"error", "unsynced"} THEN ioFailures + 1 ELSE ioFailures

-----------------------------------------------------------------------------
(* The checks execute makes before it delegates, and the delegate's verdict *)
(* on each tool: the refusal it returns, or "none".                         *)

LocalRefusal(r) ==
    IF r.id = "" \/ r.key = "" THEN "missing_identity"
    ELSE IF ChangesManagedState(r.tool) /\ (r.base = NoRevision \/ ~r.audit)
    THEN "explicit_mutation_audit_context_required"
    ELSE IF RequiresBaseRevision(r.tool) /\ r.base = NoRevision
    THEN "explicit_revision_context_required"
    ELSE "none"

Whole(f) == f \in DOMAIN files /\ files[f] = "whole"

\* The files of a record and of a bundle, in the order they are written.
FilesOf(r) ==
    CASE r.tool = "attach_runtime_report" -> <<<<"record", r.payload.content>>>>
      [] r.tool \in {"compile_deployment_bundle", "compile_reviewed_deployment_bundle"} ->
            <<<<"artifact", r.payload.content>>, <<"manifest", r.payload.content>>>>
      [] OTHER -> <<>>

\* The store is replayed and its current revision must be the caller's.
ReplayExactRevision(r) == IF r.base # revision THEN "stale_revision" ELSE "none"

RequireMatchingRevision(r) == IF r.payload.embedded # r.base THEN "revision_binding_mismatch" ELSE "none"

\* safe_relative_path / read_confined_artifact: the named file exists.
ReadConfinedArtifact(r) ==
    IF Whole(<<"record", r.payload.content>>) THEN "none" ELSE "host_io_error"

\* load_verified_bundle
LoadVerifiedBundle(r) ==
    IF Whole(<<"manifest", r.payload.content>>) /\ Whole(<<"artifact", r.payload.content>>)
    THEN "none" ELSE "host_io_error"

Decided(r, code) == IF r.payload.valid THEN "none" ELSE code

\* The first refusal of a sequence of checks.
FirstRefusal(checks) ==
    IF \A i \in DOMAIN checks : checks[i] = "none" THEN "none"
    ELSE checks[Min({i \in DOMAIN checks : checks[i] # "none"})]

LintExecutionTopology(r) == Decided(r, "invalid_execution_topology")
AttachRuntimeReport(r) == Decided(r, "invalid_payload")
CompileDeploymentBundle(r) == FirstRefusal(<<RequireMatchingRevision(r), Decided(r, "compilation_refused")>>)
CompileReviewedDeploymentBundle(r) ==
    FirstRefusal(<<ReplayExactRevision(r), Decided(r, "reviewed_compilation_refused")>>)
ReconcileRun(r) == Decided(r, "resource_expectation_bundle_refused")
ReconcileVerificationLineage(r) ==
    FirstRefusal(<<ReplayExactRevision(r), ReadConfinedArtifact(r),
                   Decided(r, "verification_producer_derivation_refused")>>)
ReserveResources(r) ==
    FirstRefusal(<<ReplayExactRevision(r), LoadVerifiedBundle(r),
                   Decided(r, "reviewed_deployment_authority_refused")>>)
ReleaseResources(r) ==
    FirstRefusal(<<IF \E x \in reserved : x.tool = "reserve_resources"
                   THEN "none" ELSE "reviewed_deployment_authority_required",
                   ReplayExactRevision(r), Decided(r, "resource_allocator_refused")>>)
ReconcileResources(r) == Decided(r, "invalid_payload")
SimulateExecutionTopology(r) == Decided(r, "simulation_refused")
EvaluateExpansionRound(r) == Decided(r, "expansion_refused")
ReconcileStreamingRun(r) ==
    FirstRefusal(<<ReplayExactRevision(r), Decided(r, "streaming_resource_refused")>>)
ProposeTopologyRedesign(r) == Decided(r, "redesign_refused")
MemoryReadTool(r) ==
    FirstRefusal(<<RequireMatchingRevision(r), ReplayExactRevision(r), Decided(r, "memory_query_refused")>>)
MemoryProposalTool(r) ==
    FirstRefusal(<<ReplayExactRevision(r), ReadConfinedArtifact(r), Decided(r, "memory_proposal_refused")>>)

Verdict(r) ==
    CASE r.tool \in {"lint_execution_topology", "propose_execution_topology"} -> LintExecutionTopology(r)
      [] r.tool = "attach_runtime_report" -> AttachRuntimeReport(r)
      [] r.tool = "compile_deployment_bundle" -> CompileDeploymentBundle(r)
      [] r.tool = "compile_reviewed_deployment_bundle" -> CompileReviewedDeploymentBundle(r)
      [] r.tool = "reconcile_run" -> ReconcileRun(r)
      [] r.tool = "reconcile_verification_lineage" -> ReconcileVerificationLineage(r)
      [] r.tool = "reserve_resources" -> ReserveResources(r)
      [] r.tool = "release_resources" -> ReleaseResources(r)
      [] r.tool = "reconcile_resources" -> ReconcileResources(r)
      [] r.tool = "simulate_execution_topology" -> SimulateExecutionTopology(r)
      [] r.tool = "evaluate_expansion_round" -> EvaluateExpansionRound(r)
      [] r.tool = "reconcile_streaming_run" -> ReconcileStreamingRun(r)
      [] r.tool = "propose_topology_redesign" -> ProposeTopologyRedesign(r)
      [] r.tool \in MemoryReads -> MemoryReadTool(r)
      [] r.tool \in MemoryProposals -> MemoryProposalTool(r)
      [] OTHER -> "unsupported_operational_host_tool"

-----------------------------------------------------------------------------
Empty == [next |-> 0, byRequest |-> <<>>, byKey |-> <<>>, notifications |-> <<>>, pending |-> <<>>]
NoReply == [request |-> NoRequest, journaled |-> FALSE, outcome |-> "none", sequence |-> 0]
Down == [phase |-> "down", pid |-> 0, request |-> NoRequest, todo |-> <<>>, outcome |-> "none"]

Keys == {r.key : r \in Requests}

\* What every build has kept of the state file it writes: by_idempotency_key mirrors
\* by_request, and next_sequence is not below a number that was given out.
Mirrored(s) ==
    /\ \A i \in DOMAIN s.byRequest :
          LET e == s.byRequest[i] IN
          /\ e.digest.id = i
          /\ e.digest.key \in DOMAIN s.byKey
          /\ s.byKey[e.digest.key] = [digest |-> Semantic(e.digest), response |-> e.response]
    /\ \A k \in DOMAIN s.byKey : \E i \in DOMAIN s.byRequest : s.byRequest[i].digest.key = k
IsResponse(e) == e = [x \in {"sequence", "outcome"} |-> e[x]]
Written(s) ==
    /\ s = [x \in {"next", "byRequest", "byKey", "notifications", "pending"} |-> s[x]]
    /\ \A e \in Entries(s) : IsResponse(e)
    /\ s.next \in Nat
    /\ Numbers(s) \subseteq 1 .. s.next
    /\ OrderableCursorJournals(s)
    /\ Mirrored(s)

ASSUME OlderJournalIsWritten == Written(OlderJournal)

\* The files that the answers in a journal report.
ReportedFiles(s) ==
    UNION {Range(FilesOf(s.byRequest[i].digest)) :
             i \in {j \in DOMAIN s.byRequest : s.byRequest[j].response.outcome = "result"}}

Init ==
    /\ disk \in {Empty, OlderJournal}
    /\ mem = Empty
    /\ temporaries = {}
    /\ host = Down
    /\ files = [f \in ReportedFiles(disk) |-> "whole"]
    /\ reserved = {}
    /\ revision = 1
    /\ invoked = [k \in Keys |-> 0]
    /\ reply = NoReply
    /\ answers = {}
    /\ cursor = 0
    /\ seen = {}
    /\ calls = 0
    /\ crashes = 0
    /\ ioFailures = 0

\* main / new_durable_authenticated: a malformed journal is not adopted.
Start(pid) ==
    /\ host.phase = "down"
    /\ OrderableCursorJournals(disk)
    /\ mem' = LoadDurable(disk)
    /\ host' = [Down EXCEPT !.phase = "new", !.pid = pid]
    /\ UNCHANGED <<disk, temporaries, files, reserved, revision, invoked, reply, answers, cursor,
                   seen, calls, crashes, ioFailures>>

Initialize ==
    /\ host.phase = "new"
    /\ host' = [host EXCEPT !.phase = "initialize_completed"]
    /\ UNCHANGED <<mem, disk, temporaries, files, reserved, revision, invoked, reply, answers,
                   cursor, seen, calls, crashes, ioFailures>>

Initialized ==
    /\ host.phase = "initialize_completed"
    /\ host' = [host EXCEPT !.phase = "idle"]
    /\ UNCHANGED <<mem, disk, temporaries, files, reserved, revision, invoked, reply, answers,
                   cursor, seen, calls, crashes, ioFailures>>

Answer(r, journaled, response) ==
    /\ reply' = [request |-> r, journaled |-> journaled, outcome |-> response.outcome,
                 sequence |-> response.sequence]
    /\ answers' = IF journaled THEN answers \cup {[request |-> r, response |-> response]} ELSE answers

Refuse(r, code) == Answer(r, FALSE, [outcome |-> code, sequence |-> mem.next])

Receives(r) ==
    /\ host.phase = "idle"
    /\ calls < MaxCalls
    /\ calls' = calls + 1

\* execute_durable, a marker for the key is pending
CallPending(r) ==
    /\ Receives(r)
    /\ r.key \in DOMAIN mem.pending
    /\ Refuse(r, IF mem.pending[r.key] = r THEN "ambiguous_prior_effect" ELSE "idempotency_key_collision")
    /\ UNCHANGED <<mem, disk, temporaries, host, files, reserved, revision, invoked, cursor, seen,
                   crashes, ioFailures>>

Journaled(s, r) == r.id \in DOMAIN s.byRequest \/ r.key \in DOMAIN s.byKey

\* execute, the request or its key is journaled
CallJournaled(r) ==
    /\ Receives(r)
    /\ r.key \notin DOMAIN mem.pending
    /\ Journaled(mem, r)
    /\ IF r.id \in DOMAIN mem.byRequest
       THEN IF mem.byRequest[r.id].digest = r
            THEN Answer(r, TRUE, ServeJournaled(mem.byRequest[r.id].response))
            ELSE Refuse(r, "request_id_collision")
       ELSE IF mem.byKey[r.key].digest = Semantic(r)
            THEN Answer(r, TRUE, ServeJournaled(mem.byKey[r.key].response))
            ELSE Refuse(r, "idempotency_key_collision")
    /\ UNCHANGED <<mem, disk, temporaries, host, files, reserved, revision, invoked, cursor, seen,
                   crashes, ioFailures>>

MarkedInMemory(r) == mem

\* execute_durable, the write-ahead marker
Marked(r) == [mem EXCEPT !.pending = With(@, r.key, r)]

CallFresh(r) ==
    /\ Receives(r)
    /\ r.key \notin DOMAIN mem.pending
    /\ ~Journaled(mem, r)
    /\ \E outcome \in PersistOutcomes :
          /\ Persist(Marked(r), outcome)
          /\ IF outcome = "ok"
             THEN /\ mem' = Marked(r)
                  /\ host' = [host EXCEPT !.phase = "marked", !.request = r]
                  /\ UNCHANGED <<reply, answers>>
             ELSE /\ UNCHANGED <<mem, host>>
                  /\ Refuse(r, "durable_state_unavailable")
    /\ UNCHANGED <<temporaries, files, reserved, revision, invoked, cursor, seen, crashes>>

\* execute, up to the delegate's first effect
Delegate ==
    LET r == host.request IN
    /\ host.phase = "marked"
    /\ IF LocalRefusal(r) # "none"
       THEN /\ host' = [host EXCEPT !.phase = "refused", !.outcome = LocalRefusal(r)]
            /\ UNCHANGED invoked
       ELSE /\ invoked' = [invoked EXCEPT ![r.key] = @ + 1]
            /\ host' = IF Verdict(r) = "none"
                       THEN [host EXCEPT !.phase = "effect", !.todo = FilesOf(r), !.outcome = "result"]
                       ELSE [host EXCEPT !.phase = "decided", !.outcome = Verdict(r)]
    /\ UNCHANGED <<mem, disk, temporaries, files, reserved, revision, reply, answers, cursor, seen,
                   calls, crashes, ioFailures>>

\* write_exact_content: the file is created, or compared with what is there.
WriteExactContent(equal) ==
    /\ host.phase = "effect"
    /\ host.todo # <<>>
    /\ LET f == Head(host.todo) IN
       IF f \notin DOMAIN files
       THEN /\ files' = With(files, f, "torn")
            /\ host' = [host EXCEPT !.phase = "filling"]
       ELSE /\ UNCHANGED files
            /\ host' = IF f \in equal THEN [host EXCEPT !.todo = Tail(@)]
                       ELSE [host EXCEPT !.phase = "decided", !.outcome = "content_address_collision"]
    /\ UNCHANGED <<mem, disk, temporaries, reserved, revision, invoked, reply, answers, cursor,
                   seen, calls, crashes, ioFailures>>

\* Variant: a file under the right name is taken for the right content.
CreateFileTrusting == WriteExactContent(DOMAIN files)

CreateFile == WriteExactContent({f \in DOMAIN files : Whole(f)})

\* write_all and sync_all; an error leaves the file as it is.
FillFile ==
    /\ host.phase = "filling"
    /\ \/ /\ files' = [files EXCEPT ![Head(host.todo)] = "whole"]
          /\ host' = [host EXCEPT !.phase = "effect", !.todo = Tail(@)]
          /\ UNCHANGED ioFailures
       \/ /\ ioFailures < MaxIoFailures
          /\ ioFailures' = ioFailures + 1
          /\ host' = [host EXCEPT !.phase = "decided", !.outcome = "host_io_error"]
          /\ UNCHANGED files
    /\ UNCHANGED <<mem, disk, temporaries, reserved, revision, invoked, reply, answers, cursor,
                   seen, calls, crashes>>

(* The allocator's event, committed once per key, and the maintenance that   *)
(* follows it on the same request: its failure refuses the request.          *)
DelegateReturns ==
    /\ host.phase = "effect"
    /\ host.todo = <<>>
    /\ LET allocates == host.request.tool \in {"reserve_resources", "release_resources"} IN
       /\ reserved' = IF allocates THEN reserved \cup {host.request} ELSE reserved
       /\ \/ /\ host' = [host EXCEPT !.phase = "decided"]
             /\ UNCHANGED ioFailures
          \/ /\ allocates
             /\ ioFailures < MaxIoFailures
             /\ ioFailures' = ioFailures + 1
             /\ host' = [host EXCEPT !.phase = "decided", !.outcome = "resource_allocator_refused"]
    /\ UNCHANGED <<mem, disk, temporaries, files, revision, invoked, reply, answers, cursor, seen,
                   calls, crashes>>

\* execute: the answer is numbered and journaled under both identities.
Numbered(r, sequence) ==
    LET response == [sequence |-> sequence, outcome |-> host.outcome] IN
    /\ mem' = [mem EXCEPT !.next = @ + 1,
                          !.byRequest = With(@, r.id, [digest |-> r, response |-> response]),
                          !.byKey = With(@, r.key, [digest |-> Semantic(r), response |-> response])]
    /\ host' = [host EXCEPT !.phase = "journaled"]
    /\ UNCHANGED <<disk, temporaries, files, reserved, revision, invoked, reply, answers, cursor,
                   seen, calls, crashes, ioFailures>>

JournalAnswerPostIncrement == host.phase = "decided" /\ Numbered(host.request, mem.next)
JournalAnswer == host.phase = "decided" /\ Numbered(host.request, mem.next + 1)

\* execute_durable: the marker goes only with the durable answer.
Acknowledge(confirming) ==
    LET r == host.request
        committed == Without(mem, r.key)
    IN
    /\ host.phase \in {"refused", "journaled"}
    /\ host' = [Down EXCEPT !.phase = "idle", !.pid = host.pid]
    /\ \E outcome \in PersistOutcomes :
          /\ Persist(committed, outcome)
          /\ mem' = IF outcome = "ok" THEN committed ELSE mem
          /\ IF outcome \notin confirming THEN Refuse(r, "durable_acknowledgement_failed")
             ELSE IF host.phase = "refused" THEN Refuse(r, host.outcome)
             ELSE Answer(r, TRUE, mem.byRequest[r.id].response)
    /\ UNCHANGED <<temporaries, files, reserved, revision, invoked, cursor, seen, calls, crashes>>

\* Variant: the answer is given whatever came of writing it down.
CommitUnconfirmed == Acknowledge(PersistOutcomes)

Commit == Acknowledge({"ok"})

Published(n) ==
    [mem EXCEPT !.next = @ + 1,
                !.notifications = With(@, n.id, [digest |-> n, sequence |-> mem.next + 1])]

\* publish_notification_durable: refused publications are undone in memory.
Publish(n) ==
    /\ host.phase = "idle"
    /\ n.id \notin DOMAIN mem.notifications
    /\ \E outcome \in PersistOutcomes :
          /\ Persist(Published(n), outcome)
          /\ mem' = IF outcome = "ok" THEN Published(n) ELSE mem
    /\ UNCHANGED <<temporaries, host, files, reserved, revision, invoked, reply, answers, cursor,
                   seen, calls, crashes>>

\* casegraphen/replay: the client advances its cursor past what it is given.
Replay ==
    /\ host.phase = "idle"
    /\ ReplayAfter(mem, cursor) # {}
    /\ seen' = seen \cup ReplayAfter(mem, cursor)
    /\ cursor' = Max({e.sequence : e \in ReplayAfter(mem, cursor)})
    /\ UNCHANGED <<mem, disk, temporaries, host, files, reserved, revision, invoked, reply,
                   answers, calls, crashes, ioFailures>>

(* The process dies; inside persist_durable it may leave its temporary file, *)
(* or have replaced the state file.                                          *)
Crash ==
    /\ host.phase # "down"
    /\ crashes < MaxCrashes
    /\ crashes' = crashes + 1
    /\ host' = Down
    /\ mem' = Empty
    /\ \/ UNCHANGED <<disk, temporaries>>
       \/ /\ host.phase \in {"idle", "refused", "journaled"}
          /\ host.pid \notin temporaries
          /\ temporaries' = temporaries \cup {host.pid}
          /\ UNCHANGED disk
       \/ /\ host.phase \in {"refused", "journaled"}
          /\ host.pid \notin temporaries
          /\ disk' = Without(mem, host.request.key)
          /\ UNCHANGED temporaries
    /\ UNCHANGED <<files, reserved, revision, invoked, reply, answers, cursor, seen, calls, ioFailures>>

\* The command line appends to the case the host reads.
AdvanceCase ==
    /\ revision < MaxRevision
    /\ revision' = revision + 1
    /\ UNCHANGED <<mem, disk, temporaries, host, files, reserved, invoked, reply, answers, cursor,
                   seen, calls, crashes, ioFailures>>

Next ==
    \/ \E pid \in Pids : Start(pid)
    \/ Initialize
    \/ Initialized
    \/ \E r \in Requests : CallPending(r)
    \/ \E r \in Requests : CallJournaled(r)
    \/ \E r \in Requests : CallFresh(r)
    \/ Delegate
    \/ CreateFile
    \/ FillFile
    \/ DelegateReturns
    \/ JournalAnswer
    \/ Commit
    \/ \E n \in Notifications : Publish(n)
    \/ Replay
    \/ Crash
    \/ AdvanceCase

Spec == Init /\ [][Next]_vars

-----------------------------------------------------------------------------
(* execute_durable: whatever is retried, however the host dies and whichever *)
(* write of the state file fails, the delegate is invoked at most once for   *)
(* an idempotency key.                                                       *)
EffectAtMostOnce == \A k \in Keys : invoked[k] <= 1

\* The request's id stands for another request by now.
IdTaken(r) == r.id \in DOMAIN mem.byRequest /\ mem.byRequest[r.id].digest # r

(* execute / serve_journaled: once a request has been given a journaled      *)
(* answer, every later answer to that request is the same one; unless it was *)
(* answered by its idempotency key alone and another request has been        *)
(* executed under its id since, which it is told.                            *)
AnswersAreStable ==
    [][\A a \in answers :
          reply' # reply /\ reply'.request = a.request =>
             \/ /\ reply'.journaled
                /\ reply'.outcome = a.response.outcome
                /\ reply'.sequence = a.response.sequence
             \/ ~reply'.journaled /\ reply'.outcome = "request_id_collision" /\ IdTaken(a.request)]_vars

(* execute: a repeated idempotency key replays the durable result, so that   *)
(* the answer once given is given again without exception.                   *)
RepeatsAreReplayed ==
    [][\A a \in answers :
          reply' # reply /\ reply'.request = a.request =>
             /\ reply'.journaled
             /\ reply'.outcome = a.response.outcome
             /\ reply'.sequence = a.response.sequence]_vars

(* load_durable: the host never refuses to start on a journal it wrote       *)
(* itself, and no journaled answer repeats a number.                         *)
OwnJournalLoads == OrderableCursorJournals(disk)

(* serve_journaled: no answer given on any of the replay surfaces claims     *)
(* what only a review may claim, whichever build wrote the journal.          *)
ServedClaimsAreTruthful ==
    /\ \A a \in answers : a.response.outcome # "false_claim"
    /\ \A e \in seen : e.outcome # "false_claim"

(* What is replayed after a crash, under a cursor or by a retry, is ordered  *)
(* and true: both of the above.                                              *)
ReplaysAreSound == OwnJournalLoads /\ ServedClaimsAreTruthful

(* persist_bundle / write_exact_content: an answer that reports a record or  *)
(* a bundle is never given while one of its files is torn, even when an      *)
(* earlier host died while writing that file.                                *)
ReportedFilesAreWhole ==
    \A a \in answers :
        a.response.outcome = "result" =>
            \A i \in DOMAIN FilesOf(a.request) : Whole(FilesOf(a.request)[i])

(* replay_after: an answer whose number a client's cursor has passed is one  *)
(* the client was given.                                                     *)
CursorSkipsNothing ==
    \A e \in Entries(disk) : e.sequence <= cursor => ServeJournaled(e) \in seen
=============================================================================
