------------------------------- MODULE GraphRun -------------------------------
(***************************************************************************)
(* A run of a deployed graph as the host sees it.  An external runtime     *)
(* hands its client batches of JSONL records and stream events, late,      *)
(* repeated and in any order; meanwhile the case moves on: workers run by   *)
(* the command line attach claims and anchor their traces, reviewers        *)
(* accept, reject and reopen the claims.  The client asks the host what the *)
(* run has come to (reconcile_run, reconcile_streaming_run and             *)
(* reconcile_verification_lineage of src/bin/casegraphen-mcp-host.rs).      *)
(* Each call starts afresh, so an answer is a function of what the call    *)
(* carries and of the case and the allocator journal at that moment.  A    *)
(* caller of the library may also keep proofs while the case moves on.     *)
(***************************************************************************)
EXTENDS VerificationLineage

CONSTANTS Topology,        \* the deployed topology
          Batches,         \* batches of records the runtime may hand over
          StreamEvents,    \* events it may stream
          Bundles,         \* resource expectation bundles the client may attach
          GivenExpectations,      \* graph expectations the client may send
          ResourceExpectations,   \* sets of resource expectations it may send
          Journal,         \* the allocator's reservations: decl, res, authority
          Dispositions,    \* and its disposition assertions
          DispatchGates, ReviewGates,   \* the gates commands are given
          Edited(_),       \* the edited copies of a run's files
          Policies,        \* verification policies
          ArtifactAnchors, \* anchors a client may ask for: id, artifact, bytes
          MaxBatches, MaxEvents, MaxInputs,   \* bounds on what is handed over
          MaxLedger, MaxSteps                 \* on the ledger, and on all three

\* A minimum is a count (u64), a batch a sequence, a report record named after
\* its report (whose ids are numbers here, for their order); nodes and allocations
\* are vectors, and an absent status is none.
ASSUME PoliciesHaveMinimum == \A p \in Policies : p.minimum \in Nat
ASSUME BatchesAreSequences == \A b \in Batches : b \in Seq(Range(b))
ASSUME ReportsAreNamed ==
    \A b \in Batches : \A x \in Range(b) :
       x.kind = "report" => x.body.id \in Int /\ x.id = [report |-> x.body.id]
ASSUME GraphsAreFinite ==
    /\ IsFiniteSet(Topology.nodes)
    /\ \A exp \in GivenExpectations : IsFiniteSet(exp.nodes)
ASSUME BundlesAreFinite ==
    \A b \in Bundles : IsFiniteSet(UNION {x.allocations : x \in b.entries})
ASSUME NoneIsNoStatus == None # "accepted"

VARIABLES batches,   \* how many batches the client has
          records,   \* their records, in arrival order
          events,    \* the stream events it has, in arrival order
          ledger,    \* the morphism log of the case
          held,      \* the proofs a caller of the library keeps
          answer     \* the answer to the client's last call, or None

inputs == <<batches, records, events>>
vars == <<inputs, ledger, held, answer>>

rev == Len(ledger)
Claims == {ledger[i].claim : i \in {i \in DOMAIN ledger : ledger[i].type = "attach"}}

\* The replayed case: a cell behind an evidence edge is ready once a claim is
\* accepted.
Case ==
    [space |-> Topology.space, rev |-> rev,
     ready |-> {cell \in {n.cell : n \in Topology.nodes} :
                   \/ \A n \in Topology.nodes : n.cell = cell =>
                         \A e \in InEdges(Topology, n.id) : e.kind # "evidence"
                   \/ \E c \in Claims : LatestStatus(ledger, c) = "accepted"}]

NothingHeld == [producer |-> None, anchors |-> {}, verifiers |-> <<>>]

Init == /\ batches = 0 /\ records = <<>> /\ events = <<>>
        /\ ledger = <<>> /\ held = NothingHeld /\ answer = None

-----------------------------------------------------------------------------
\* The runtime hands over a batch or an event; nothing keeps it from handing
\* over the same one twice.
HandRecords ==
    /\ batches < MaxBatches /\ batches + Len(events) < MaxInputs
    /\ batches + Len(events) + rev < MaxSteps /\ held = NothingHeld
    /\ \E b \in Batches : records' = records \o b
    /\ batches' = batches + 1 /\ answer' = None
    /\ UNCHANGED <<events, ledger, held>>

HandEvent ==
    /\ Len(events) < MaxEvents /\ batches + Len(events) < MaxInputs
    /\ batches + Len(events) + rev < MaxSteps /\ held = NothingHeld
    /\ \E e \in StreamEvents : events' = Append(events, e)
    /\ answer' = None
    /\ UNCHANGED <<batches, records, ledger, held>>

\* Somebody appends to the case: a run of the command line writes its files,
\* attaches the worker's output as a claim and anchors the trace; a reviewer
\* decides about a claim, more than once if he likes.
Grow(entries) ==
    /\ rev + Len(entries) <= MaxLedger
    /\ batches + Len(events) + rev + Len(entries) <= MaxSteps
    /\ ledger' = ledger \o entries /\ answer' = None
    /\ UNCHANGED <<inputs, held>>

RunTrace(id, gate, base) ==
    LET report == [id |-> id, step |-> "step", whole |-> TRUE, stdout |-> "out", stderr |-> "err"]
    IN  [id |-> id, state |-> "completed", step |-> "step", base |-> base, gate |-> gate,
         reportId |-> id, report |-> report, stdout |-> "out", stderr |-> "err",
         appended |-> {base + 1, base + 2}, result |-> base + 2]
CliRun ==
    \E gate \in DispatchGates :
       LET id == Cardinality(Claims) + 1
           trace == RunTrace(id, gate, rev)
       IN  /\ GateHolds(gate, "dispatch")
           /\ Grow(<<[type |-> "attach", actor |-> gate.actor, claim |-> id, report |-> id,
                       trace |-> id, content |-> trace.stdout],
                     [type |-> "anchor", actor |-> gate.actor, trace |-> id, hash |-> trace]>>)

CliReview ==
    \E gate \in ReviewGates, claim \in Claims, action \in {"accept", "reject", "reopen"} :
       /\ GateHolds(gate, "review")
       /\ Grow(<<[type |-> "review", actor |-> gate.actor, target |-> claim,
                   action |-> action, gate |-> gate]>>)

Refuse(tool, codes) == answer' = [tool |-> tool, refused |-> codes]

-----------------------------------------------------------------------------
\* A bundle must also be what the allocator's journal says (the code stops at
\* the first difference).
JournalFindings(b) ==
    LET journaled(x) == {j \in Journal : j.decl = x.decl /\ j.res = x.res}
    IN  Codes([noncanonical_resource_reservation |->
                  \E x \in b.entries : journaled(x) = {},
               noncanonical_reviewed_deployment_reservation |->
                  \E x \in b.entries : \E j \in journaled(x) : j.authority # x.authority,
               noncanonical_resource_disposition |->
                  \E x \in b.entries : ~(x.dispositions \subseteq Dispositions)])

\* reconcile_run without a bundle, and with one: its allocations are ingested
\* after the client's records.
Answered(all, expectations) ==
    answer' = [tool |-> "run", refused |-> {}, records |-> all,
               expectations |-> expectations,
               result |-> Integrate(Topology, Ingest(all), expectations)]

ReconcileRun ==
    /\ events = <<>> /\ answer = None    \* bound: the call does not carry events
    /\ held = NothingHeld
    /\ \/ Answered(records, {})
       \/ \E b \in Bundles, believed \in {rev, 0} :   \* no look at the store
             LET findings == BundleFindings(Topology, believed, b)
             IN  IF findings # {} THEN Refuse("run", findings)
                 ELSE IF JournalFindings(b) # {} THEN Refuse("run", JournalFindings(b))
                 ELSE Answered(records \o AllocationRecords(b), Expectations(b))
    /\ UNCHANGED <<inputs, ledger, held>>

\* reconcile_streaming_run: the client sends its records, the reports among
\* them as the terminal reports, and the revision it believes current.
TerminalReportsSent ==
    LET sent == {i \in DOMAIN records : records[i].kind = "report"}
    IN  [k \in 1..Cardinality(sent) |->
            records[CHOOSE i \in sent : Cardinality({j \in sent : j <= i}) = k].body]
StreamQuestion(in, exp, permits, acceptance) ==
    [topology |-> Topology, exp |-> exp, events |-> events, reports |-> TerminalReportsSent,
     observed |-> in.artifacts, rev |-> rev, permits |-> permits,
     acceptance |-> acceptance, closed |-> batches = MaxBatches]

AnswerStream(q, expectations, refused) ==
    IF refused # {} THEN Refuse("stream", refused)
    ELSE answer' = [tool |-> "stream", refused |-> {}, q |-> q, expectations |-> expectations,
                    result |-> ReconcileStream(q)]
AnswerIntegrated(in, exp, expectations, integration, acceptance) ==
    AnswerStream(StreamQuestion(in, exp,
                    Permits(Topology, expectations, integration, acceptance), acceptance),
                 expectations,
                 PermitFindings(Topology, expectations, integration, acceptance))
AnswerIngested(in, exp, expectations) ==
    AnswerIntegrated(in, exp, expectations, Integrate(Topology, in, expectations),
                     Acceptance(Case, Topology))

ReconcileStreamingRun ==
    /\ answer = None /\ held = NothingHeld
    /\ \E exp \in GivenExpectations, expectations \in ResourceExpectations,
          believed \in {rev, 0} :
          IF believed # rev THEN Refuse("stream", {"stale_revision"})
          ELSE IF Acceptance(Case, Topology) = None
               THEN Refuse("stream", {"streaming_acceptance_refused"})
          ELSE AnswerIngested(Ingest(records), exp, expectations)
    /\ UNCHANGED <<inputs, ledger, held>>

-----------------------------------------------------------------------------
\* The files a caller may present: those of a run, edited copies, those of two
\* runs mixed, or something that does not parse.
Traces == {ledger[i].hash : i \in {i \in DOMAIN ledger : ledger[i].type = "anchor"}}
FilesOf(t, r) == [trace |-> t, report |-> r.report, stdout |-> r.stdout, stderr |-> r.stderr]
Presentable ==
    LET runs == {FilesOf(t, r) : t, r \in Traces}
    IN  runs \cup (UNION {Edited(f) : f \in runs}) \cup {[f EXCEPT !.trace = None] : f \in runs}

AnswerPolicy(p, producer, verifiers, anchors) ==
    answer' = [tool |-> "verification", refused |-> {}, policy |-> p, producer |-> producer,
               result |-> ReconcilePolicy(ledger, p, producer, verifiers, anchors)]

\* reconcile_verification_lineage: reviews is the set of review ids the client
\* names, wanted the artifact anchors and trace whether it wants the trace as
\* one.  The code stops at the first stage that has findings.
LineageFindings(claim, f, reviews, wanted, trace) ==
    IF ProducerFindings(ledger, claim, f) # {} THEN ProducerFindings(ledger, claim, f)
    ELSE LET producer == ProducerProof(ledger, claim, f)
             verifying == UNION {VerifierFindings(ledger, producer, i) : i \in reviews}
         IN  IF verifying # {} THEN verifying
             ELSE (UNION {ObserveArtifactFindings(a.artifact, a.bytes) : a \in wanted})
                  \cup IF trace THEN ObserveTraceFindings(ledger, f) ELSE {}
AnswerLineage(p, claim, f, reviews, wanted, trace, findings) ==
    IF findings # {} THEN Refuse("verification", findings)
    ELSE LET producer == ProducerProof(ledger, claim, f)
             proofs == SetToSeq({VerifierProof(ledger, producer, i) : i \in reviews})
         IN  AnswerPolicy(p, producer, proofs,
                          Ids(wanted) \cup IF trace THEN {"trace"} ELSE {})
ReconcileVerificationLineage ==
    /\ inputs = <<0, <<>>, <<>>>> /\ answer = None /\ held = NothingHeld
    /\ \E p \in Policies, claim \in Claims, f \in Presentable, believed \in {rev, 0},
          reviews \in SUBSET UNION {ReviewsOf(ledger, c) : c \in Claims},
          wanted \in SUBSET ArtifactAnchors, trace \in BOOLEAN :
          IF believed # rev THEN Refuse("verification", {"stale_revision"})
          ELSE AnswerLineage(p, claim, f, reviews, wanted, trace,
                             LineageFindings(claim, f, reviews, wanted, trace))
    /\ UNCHANGED <<inputs, ledger, held>>

\* A caller of the library derives proofs when it can and reconciles later.
HoldProducer ==
    /\ inputs = <<0, <<>>, <<>>>> /\ answer = None /\ held = NothingHeld
    /\ \E claim \in Claims, f \in Presentable :
          /\ ProducerFindings(ledger, claim, f) = {}
          /\ held' = [NothingHeld EXCEPT !.producer = ProducerProof(ledger, claim, f),
                        !.anchors = IF ObserveTraceFindings(ledger, f) = {} THEN {"trace"} ELSE {}]
    /\ UNCHANGED <<inputs, ledger, answer>>
HoldVerifier ==
    /\ held.producer # None /\ answer = None
    /\ Len(held.verifiers) < 2      \* bound
    /\ \E i \in UNION {ReviewsOf(ledger, c) : c \in Claims} :
          /\ VerifierFindings(ledger, held.producer, i) = {}
          /\ held' = [held EXCEPT !.verifiers =
                        Append(@, VerifierProof(ledger, held.producer, i))]
    /\ UNCHANGED <<inputs, ledger, answer>>
ReconcileHeld ==
    /\ held.producer # None /\ answer = None
    /\ \E p \in Policies : AnswerPolicy(p, held.producer, held.verifiers, held.anchors)
    /\ UNCHANGED <<inputs, ledger, held>>

Next == \/ HandRecords \/ HandEvent \/ CliRun \/ CliReview
        \/ ReconcileRun \/ ReconcileStreamingRun
        \/ ReconcileVerificationLineage \/ HoldProducer \/ HoldVerifier \/ ReconcileHeld

Spec == Init /\ [][Next]_vars

-----------------------------------------------------------------------------
(* Properties *)

Answers(tool) == answer # None /\ answer.tool = tool /\ answer.refused = {}

\* A run is one lineage per node: the attempts of each node, put in some order,
\* retry one another, all fail but the last, and the last is the success the
\* graph expects; and along each data edge exactly one artifact, whose bytes
\* are there, goes from one node's success to the next.
Retries(r, s) == r.retry # None /\ r.retry = s.attempt
Retry(chain) ==
    /\ chain # <<>> /\ chain[1].retry = None
    /\ \A i \in 1..Len(chain) - 1 : /\ Retries(chain[i + 1], chain[i])
                                    /\ chain[i].status # "succeeded"
Lineage(n, reports, chain) ==
    /\ chain \in SetToSeqs({r \in reports : r.node = n.id})
    /\ Retry(chain)
    /\ IsSuccess(n, Last(chain))
AllLineages(exp, reports) ==
    {c \in UNION {SetToSeqs({r \in reports : r.node = n.id}) : n \in exp.nodes} :
        \E n \in exp.nodes : Lineage(n, reports, c)}
EndingAt(lineages, node) == {Last(c) : c \in {c \in lineages : Last(c).node = node}}
HandedAlong(lineages, e) ==
    (UNION {r.outs : r \in EndingAt(lineages, e.from)})
    \cap UNION {r.ins : r \in EndingAt(lineages, e.to)}
OneLineageEach(exp, reports, observed) ==
    LET lineages == AllLineages(exp, reports)
    IN  /\ exp.nodes # {} /\ UniqueIds(exp.nodes) /\ UniqueIds(exp.edges)
        /\ \A r \in reports : ReportFindings(r) = {} /\ Joins(exp, r)
        /\ \A r, s \in reports : r # s => r.attempt # s.attempt
        /\ \A n \in exp.nodes : EndingAt(lineages, n.id) # {}
        /\ \A e \in exp.edges : /\ Cardinality(HandedAlong(lineages, e)) = 1
                                /\ HandedAlong(lineages, e) \subseteq observed
        /\ \A a \in observed : \E r \in reports : a \in r.ins \cup r.outs

\* Completeness of a run (reconcile_runtime_reports) is exactly that, whatever
\* the order in which the reports arrived; a report that arrived twice is not.
CompleteMeansOneLineage ==
    Answers("stream") =>
        LET q == answer.q
            reports == ToSet(q.reports)
        IN  answer.result.completeness.complete <=>
               /\ Cardinality(reports) = Len(q.reports)
               /\ OneLineageEach(q.exp, reports, q.observed)

\* reconcile_run answers from what arrived, not from the order or the number of
\* times it did: the batch is complete exactly when the graph is sound, no two
\* records contradict each other, the reports are one lineage per node, every
\* output they name has its bytes, and the runtime took exactly what was granted
\* to the nodes with claims.
TookWhatWasGranted(x, allocations) ==
    LET taken == {a \in allocations : Consumed(x, a)}
    IN  /\ \E f \in [taken -> x.res.grants] :
              /\ IsInjective(f) /\ Range(f) = x.res.grants
              /\ \A a \in taken : f[a] = a.grant /\ a.attempt = x.res.attempt
                                  /\ a.reservation = x.res.id
        /\ x.res.grants = {GrantOf(c) : c \in NodeOf(Topology, x.decl.node).claims}
\* What the client expects: one reservation per node, of the claims that the node
\* declares, for an attempt that reported
ExpectationsFit(expectations, reports) ==
    /\ \A x, y \in expectations : x.decl.node = y.decl.node => x = y
    /\ \A n \in Topology.nodes : n.claims # {} => \E x \in expectations : x.decl.node = n.id
    /\ \A x \in expectations :
          /\ DeclarationFindings(Topology, x.decl) = {} /\ ReservationFindings(x.decl, x.res) = {}
          /\ \E r \in reports : r.node = x.decl.node /\ r.attempt = x.res.attempt
BodiesOf(kind, arrived) == {x.body : x \in {x \in arrived : x.kind = kind}}
WhatArrivedIsComplete(arrived, expectations) ==
    LET reports == BodiesOf("report", arrived)
        allocations == BodiesOf("allocation", arrived)
        observed == {x.id : x \in {x \in arrived : x.kind = "artifact"}}
    IN  /\ ExpectationFindings(Topology) = {} /\ LintErrors(Topology) = {}
        /\ \A x \in arrived : RecordFindings(x) = {}
        /\ \A x, y \in arrived : SameId(x, y) => x = y
        /\ OneLineageEach(GraphExpectation(Topology), reports, observed)
        /\ UNION {r.outs : r \in reports} \subseteq observed
        /\ ExpectationsFit(expectations, reports)
        /\ \A x \in expectations : TookWhatWasGranted(x, allocations)
        /\ \A a \in allocations : a.untrusted /\ \E x \in expectations : Consumed(x, a)
BatchIsWhatArrived ==
    Answers("run") =>
        (answer.result.complete
         <=> WhatArrivedIsComplete(ToSet(answer.records), answer.expectations))

\* What reconcile_run puts forward for review is what the successful end of a
\* node produced: never the output of an attempt that failed and was retried.
ProposalsAreTerminalOutputs ==
    Answers("run") =>
        \A a \in answer.result.proposals :
           \E i \in DOMAIN answer.records : LET r == answer.records[i].body
              IN  /\ answer.records[i].kind = "report"
                  /\ r.node \in DOMAIN answer.result.completeness.terminal
                  /\ answer.result.completeness.terminal[r.node] = r.attempt
                  /\ a \in r.outs

\* Both of these hold of what reconcile_run answers: it is complete exactly when the batch
\* is, and puts forward only what the end of a lineage produced.
RunAnswersAreTrue == BatchIsWhatArrived /\ ProposalsAreTerminalOutputs

\* The producer's last attempt succeeded, and every other attempt of the node
\* failed and was retried.
LastAttemptSucceeded(exp, reports, node, attempt) ==
    LET own == {i \in DOMAIN reports : Joins(exp, reports[i]) /\ reports[i].node = node}
    IN  \E i \in own :
           /\ reports[i].attempt = attempt /\ reports[i].status = "succeeded"
           /\ \A k \in own \ {i} : \E m, h \in own :
                 /\ reports[m].retry = reports[k].attempt
                 /\ reports[h].attempt = reports[k].attempt
                 /\ reports[h].status # "succeeded"
\* Every chunk of the artifact up to the final one arrived as one event each.
ArrivedWhole(q, e) ==
    LET chunks == {f \in Chunks(ToSet(q.events)) : SameStream(e, f)}
    IN  \E f \in [0..e.index -> chunks] :
           /\ Range(f) = chunks
           /\ \A k \in 0..e.index : f[k].index = k /\ (f[k].final <=> k = e.index)
\* A claim stands accepted: an accept that no later review of the claim took back
AcceptanceStands ==
    \E i \in DOMAIN ledger :
       /\ ledger[i].type = "review" /\ ledger[i].action = "accept"
       /\ \A k \in i + 1..rev : ledger[k].type = "review" /\ ledger[k].target = ledger[i].target
                               => ledger[k].action = "accept"

\* A stage is released only when all of it has happened: the producer's last
\* attempt succeeded, every chunk of the artifact arrived, its bytes are there,
\* the runtime took what the target's reservation granted, and the case had the
\* target ready if evidence gates it (reconcile_stream).
ReleaseIsEarned(q, release) ==
    /\ LastAttemptSucceeded(q.exp, q.reports, release.event.node, release.event.attempt)
    /\ ArrivedWhole(q, release.event)
    /\ release.artifact \in q.observed
    /\ \E x \in answer.expectations :
          x.decl.node = release.to /\ TookWhatWasGranted(x, Ingest(records).allocations)
    /\ (\E d \in Topology.edges : d.to = release.to /\ d.kind = "evidence") => AcceptanceStands
StageReleasesAreEarned ==
    Answers("stream") =>
        \A release \in answer.result.releases : ReleaseIsEarned(answer.q, release)

\* The reviews of the claim attached at i, and the actors among the reviewers
\* whose acceptance counts for a policy
ReviewsSince(i) ==
    {ledger[k] : k \in {k \in i + 1..rev : ledger[k].type = "review"
                                            /\ ledger[k].target = ledger[i].claim}}
Accepting(p, i) ==
    {r.actor : r \in {r \in ReviewsSince(i) :
                         /\ r.action = "accept" /\ p.verifierCaps \subseteq {r.gate.cap}
                         /\ <<r.actor, "review">> \in Grants[r.gate.cap]
                         /\ p.differ => r.actor # ledger[i].actor}}
SatisfiedBy(p, producer, i) ==
    /\ ledger[i].type = "attach" /\ ledger[i].claim = producer.claim
    /\ ledger[i].content = producer.stdout /\ ledger[i].actor = producer.gate.actor
    /\ ledger[i + 1].type = "anchor" /\ ledger[i + 1].hash = producer.subject
    /\ \E k \in i + 1..rev : /\ ledger[k] \in ReviewsSince(i) /\ ledger[k].action = "accept"
                             /\ \A m \in k + 1..rev : ledger[m] \notin ReviewsSince(i)
    /\ p.minimum > 0 /\ Cardinality(Accepting(p, i)) >= p.minimum

\* A policy that is reported satisfied is satisfied by the ledger as it stands,
\* however old the proofs: the claim was attached and its trace anchored by the
\* run whose output was presented, the claim's last review is an accept, and as
\* many different actors as the quorum asks for accepted it, each by a
\* capability the policy asks for, none of them the producer if the policy says
\* so (reconcile_verification_policy).
PolicySatisfactionIsCurrent ==
    Answers("verification") /\ answer.result.satisfied =>
        \E i \in DOMAIN ledger : SatisfiedBy(answer.policy, answer.producer, i)

=============================================================================
