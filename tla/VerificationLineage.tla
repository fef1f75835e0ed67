------------------------- MODULE VerificationLineage -------------------------
(***************************************************************************)
(* Does a worker's claim meet a verification policy?                       *)
(* (src/verification_policy.rs, the path of the native command line.)      *)
(* A producer proof joins the four files of a run with the entries the run *)
(* appended; a verifier proof is the review of the claim; a policy is       *)
(* reconciled from such proofs, which may be older than the ledger they are *)
(* reconciled against.                                                     *)
(*                                                                         *)
(* The ledger is the morphism log of a case, its entries named by their    *)
(* positions.  An entry has a type and an actor; an attach also claim,     *)
(* report, trace and content (of the evidence cell it adds, which nobody    *)
(* can rewrite); an anchor trace and hash; a review target, action and     *)
(* gate.  Files are [trace, report, stdout, stderr]; a trace or a report   *)
(* that does not parse is None, the digest of a file is the file.          *)
(***************************************************************************)
EXTENDS RuntimeReports

CONSTANTS Grants,          \* capability -> the actor-operation pairs it grants
          CaseArtifacts    \* the case's artifact cells: id, content, life

\* check_operation_gate; capability cells enter with the genesis and stay.
GateHolds(gate, operation) ==
    /\ gate.op = operation /\ gate.cap \in DOMAIN Grants
    /\ <<gate.actor, operation>> \in Grants[gate.cap]

\* latest_evidence_review_entries, latest_evidence_review_status: None without a
\* review; anything but an accept reads as a rejection.
ReviewsOf(ledger, claim) ==
    {i \in DOMAIN ledger : ledger[i].type = "review" /\ ledger[i].target = claim}
LatestReview(ledger, claim) ==
    IF ReviewsOf(ledger, claim) = {} THEN 0 ELSE Max(ReviewsOf(ledger, claim))
LatestStatus(ledger, claim) ==
    IF LatestReview(ledger, claim) = 0 THEN None
    ELSE IF ledger[LatestReview(ledger, claim)].action = "accept" THEN "accepted" ELSE "rejected"

-----------------------------------------------------------------------------
(* The producer *)

\* The files are the ones one completed run wrote.
FilesMatch(f) ==
    /\ f.trace.state = "completed"
    /\ f.trace.reportId = f.report.id /\ f.trace.report = f.report
    /\ f.trace.stdout = f.stdout /\ f.trace.stderr = f.stderr
    /\ f.trace.step = f.report.step
    /\ f.report.whole /\ f.report.stdout = f.stdout /\ f.report.stderr = f.stderr

\* The claim's evidence cell, the entry that attached it, the anchor
ClaimMatches(ledger, claim, report, trace, stdout) ==
    \E i \in DOMAIN ledger : /\ ledger[i].type = "attach" /\ ledger[i].claim = claim
                             /\ ledger[i].report = report /\ ledger[i].trace = trace
                             /\ ledger[i].content = stdout
Attachments(ledger, claim, f) ==
    {i \in DOMAIN ledger : /\ ledger[i].type = "attach" /\ ledger[i].claim = claim
                           /\ ledger[i].report = f.report.id /\ ledger[i].trace = f.trace.id
                           /\ i \in f.trace.appended}
AnchorsNaming(ledger, trace) ==
    {i \in DOMAIN ledger : /\ ledger[i].type = "anchor" /\ ledger[i].trace = trace.id
                           /\ ledger[i].hash = trace}
TraceAnchors(ledger, trace) ==
    {i \in AnchorsNaming(ledger, trace) : i \in trace.appended /\ trace.result = i}
ProducerAnchors(ledger, trace) ==
    {i \in TraceAnchors(ledger, trace) : ledger[i].actor = trace.gate.actor}

\* derive_native_cli_run_producer_proof
ProducerFindings(ledger, claim, f) ==
    IF None \in {f.report, f.trace}
    THEN Codes([native_cli_worker_report_invalid |-> f.report = None,
                native_cli_execution_trace_invalid |-> f.trace = None])
    ELSE Codes([native_cli_run_artifact_mismatch |-> ~FilesMatch(f),
                native_cli_dispatch_gate_invalid |-> ~GateHolds(f.trace.gate, "dispatch"),
                native_cli_run_ledger_join_mismatch |->
                   \/ ~ClaimMatches(ledger, claim, f.report.id, f.trace.id, f.stdout)
                   \/ Attachments(ledger, claim, f) = {}
                   \/ ProducerAnchors(ledger, f.trace) = {}])
ProducerProof(ledger, claim, f) ==
    [kind |-> "producer", base |-> f.trace.base, claim |-> claim, subject |-> f.trace,
     step |-> f.trace.step, attempt |-> f.trace.id, gate |-> f.trace.gate,
     report |-> f.report.id, stdout |-> f.stdout,
     attach |-> Min(Attachments(ledger, claim, f)),
     authority |-> Min(ProducerAnchors(ledger, f.trace)), disposition |-> None]

-----------------------------------------------------------------------------
(* The verifiers and the anchors *)

\* derive_native_cli_review_verifier_proof: only the latest review of the claim
VerifierFindings(ledger, producer, i) ==
    IF i \notin DOMAIN ledger THEN {"native_cli_review_authority_missing"}
    ELSE Codes([native_cli_review_authority_invalid |->
                   ~ /\ ledger[i].type = "review" /\ ledger[i].target = producer.claim
                     /\ ledger[i].action \in {"accept", "reject"}
                     /\ ledger[i].actor = ledger[i].gate.actor
                     /\ GateHolds(ledger[i].gate, "review")
                     /\ i = LatestReview(ledger, producer.claim)])
VerifierProof(ledger, producer, i) ==
    [producer EXCEPT !.kind = "verifier", !.gate = ledger[i].gate, !.authority = i,
                     !.report = i, !.disposition = ledger[i].action]

\* observe_case_artifact, observe_case_execution_trace: of the anchors of a trace
\* the first one has to join
ObserveArtifactFindings(id, bytes) ==
    Codes([case_artifact_content_mismatch |->
              \/ ~Observes(id, bytes)
              \/ \A c \in CaseArtifacts :
                    \/ c.id # id \/ c.content # bytes
                    \/ c.life \notin {"resolved", "accepted"}])
ObserveTraceFindings(ledger, f) ==
    IF f.trace = None THEN {"invalid_execution_trace_bytes"}
    ELSE Codes([execution_trace_provenance_mismatch |->
                   \/ f.trace.state # "completed"
                   \/ <<f.report, f.stdout, f.stderr>>
                         # <<f.trace.report, f.trace.stdout, f.trace.stderr>>
                   \/ ~\E i \in TraceAnchors(ledger, f.trace) :
                          i = Min(AnchorsNaming(ledger, f.trace))])

-----------------------------------------------------------------------------
(* Reconciliation.  A policy has the fields known and blank (schema and names),
   producerCaps, verifierCaps, differ, minimum, total and anchors.  Proofs of
   this path carry no runtime attestations, and the lenses and attestation names
   of a policy, with their repetitions, are left out. *)

\* validate_verification_policy
PolicyFindings(p) ==
    Codes([unsupported_schema |-> ~p.known, empty_required_field |-> p.blank,
           invalid_quorum |-> p.minimum = 0 \/ p.total = 0 \/ p.minimum > p.total,
           invalid_policy_identifier |-> Blank \in p.producerCaps \cup p.verifierCaps \cup p.anchors])

\* Variant: what became of the review since the proof was issued is not asked.
CurrentFindingsTimeless(ledger, proof, operation) ==
    Codes([lineage_current_operation_gate_invalid |-> ~GateHolds(proof.gate, operation),
           lineage_current_authority_invalid |-> proof.authority \notin DOMAIN ledger])

\* current_lineage_findings: is a proof still what the ledger says?
ClaimIsCurrent(ledger, proof) ==
    IF proof.kind = "producer"
    THEN ClaimMatches(ledger, proof.claim, proof.report, proof.attempt, proof.stdout)
    ELSE \E i \in DOMAIN ledger : ledger[i].type = "attach" /\ ledger[i].claim = proof.claim
AuthorityIsCurrent(ledger, proof) ==
    /\ proof.authority \in DOMAIN ledger
    /\ ledger[proof.authority].actor = proof.gate.actor
    /\ IF proof.kind = "producer"
       THEN /\ ledger[proof.authority].type = "anchor"
            /\ ledger[proof.authority].trace = proof.attempt
            /\ ledger[proof.authority].hash = proof.subject
            /\ proof.attach \in DOMAIN ledger
            /\ ledger[proof.attach].type = "attach"
            /\ ledger[proof.attach].claim = proof.claim
       ELSE /\ ledger[proof.authority].type = "review"
            /\ ledger[proof.authority].target = proof.claim
            /\ ledger[proof.authority].action \in {"accept", "reject"}
ReviewIsEffective(ledger, proof) ==
    /\ proof.disposition = "accept" => LatestStatus(ledger, proof.claim) = "accepted"
    /\ proof.disposition = "reject" => LatestStatus(ledger, proof.claim) = "rejected"
CurrentFindings(ledger, proof, operation) ==
    Codes([lineage_current_operation_gate_invalid |-> ~GateHolds(proof.gate, operation),
           lineage_current_claim_mismatch |-> ~ClaimIsCurrent(ledger, proof),
           lineage_current_authority_invalid |-> ~AuthorityIsCurrent(ledger, proof),
           verifier_review_no_longer_effective |-> ~ReviewIsEffective(ledger, proof)])

\* The verifiers that count: the first of each report and of each actor
Members(verifiers) ==
    LET fresh == {i \in DOMAIN verifiers : \A k \in 1..i - 1 : verifiers[k].report # verifiers[i].report}
    IN  {i \in fresh : \A k \in fresh : k < i => verifiers[k].gate.actor # verifiers[i].gate.actor}
SameBinding(v, producer) ==
    \A field \in {"base", "claim", "subject", "step", "attempt"} : v[field] = producer[field]
Differs(p, v, producer) == p.differ => v.gate.actor # producer.gate.actor
Qualifying(p, producer, verifiers) ==
    {i \in Members(verifiers) : /\ p.verifierCaps \subseteq {verifiers[i].gate.cap}
                                /\ Differs(p, verifiers[i], producer)
                                /\ SameBinding(verifiers[i], producer)}
Quorum(p, verifiers, qualifying) ==
    /\ Cardinality(qualifying) = p.total
    /\ Cardinality({i \in qualifying : verifiers[i].disposition = "accept"}) >= p.minimum

\* reconcile_bound_verification_policy; anchors is the set of observed anchor ids.
BoundFindings(p, producer, verifiers, anchors, qualifying) ==
    PolicyFindings(p) \cup
    Codes([producer_capability_missing |-> ~(p.producerCaps \subseteq {producer.gate.cap}),
           duplicate_or_empty_verifier_report |->
              \E i, k \in DOMAIN verifiers : i # k /\ verifiers[i].report = verifiers[k].report,
           duplicate_or_empty_verifier_actor |->
              \E i, k \in DOMAIN verifiers : /\ verifiers[i].report # verifiers[k].report
                                             /\ verifiers[i].gate.actor = verifiers[k].gate.actor,
           verifier_lineage_binding_mismatch |->
              \E i \in Members(verifiers) : ~SameBinding(verifiers[i], producer),
           same_actor_policy_violation |->
              \E i \in Members(verifiers) : ~Differs(p, verifiers[i], producer),
           quorum_not_satisfied |-> ~Quorum(p, verifiers, qualifying),
           required_anchor_not_satisfied |-> ~(p.anchors \subseteq anchors)])

\* reconcile_verification_policy: findings about a proof that is no longer
\* current void what the proofs alone would give.
PolicyResult(p, anchors, bound, quorum, current) ==
    [findings |-> bound \cup current, anchors |-> p.anchors \subseteq anchors,
     quorum |-> quorum /\ current = {}, satisfied |-> bound \cup current = {}]
ReconcilePolicy(ledger, p, producer, verifiers, anchors) ==
    PolicyResult(p, anchors,
        BoundFindings(p, producer, verifiers, anchors, Qualifying(p, producer, verifiers)),
        Quorum(p, verifiers, Qualifying(p, producer, verifiers)),
        CurrentFindings(ledger, producer, "dispatch")
        \cup UNION {CurrentFindings(ledger, verifiers[i], "review") : i \in DOMAIN verifiers})

=============================================================================
