---------------------------- MODULE RuntimeReports ----------------------------
(***************************************************************************)
(* What the reports of an external runtime amount to: validation of one    *)
(* report and reconciliation of a run (src/runtime_protocol.rs), of its    *)
(* resource allocations (src/resource_protocol.rs), of a JSONL batch       *)
(* (src/runtime_integration.rs) and of a stream                            *)
(* (src/streaming_reconciliation.rs).                                      *)
(*                                                                         *)
(* Everything here is a function of its arguments.  Findings are sets of   *)
(* codes.  Vectors that the code sorts before it returns them are sets; a  *)
(* vector whose order it reads (reports, records, events) is a sequence.   *)
(* The digest of a value is the value, wrapped where the code wraps it.    *)
(***************************************************************************)
EXTENDS GraphTopology, SequencesExt

-----------------------------------------------------------------------------
(* runtime_protocol.rs: one report.  Empty strings are the names in blank;
   start, finish, tokens and cost are None where the text does not parse or
   the option is absent.  The lists of ids are sets: duplicate_list_id is left
   out. *)

RequiredFields == {"report", "node", "attempt", "round", "schema", "graph"}
OptionalFields == {"retry", "model", "context", "worktree", "commit"}
IdentityFields == {"runtime", "adapter"}

\* validate_runtime_node_report, envelope and times
EnvelopeFindings(r) ==
    Codes([unsupported_schema |-> ~r.known,
           invalid_trust_boundary |-> ~r.untrusted,
           empty_required_field |-> r.blank \cap RequiredFields # {},
           invalid_started_at |-> r.start = None,
           invalid_finished_at |-> r.finish = None,
           invalid_time_order |-> /\ None \notin {r.start, r.finish}
                                  /\ r.finish < r.start])

\* ... and claims: lineage, outcome, accounting
ClaimFindings(r) ==
    Codes([self_retry |-> r.retry = r.attempt,
           empty_optional_field |-> r.blank \cap OptionalFields # {},
           empty_list_id |-> \/ Blank \in r.parents \/ Blank \in r.ins \cup r.outs
                            \/ "verifier reports" \in r.blank,
           success_with_failure_kind |-> r.status = "succeeded" /\ r.failure # None,
           failure_kind_required |-> r.status # "succeeded" /\ r.failure = None,
           empty_actual_output_schema |-> r.actual = Blank,
           token_total_mismatch |-> /\ r.tokens # None
                                    /\ r.tokens.in + r.tokens.out # r.tokens.total,
           invalid_reported_cost |-> r.cost # None /\ r.cost < 0,
           empty_reported_runtime_identity |-> r.blank \cap IdentityFields # {},
           empty_reported_cost_currency |-> "currency" \in r.blank,
           empty_reported_resource_allocation |-> "allocation" \in r.blank])

ReportFindings(r) == EnvelopeFindings(r) \cup ClaimFindings(r)

\* observe_runtime_artifact: an artifact id is the address of its bytes.
Address(bytes) == [scheme |-> "sha256", of |-> bytes]
IsContentAddress(id) == id.scheme = "sha256"
Observes(id, bytes) == id = Address(bytes)

-----------------------------------------------------------------------------
(* runtime_protocol.rs: the expectation a topology gives *)

\* The code returns the first node without exactly one output, or every finding
\* of the topology.
ExpectationFindings(t) ==
    IF ValidateTopology(t) # {} THEN {"invalid_execution_topology"}
    ELSE Codes([unsupported_output_cardinality |->
                   \E n \in t.nodes : Cardinality(n.out) # 1])

EmptyExpectation(t) == [graph |-> [id |-> t.id, hash |-> t], nodes |-> {}, edges |-> {}]

\* derive_runtime_graph_expectation: every edge makes a parent, a data edge also
\* a handoff.
GraphExpectation(t) ==
    [EmptyExpectation(t) EXCEPT
        !.nodes = {[id |-> n.id, schema |-> (CHOOSE o \in n.out : TRUE).schema,
                    parents |-> {e.from : e \in InEdges(t, n.id)}] : n \in t.nodes},
        !.edges = {[id |-> e.id, from |-> e.from, to |-> e.to, out |-> e.out, in |-> e.in,
                    schema |-> e.schema, delivery |-> NodeOf(t, e.from).delivery] :
                      e \in {e \in t.edges : e.kind = "data"}}]

ExpectedNode(exp, id) == CHOOSE n \in exp.nodes : n.id = id

-----------------------------------------------------------------------------
(* runtime_protocol.rs: reconcile_runtime_reports.  rs is the vector of
   reports; reports are named by their indices in it. *)

Indices(rs, a) == {i \in DOMAIN rs : rs[i].attempt = a}

\* A report joins the graph and one of its nodes.
Joins(exp, r) == r.graph = exp.graph /\ r.node \in Ids(exp.nodes)

\* Variant: what the named attempt came to is not looked at.
ValidRetryOfAny(rs, own, i) ==
    /\ rs[i].retry # rs[i].attempt
    /\ Indices(rs, rs[i].retry) # {}
    /\ Min(Indices(rs, rs[i].retry)) \in own

\* A retry must name an attempt of the same node that did not succeed.  The
\* attempt index keeps the first report of an attempt, whatever its graph.
ValidRetry(rs, own, i) ==
    /\ rs[i].retry # rs[i].attempt
    /\ Indices(rs, rs[i].retry) # {}
    /\ LET prior == Min(Indices(rs, rs[i].retry))
       IN  prior \in own /\ rs[prior].status # "succeeded"

\* Walking valid_parent from an attempt until it leaves the map or has been
\* everywhere; what a walk that never leaves has seen is on a cycle.
Walk(parent, a) ==
    LET at[k \in 0..Cardinality(DOMAIN parent) + 1] ==
            IF k = 0 THEN a
            ELSE IF at[k - 1] \in DOMAIN parent THEN parent[at[k - 1]] ELSE None
    IN  Range(at)
CycleAttempts(parent) == UNION ({Walk(parent, a) : a \in DOMAIN parent} \ {w \in
                             {Walk(parent, a) : a \in DOMAIN parent} : None \in w})

\* All but the first of the indices that compete for one place
Surplus(indices) == indices \ (IF indices = {} THEN {} ELSE {Min(indices)})

\* The lineage of one node's reports: its first attempts, its retries, the map
\* valid_parent (of two reports of one attempt the last wins), the duplicates
\* and the attempts that nothing retries
NodeLineage(rs, own) ==
    LET roots == {i \in own : rs[i].retry = None}
        retries == {i \in own \ roots : ValidRetry(rs, own, i)}
        strays == own \ (roots \cup retries)
        parent == [a \in {rs[i].attempt : i \in retries} |->
                      rs[Max({i \in retries : rs[i].attempt = a})].retry]
        branches == UNION {Surplus({i \in retries : rs[i].retry = a}) : a \in Range(parent)}
        cycle == CycleAttempts(parent)
    IN  [duplicates |-> strays \cup Surplus(roots) \cup branches
                        \cup {Min(Indices(rs, a)) : a \in cycle},
         ends |-> {i \in own : rs[i].attempt \notin Range(parent)},
         findings |-> Codes([invalid_retry_lineage |-> strays # {},
                             duplicate_attempt_without_lineage |-> Surplus(roots) # {},
                             branched_retry_lineage |-> branches # {},
                             retry_lineage_cycle |-> cycle # {}])]

\* What the only end of a lineage must be
SchemaMatches(node, r) == r.expected = node.schema /\ r.actual = node.schema
IsSuccess(node, r) ==
    r.status = "succeeded" /\ SchemaMatches(node, r) /\ r.parents = node.parents
TerminalFindings(node, r) ==
    Codes([output_schema_mismatch |-> r.status = "succeeded" /\ ~SchemaMatches(node, r),
           parent_node_lineage_mismatch |-> r.parents # node.parents])

\* One data edge: exactly one artifact handed from end to end, and its bytes seen
Handoff(terminal, e) == terminal[e.from].outs \cap terminal[e.to].ins
EdgeFindings(terminal, observed, e) ==
    IF ~({e.from, e.to} \subseteq DOMAIN terminal) THEN {"edge_terminal_attempt_missing"}
    ELSE IF Handoff(terminal, e) = {} THEN {"missing_edge_handoff_artifact"}
    ELSE IF Cardinality(Handoff(terminal, e)) # 1 THEN {"duplicated_edge_handoff_artifact"}
    ELSE IF ~(Handoff(terminal, e) \subseteq observed)
         THEN {"un_ingested_edge_handoff_artifact"}
    ELSE {}

\* The lineages of the nodes that a report joins, and terminal_attempts: the
\* successful end of each node that has just that one end
Lineages(exp, rs) ==
    LET joining == {i \in DOMAIN rs : Joins(exp, rs[i])}
    IN  [n \in {rs[i].node : i \in joining} |->
            NodeLineage(rs, {i \in joining : rs[i].node = n})]
SingleEnds(rs, lineage) ==
    [n \in {n \in DOMAIN lineage : Cardinality(lineage[n].ends) = 1} |-> rs[Max(lineage[n].ends)]]
TerminalAttempts(exp, ends) ==
    [n \in {n \in DOMAIN ends : IsSuccess(ExpectedNode(exp, n), ends[n])} |-> ends[n]]

Completeness(exp, rs, observed, lineage, ends, terminal) ==
    LET reported == DOMAIN lineage
        accounted == UNION {rs[i].ins \cup rs[i].outs : i \in {i \in DOMAIN rs : Joins(exp, rs[i])}}
        repeated == {i \in DOMAIN rs : i # Min(Indices(rs, rs[i].attempt))}
        duplicates == repeated \cup UNION {lineage[n].duplicates : n \in reported}
        missing == Ids(exp.nodes) \ reported
        failed == reported \ DOMAIN terminal
        unaccounted == observed \ accounted
        proofs == {e.id : e \in {e \in exp.edges : EdgeFindings(terminal, observed, e) = {}}}
        findings == (UNION {ReportFindings(rs[i]) : i \in DOMAIN rs})
           \cup Codes([duplicate_expected_node |-> ~UniqueIds(exp.nodes),
                       duplicate_expected_edge |-> ~UniqueIds(exp.edges),
                       duplicate_attempt_id |-> repeated # {},
                       graph_join_mismatch |-> \E i \in DOMAIN rs : rs[i].graph # exp.graph,
                       unexpected_node |-> \E i \in DOMAIN rs :
                          rs[i].graph = exp.graph /\ rs[i].node \notin Ids(exp.nodes),
                       missing_report |-> missing # {},
                       unaccounted_artifact |-> unaccounted # {}])
           \cup (UNION {lineage[n].findings : n \in reported})
           \cup (UNION {TerminalFindings(ExpectedNode(exp, n), ends[n]) : n \in DOMAIN ends})
           \cup (UNION {EdgeFindings(terminal, observed, e) : e \in exp.edges})
        nodeComplete == /\ exp.nodes # {}
                        /\ {} = missing \cup failed /\ duplicates = {} /\ unaccounted = {}
        dataflowComplete == proofs = Ids(exp.edges)
    IN  [failed |-> failed, missing |-> missing, duplicates |-> duplicates,
         unaccounted |-> unaccounted, proofs |-> proofs,
         terminal |-> [n \in DOMAIN terminal |-> terminal[n].attempt],
         nodeComplete |-> nodeComplete, dataflowComplete |-> dataflowComplete,
         complete |-> nodeComplete /\ dataflowComplete /\ findings = {},
         findings |-> findings]

\* reconcile_runtime_reports; observed is the set of artifact ids whose bytes
\* were presented.
ReconcileEnds(exp, rs, observed, lineage, ends) ==
    Completeness(exp, rs, observed, lineage, ends, TerminalAttempts(exp, ends))
ReconcileLineages(exp, rs, observed, lineage) ==
    ReconcileEnds(exp, rs, observed, lineage, SingleEnds(rs, lineage))
ReconcileReports(exp, rs, observed) ==
    ReconcileLineages(exp, rs, observed, Lineages(exp, rs))

-----------------------------------------------------------------------------
(* resource_protocol.rs: a declaration has the fields id, graph, node and
   claims; a reservation id, decl, attempt and grants; an allocation id,
   reservation, attempt, grant and untrusted.  Named scopes are left out. *)

\* declaration_grants: one unit of a named rate-limit group per claim
GrantOf(c) == [resource |-> c.resource, mode |-> c.mode, group |-> c.group,
               units |-> IF c.group = None THEN 0 ELSE 1, isolated |-> c.isolated]
DeclarationGrants(d) == {GrantOf(c) : c \in d.claims}

\* validate_resource_declaration: the declaration is of this graph and of this
\* node's claims.
DeclarationFindings(t, d) ==
    Codes([declaration_graph_join_mismatch |-> d.graph # [id |-> t.id, hash |-> t],
           unknown_declaration_node |-> d.node \notin Ids(t.nodes),
           declaration_topology_claim_mismatch |->
              \E n \in t.nodes : n.id = d.node /\ n.claims # d.claims])

\* validate_declaration_and_reservation
ReservationFindings(d, r) ==
    Codes([declaration_join_mismatch |-> d.id # r.decl,
           grant_declaration_mismatch |->
              DeclarationGrants(d) # r.grants \/ Cardinality(r.grants) # Cardinality(d.claims),
           noncanonical_resource_id |-> \E g \in r.grants : g.resource = Blank,
           invalid_rate_limit_units |->
              \E g \in r.grants : (g.group # None) # (g.units > 0)])

\* reconcile_resource_allocations: what the runtime took is what was granted.
\* An allocation of another reservation or attempt is reported and skipped.
ReconcileAllocations(d, r, allocations) ==
    LET own == {a \in allocations : a.reservation = r.id /\ a.attempt = r.attempt}
        findings == ReservationFindings(d, r)
           \cup Codes([invalid_allocation_trust_boundary |-> \E a \in allocations : ~a.untrusted,
                       allocation_join_mismatch |-> own # allocations,
                       unexpected_allocation |-> \E a \in own : a.grant \notin r.grants,
                       duplicate_allocation |-> \E a, b \in own : a # b /\ a.grant = b.grant,
                       missing_allocation |-> ~(r.grants \subseteq {a.grant : a \in own})])
    IN  [decl |-> d.id, reservation |-> r.id, attempt |-> r.attempt,
         complete |-> findings = {}, findings |-> findings]

-----------------------------------------------------------------------------
(* runtime_integration.rs: a JSONL record has a kind, an id and a body.  The
   body of an artifact record is its bytes; it has a media type, and the body of
   an allocation parses (empty_media_type, invalid_resource_allocation). *)

RecordFindings(x) ==
    CASE x.kind = "report" -> IF ReportFindings(x.body) = {} THEN {} ELSE {"invalid_node_report"}
      [] x.kind = "artifact" ->
            IF Observes(x.id, x.body) THEN {} ELSE {"artifact_hash_mismatch"}
      [] x.kind = "allocation" -> {}
      [] OTHER -> {"invalid_jsonl_record"}
\* The ingest finding about a second record of one id; a resource collision is
\* recognised as one by the code's name alone.
CollisionCode == [report |-> "report_id_collision",
                  artifact |-> "artifact_id_collision",
                  allocation |-> "resource_allocation_id_collision"]

SameId(x, y) == x.kind = y.kind /\ x.id = y.id
\* Variant: a second record of an id is dropped without a word.
IngestFirst(records) ==
    LET found == [i \in DOMAIN records |-> RecordFindings(records[i])]
        admitted == {i \in DOMAIN records : found[i] = {}}
        kept == {records[i] : i \in {i \in admitted :
                    \A k \in admitted : SameId(records[k], records[i]) => i <= k}}
        bodies(kind) == {x.body : x \in {x \in kept : x.kind = kind}}
    IN  [reports |-> bodies("report"), allocations |-> bodies("allocation"),
         artifacts |-> {x.id : x \in {x \in kept : x.kind = "artifact"}},
         findings |-> UNION Range(found)]

\* ingest_jsonl: the first record of an id is kept, an identical one is ignored,
\* a different one is a collision.
Ingest(records) ==
    LET found == [i \in DOMAIN records |-> RecordFindings(records[i])]
        admitted == {i \in DOMAIN records : found[i] = {}}
        kept == {records[i] : i \in {i \in admitted :
                    \A k \in admitted : SameId(records[k], records[i]) => i <= k}}
        colliding == {i \in admitted : records[i] \notin kept}
        bodies(kind) == {x.body : x \in {x \in kept : x.kind = kind}}
    IN  [reports |-> bodies("report"), allocations |-> bodies("allocation"),
         artifacts |-> {x.id : x \in {x \in kept : x.kind = "artifact"}},
         findings |-> (UNION Range(found)) \cup {CollisionCode[records[i].kind] : i \in colliding}]

\* The reports of the ingest map, in the order of their ids
ReportVector(reports) ==
    [k \in 1..Cardinality(reports) |->
        CHOOSE r \in reports : Cardinality({s \in reports : s.id <= r.id}) = k]

OutputFindings(in) ==
    LET outs == UNION {r.outs : r \in in.reports}
    IN  Codes([invalid_output_artifact_id |-> \E a \in outs : ~IsContentAddress(a),
               missing_declared_artifact |->
                  \E a \in outs : IsContentAddress(a) /\ a \notin in.artifacts])

\* reconcile_resources: every node with claims has one expectation, every
\* expectation a report of its attempt and the allocations it granted, every
\* allocation an expectation.  An expectation has the fields decl and res.
Consumed(x, a) == a.reservation = x.res.id \/ a.attempt = x.res.attempt
ResourceReconciliation(x, allocations) ==
    ReconcileAllocations(x.decl, x.res, {a \in allocations : Consumed(x, a)})
ResourceFindings(t, in, expectations) ==
    Codes([duplicate_resource_expectation |->
              \E x, y \in expectations : x # y /\ x.decl.node = y.decl.node,
           missing_resource_expectation |->
              \E n \in t.nodes : /\ n.claims # {}
                                 /\ \A x \in expectations : x.decl.node # n.id,
           resource_declaration_mismatch |->
              \E x \in expectations : DeclarationFindings(t, x.decl) # {},
           resource_attempt_report_mismatch |->
              \E x \in expectations : \A r \in in.reports :
                 ~(r.node = x.decl.node /\ r.attempt = x.res.attempt),
           resource_reconciliation_mismatch |->
              \E x \in expectations : ~ResourceReconciliation(x, in.allocations).complete,
           unaccounted_resource_allocation |->
              \E a \in in.allocations : \A x \in expectations : ~Consumed(x, a)])

\* The codes that contain the word "resource"
IsResourceCode(c) ==
    c \in {"duplicate_resource_expectation", "missing_resource_expectation",
           "resource_declaration_mismatch", "resource_attempt_report_mismatch",
           "resource_reconciliation_mismatch", "unaccounted_resource_allocation",
           "resource_allocation_id_collision"}

\* Variant: the outputs of every attempt, however it ended.
ProposalsOfAttempts(reports, observed) == observed \cap UNION {r.outs : r \in reports}

\* proposals: one for every observed output of a successful report, and one for
\* the run
Proposals(reports, observed) ==
    observed \cap UNION {r.outs : r \in {r \in reports : r.status = "succeeded"}}
IntegrationFindings(t, in, expectations) ==
    in.findings \cup ExpectationFindings(t) \cup OutputFindings(in)
    \cup ResourceFindings(t, in, expectations)
    \cup (IF LintErrors(t) = {} THEN {} ELSE {"topology_lint_error"})

\* RuntimeIntegrationReport
IntegrationReport(t, in, expectations, completeness, reconciliations, findings) ==
    LET resourcesComplete == /\ \A rc \in reconciliations : rc.complete
                             /\ \A c \in findings : ~IsResourceCode(c)
        complete == completeness.complete /\ resourcesComplete /\ findings = {}
    IN  [topology |-> t, complete |-> complete, completeness |-> completeness,
         halt |-> IF complete THEN "needs_review"
                  ELSE IF completeness.complete /\ ~resourcesComplete
                       THEN "resource_reconciliation_incomplete"
                  ELSE "incomplete_runtime_reports",
         reconciliations |-> reconciliations,
         proposals |-> IF complete THEN Proposals(in.reports, in.artifacts) ELSE {},
         findings |-> findings,
         bindings |-> UNION {{[node |-> x.decl.node, of |-> rc] :
                                 rc \in {rc \in reconciliations :
                                           /\ rc.decl = x.decl.id /\ rc.reservation = x.res.id
                                           /\ rc.attempt = x.res.attempt}} : x \in expectations}]

\* reconcile_with_resources
IntegrationExpectation(t) ==
    IF ExpectationFindings(t) = {} THEN GraphExpectation(t) ELSE EmptyExpectation(t)
Integrate(t, in, expectations) ==
    IntegrationReport(t, in, expectations,
        ReconcileReports(IntegrationExpectation(t), ReportVector(in.reports), in.artifacts),
        {ResourceReconciliation(x, in.allocations) : x \in expectations},
        IntegrationFindings(t, in, expectations))

\* ResourceExpectationBundle::validate: a bundle has the fields topology, rev
\* and entries; an entry node, attempt, authority (None or the reviewed
\* deployment it was reserved under), decl, res, allocations and dispositions.
BundleFindings(t, rev, b) ==
    LET repeated(f(_)) == \E x, y \in b.entries : x # y /\ f(x) = f(y)
    IN  Codes([resource_bundle_topology_mismatch |-> b.topology # t,
               resource_bundle_revision_mismatch |-> b.rev # rev,
               duplicate_resource_bundle_node |-> repeated(LAMBDA x : x.node),
               duplicate_resource_bundle_attempt |-> repeated(LAMBDA x : x.attempt),
               duplicate_resource_bundle_reservation |-> repeated(LAMBDA x : x.res.id),
               resource_bundle_join_mismatch |->
                  \E x \in b.entries : \/ x.node # x.decl.node
                                       \/ x.attempt # x.res.attempt
                                       \/ x.decl.id # x.res.decl,
               resource_bundle_reviewed_deployment_missing |->
                  \E x \in b.entries : x.authority = None,
               resource_bundle_reviewed_deployment_mismatch |->
                  \E x \in b.entries :
                     /\ x.authority # None
                     /\ x.authority # [topology |-> b.topology, rev |-> b.rev,
                                       space |-> t.space, node |-> x.node,
                                       attempt |-> x.attempt, decl |-> x.decl],
               duplicate_resource_bundle_allocation |->
                  \E x, y \in b.entries : \E k \in x.allocations, l \in y.allocations :
                     k.id = l.id /\ <<x, k>> # <<y, l>>,
               resource_bundle_allocation_join_mismatch |->
                  \E x \in b.entries : \E k \in x.allocations :
                     k.reservation # x.res.id \/ k.attempt # x.attempt,
               resource_bundle_disposition_join_mismatch |->
                  \E x \in b.entries : \E k \in x.dispositions :
                     k.reservation # x.res.id \/ k.attempt # x.attempt])
Expectations(b) == {[decl |-> x.decl, res |-> x.res] : x \in b.entries}
\* allocation_jsonl
AllocationRecords(b) ==
    SetToSeq({[kind |-> "allocation", id |-> [allocation |-> k.id], body |-> k] :
                 k \in UNION {x.allocations : x \in b.entries}})

-----------------------------------------------------------------------------
(* streaming_reconciliation.rs.  An acceptance is the projection of a case: the
   fields topology, rev and ready (work cells).  A permit has the fields
   topology, rev, target, attempt and of. *)

\* derive_streaming_acceptance: None when the case is another one
Acceptance(case, t) ==
    IF case.space # t.space THEN None
    ELSE [topology |-> t, rev |-> case.rev, ready |-> case.ready]

\* derive_streaming_resource_permits: every expectation joins exactly one
\* reconciliation of this integration, and that one is complete.
ReconciliationsOf(integration, x) ==
    {rc \in integration.reconciliations :
        rc.decl = x.decl.id /\ rc.reservation = x.res.id /\ rc.attempt = x.res.attempt}
PermitFindings(t, expectations, integration, acceptance) ==
    LET own(x) == ReconciliationsOf(integration, x)
    IN  Codes([resource_permit_graph_mismatch |-> integration.topology # t,
               resource_permit_acceptance_mismatch |-> acceptance.topology # t,
               resource_integration_has_findings |->
                  \E c \in integration.findings : IsResourceCode(c),
               resource_permit_declaration_mismatch |->
                  \E x \in expectations : DeclarationFindings(t, x.decl) # {},
               duplicate_resource_permit_target |->
                  \E x, y \in expectations : x # y /\ x.decl.node = y.decl.node,
               resource_permit_reconciliation_join_mismatch |->
                  \E x \in expectations : Cardinality(own(x)) # 1,
               resource_permit_missing_integration_provenance |->
                  \E x \in expectations : \E rc \in own(x) :
                     [node |-> x.decl.node, of |-> rc] \notin integration.bindings,
               resource_permit_reconciliation_incomplete |->
                  \E x \in expectations : \E rc \in own(x) : ~rc.complete,
               unmatched_resource_reconciliation |->
                  integration.reconciliations # UNION {own(x) : x \in expectations}])
Permits(t, expectations, integration, acceptance) ==
    {[topology |-> t, rev |-> acceptance.rev, target |-> x.decl.node,
      attempt |-> x.res.attempt, of |-> CHOOSE rc \in ReconciliationsOf(integration, x) : TRUE] :
        x \in expectations}

\* An event has the fields id, valid (schema and identities), graph, node,
\* attempt, seq and kind; a chunk also edge, artifact, schema, index, hashed
\* and final.
EventFindings(exp, e) ==
    IF ~e.valid THEN {"invalid_event_identity"}
    ELSE IF e.graph # exp.graph THEN {"stream_graph_join_mismatch"}
    ELSE IF e.node \notin Ids(exp.nodes) THEN {"unknown_stream_node"}
    ELSE {}

\* The logical events are the first of each id.
StreamPrefix(exp, events) ==
    LET found == [i \in DOMAIN events |-> EventFindings(exp, events[i])]
        joining == {i \in DOMAIN events : found[i] = {}}
        first == {i \in joining : \A k \in joining : events[k].id = events[i].id => i <= k}
        logical == {events[i] : i \in first}
        redelivered == {i \in joining \ first : events[i] \in logical}
    IN  [logical |-> logical, redelivered |-> Cardinality(redelivered),
         findings |-> (UNION Range(found))
            \cup IF redelivered = joining \ first THEN {} ELSE {"event_identity_collision"}]

\* sequence_groups, sequence_identity_groups: the numbers of an attempt run from
\* 0 without a gap, and each belongs to one event.
SameAttempt(e, f) == e.node = f.node /\ e.attempt = f.attempt
SequenceFindings(logical) ==
    LET numbers(e) == {f.seq : f \in {f \in logical : SameAttempt(e, f)}}
    IN  Codes([non_contiguous_attempt_sequence |->
                  \E e \in logical : numbers(e) # 0..Cardinality(numbers(e)) - 1,
               attempt_sequence_collision |->
                  \E e, f \in logical : e # f /\ SameAttempt(e, f) /\ e.seq = f.seq])

Chunks(logical) == {e \in logical : e.kind = "chunk"}
SameStream(e, f) == SameAttempt(e, f) /\ e.edge = f.edge /\ e.artifact = f.artifact

\* Variant: gaps are not looked for.
ChunkFindingsGapless(logical) ==
    Codes([chunk_index_collision |->
              \E e, f \in Chunks(logical) : e # f /\ SameStream(e, f) /\ e.index = f.index])

\* validate_chunk_sequences: the same for the chunks of one artifact on one
\* edge, of which at most the last is final.
ChunkFindings(logical) ==
    LET stream(e) == {f \in Chunks(logical) : SameStream(e, f)}
        numbers(e) == {f.index : f \in stream(e)}
        finals(e) == {f \in stream(e) : f.final}
    IN  Codes([chunk_index_collision |->
                  \E e \in Chunks(logical) : Cardinality(numbers(e)) # Cardinality(stream(e)),
               non_contiguous_chunk_sequence |->
                  \E e \in Chunks(logical) : numbers(e) # 0..Cardinality(numbers(e)) - 1,
               invalid_final_chunk_position |->
                  \E e \in Chunks(logical) :
                     \/ Cardinality(finals(e)) > 1
                     \/ \E f \in finals(e) : f.index # Max(numbers(e))])
\* One chunk against the topology, the reports and the bytes.  q is the input
\* of reconcile_stream: topology, exp, events, reports, observed, rev, permits,
\* acceptance and closed.
ChunkContract(q, e) ==
    IF ~e.hashed THEN {"invalid_chunk_hash"}
    ELSE IF e.edge \notin Ids(q.topology.edges) THEN {"unknown_stream_edge"}
    ELSE IF \E d \in q.topology.edges :
               /\ d.id = e.edge
               /\ d.from # e.node \/ d.kind # "data" \/ d.schema # e.schema
         THEN {"stream_edge_contract_mismatch"}
    ELSE {}
EdgeOf(q, e) == CHOOSE d \in q.topology.edges : d.id = e.edge
HandoffProven(q, completeness, e) ==
    LET d == EdgeOf(q, e)
    IN  /\ e.final
        /\ \E x \in q.exp.edges :
              x.id = e.edge /\ x.from = d.from /\ x.to = d.to /\ x.schema = e.schema
        /\ d.from \in DOMAIN completeness.terminal
        /\ completeness.terminal[d.from] = e.attempt
        /\ \E i \in DOMAIN q.reports : /\ q.reports[i].node = d.from
                                       /\ q.reports[i].attempt = e.attempt
                                       /\ e.artifact \in q.reports[i].outs
        /\ e.artifact \in q.observed
\* The permit of the edge's target, for this graph and this revision
PermitsFor(q, e) ==
    {p \in q.permits : /\ p.topology = q.exp.graph.hash
                       /\ p.rev = q.rev /\ p.target = EdgeOf(q, e).to}
\* A target behind an evidence or a review edge waits for its cell to be ready.
GateOpen(q, e) ==
    LET to == EdgeOf(q, e).to
    IN  (\E d \in q.topology.edges : d.to = to /\ d.kind \in {"evidence", "review_or_authority"})
        => /\ q.acceptance.topology = q.exp.graph.hash
           /\ q.acceptance.rev = q.rev
           /\ NodeOf(q.topology, to).cell \in q.acceptance.ready

PrefixFindings(q, joined, stream) ==
    Codes([stale_streaming_acceptance |-> q.acceptance.rev # q.rev,
           topology_expectation_mismatch |-> ~joined])
    \cup stream.findings \cup SequenceFindings(stream.logical) \cup ChunkFindings(stream.logical)

SoundChunks(q, stream) == {e \in Chunks(stream.logical) : ChunkContract(q, e) = {}}
\* The chunks that release the stage behind their edge
Released(q, completeness, sound) ==
    {e \in sound : /\ NodeOf(q.topology, EdgeOf(q, e).from).delivery = "streaming"
                   /\ PermitsFor(q, e) # {} /\ GateOpen(q, e)
                   /\ HandoffProven(q, completeness, e)}

StreamReport(q, joined, completeness, stream, sound, released, prefix) ==
    LET findings == prefix
           \cup (UNION {ChunkContract(q, e) : e \in Chunks(stream.logical)})
           \cup Codes([unproven_stage_handoff |->
                          \E e \in sound : ~HandoffProven(q, completeness, e),
                       stage_release_blocked |-> released # sound])
        reported == {q.reports[i].node :
                        i \in {i \in DOMAIN q.reports : q.reports[i].graph = q.exp.graph}}
    IN  [status |-> IF joined /\ completeness.complete /\ findings = {} THEN "complete"
                    ELSE IF q.closed THEN "incomplete_terminal"
                    ELSE IF released = {} THEN "collecting" ELSE "partially_progressing",
         events |-> stream.logical, redelivered |-> stream.redelivered,
         releases |-> {[edge |-> e.edge, to |-> EdgeOf(q, e).to, artifact |-> e.artifact,
                        event |-> e, rev |-> q.rev,
                        permit |-> CHOOSE p \in PermitsFor(q, e) : TRUE] : e \in released},
         unfinished |-> Ids(q.exp.nodes) \ reported,
         completeness |-> completeness, findings |-> findings]

\* reconcile_stream: nothing is released while the prefix is in doubt.
ReconcilePrefix(q, joined, completeness, stream, prefix, sound) ==
    StreamReport(q, joined, completeness, stream, sound,
                 IF joined /\ prefix = {} THEN Released(q, completeness, sound) ELSE {}, prefix)
ReconcileJoined(q, joined, stream) ==
    ReconcilePrefix(q, joined, ReconcileReports(q.exp, q.reports, q.observed), stream,
                    PrefixFindings(q, joined, stream), SoundChunks(q, stream))
ReconcileStream(q) ==
    ReconcileJoined(q, /\ ExpectationFindings(q.topology) = {}
                       /\ q.exp = GraphExpectation(q.topology),
                    StreamPrefix(q.exp, q.events))

=============================================================================
