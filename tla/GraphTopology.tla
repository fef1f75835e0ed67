---------------------------- MODULE GraphTopology ----------------------------
(***************************************************************************)
(* Execution topologies: their intrinsic validation                        *)
(* (src/execution_topology.rs), the graph linter (src/graph_lint.rs), the   *)
(* typed patches of dynamic expansion (src/dynamic_expansion.rs), version   *)
(* diffs (src/topology_redesign.rs) and the deployment-policy manifest      *)
(* (src/deployment_policy.rs).                                              *)
(*                                                                         *)
(* A topology is a record with the fields id, space, nodes, edges and      *)
(* pols, where pols gives the policy ids of each kind.  Its arrays are sets *)
(* of records: canonicalisation sorts every one of them, so the content    *)
(* hash of a topology is the topology itself.  A node is a record with the *)
(* fields id, cell, class, in, out, effects, claims, pol (kind -> policy or *)
(* None), delivery and dur; an edge has the fields id, from, to, kind, out, *)
(* in, schema and scope.  Findings are sets of codes.                      *)
(***************************************************************************)
EXTENDS Integers, FiniteSets, FiniteSetsExt, Functions

CONSTANTS None,    \* an absent optional field
          Blank    \* a required field left empty

PolicyKinds == {"verification", "budget", "expansion"}

\* A set of codes that hold, from a function code -> condition
Codes(f) == {c \in DOMAIN f : f[c]}

Ids(records) == {r.id : r \in records}
UniqueIds(records) == Cardinality(Ids(records)) = Cardinality(records)
UniqueNames(ports) == Cardinality({p.name : p \in ports}) = Cardinality(ports)
NodeOf(t, id) == CHOOSE n \in t.nodes : n.id = id
ClaimsResource(n, resource) == \E c \in n.claims : c.resource = resource

-----------------------------------------------------------------------------
(* execution_topology.rs *)

\* validate_data_edge: the output, the input and the schema of a data edge
\* are those of its endpoints.
ValidateDataEdge(t, e) ==
    Codes([incomplete_data_binding |-> None \in {e.out, e.in, e.schema},
           unknown_output_binding |->
              /\ None \notin {e.out, e.in, e.schema}
              /\ \E n \in t.nodes : n.id = e.from
                    /\ [name |-> e.out, schema |-> e.schema] \notin n.out,
           unknown_input_binding |->
              /\ None \notin {e.out, e.in, e.schema}
              /\ \E n \in t.nodes : n.id = e.to
                    /\ [name |-> e.in, schema |-> e.schema] \notin n.in])

\* validate_execution_topology, the loop over nodes
ValidateNode(t, n) ==
    Codes([required |-> Blank \in {n.id, n.cell, n.class},
           duplicate_port_name |-> ~UniqueNames(n.in) \/ ~UniqueNames(n.out),
           empty_claim |-> ClaimsResource(n, Blank),
           unknown_policy_reference |->
              \E k \in PolicyKinds : n.pol[k] \notin t.pols[k] \cup {None}])

\* ... and over edges.  Only a data edge is bound to ports; an exclusion names
\* resources that both of its endpoints claim.
ValidateEdge(t, e) ==
    LET ends == {n \in t.nodes : n.id \in {e.from, e.to}}
        bound == ~({e.out, e.in, e.schema} \subseteq {None})
        exclusion == e.kind = "resource_exclusion" /\ ~bound
    IN  Codes([required |-> Blank \in {e.id, e.from, e.to} \cup e.scope,
               unknown_edge_endpoint |-> ~({e.from, e.to} \subseteq Ids(t.nodes)),
               self_edge |-> e.from = e.to,
               binding_on_non_data_edge |-> e.kind # "data" /\ bound,
               missing_resource_scope |-> exclusion /\ e.scope = {},
               unknown_resource_scope |->
                  /\ exclusion
                  /\ {e.from, e.to} \subseteq Ids(t.nodes)
                  /\ \E r \in e.scope, n \in ends : ~ClaimsResource(n, r)])
        \cup (IF e.kind = "data" THEN ValidateDataEdge(t, e) ELSE {})

ValidateTopology(t) ==
    Codes([required |-> Blank \in {t.id, t.space} \cup UNION Range(t.pols),
           empty_topology |-> t.nodes = {},
           duplicate_node_id |-> ~UniqueIds(t.nodes),
           duplicate_edge_id |-> ~UniqueIds(t.edges)])
    \cup (UNION {ValidateNode(t, n) : n \in t.nodes})
    \cup (UNION {ValidateEdge(t, e) : e \in t.edges})

-----------------------------------------------------------------------------
(* graph_lint.rs *)

\* adjacency and reverse: edges with an unknown end are skipped, parallel edges
\* count each.
Joined(t) == {e \in t.edges : e.from \in Ids(t.nodes) /\ e.to \in Ids(t.nodes)}
InEdges(t, id) == {e \in Joined(t) : e.to = id}
OutEdges(t, id) == {e \in Joined(t) : e.from = id}

\* dag_metrics: Kahn's algorithm by levels.  Levels(t)[k] is what has left the
\* queue after k levels.
Levels(t) ==
    LET done[k \in 0..Cardinality(t.nodes)] ==
            IF k = 0 THEN {}
            ELSE {id \in Ids(t.nodes) :
                     \A e \in InEdges(t, id) : e.from \in done[k - 1]}
    IN  done
Acyclic(t) == Levels(t)[Cardinality(t.nodes)] = Ids(t.nodes)
LevelSizes(t) ==
    LET done == Levels(t)
    IN  {Cardinality(done[k] \ done[k - 1]) : k \in 1..Cardinality(t.nodes)}
ParallelWidth(t) == Max({0} \cup LevelSizes(t))
LongestPathNodes(t) ==
    LET done == Levels(t)
    IN  Max({0} \cup {k \in 1..Cardinality(t.nodes) : done[k] # done[k - 1]})

\* critical_path_ms of an acyclic topology whose durations are all known
CriticalPath(t) ==
    LET ends[id \in Ids(t.nodes)] ==
            NodeOf(t, id).dur + Max({0} \cup {ends[e.from] : e \in InEdges(t, id)})
    IN  IF \E n \in t.nodes : n.dur = None THEN None
        ELSE Max({ends[id] : id \in Ids(t.nodes)})

\* reachable_ignoring_edge(_of_kind): breadth first from `from', never through
\* the ignored edge; `to' counts only when an edge leads to it.  Seen(..)[k] is
\* what k levels have visited.
Seen(depth, from, edges) ==
    LET seen[k \in 0..depth] ==
            IF k = 0 THEN {from}
            ELSE seen[k - 1] \cup
                 {e.to : e \in {f \in edges : f.from \in seen[k - 1]}}
    IN  seen
Reaches(t, from, to, edges) ==
    LET depth == Cardinality(t.nodes)
    IN  \E e \in edges : e.to = to /\ e.from \in Seen(depth, from, edges)[depth]
RedundantEdge(t, e) ==
    Reaches(t, e.from, e.to, {f \in Joined(t) \ {e} : f.kind = e.kind})

\* claims_conflict and the exemption of files in isolated worktrees
ClaimsConflict(l, r) ==
    l.resource = r.resource /\ ~(l.mode = "read" /\ r.mode = "read")
IsolatedFile(l, r) == l.file /\ l.isolated /\ r.isolated

\* Variant: a path in one direction is looked for, never in the other, and two
\* writers of one resource are taken for readers.
UnsafeParallelPairsReading(t) ==
    {p \in Ids(t.nodes) \X Ids(t.nodes) :
        /\ p[1] # p[2]
        /\ ~Reaches(t, p[1], p[2], Joined(t)) /\ ~Reaches(t, p[2], p[1], Joined(t))
        /\ \E l \in NodeOf(t, p[1]).claims, r \in NodeOf(t, p[2]).claims :
              /\ l.resource = r.resource /\ l.mode # r.mode
              /\ ~IsolatedFile(l, r)}

\* resource_conflicts: two nodes that no path orders and that claim one resource
\* in conflicting modes, without an exclusion edge between them.
UnsafeParallelPairs(t) ==
    {p \in Ids(t.nodes) \X Ids(t.nodes) :
        /\ p[1] # p[2]
        /\ ~Reaches(t, p[1], p[2], Joined(t)) /\ ~Reaches(t, p[2], p[1], Joined(t))
        /\ \E l \in NodeOf(t, p[1]).claims, r \in NodeOf(t, p[2]).claims :
              /\ ClaimsConflict(l, r)
              /\ ~IsolatedFile(l, r)
              /\ ~\E e \in t.edges : /\ e.kind = "resource_exclusion"
                                     /\ l.resource \in e.scope
                                     /\ {e.from, e.to} = {p[1], p[2]}}

\* lint_execution_topology: the deterministic errors, which every consumer of
\* the linter takes as a refusal, ...
LintErrors(t) ==
    ValidateTopology(t)
    \cup Codes([dependency_cycle |-> ~Acyclic(t),
                unsafe_parallel_resource_conflict |-> UnsafeParallelPairs(t) # {},
                expansion_without_budget |->
                   \E n \in t.nodes : n.pol["expansion"] # None /\ n.pol["budget"] = None])

\* ... and the findings a review keeps as advice (those about wording and about
\* who proposed a node are left out)
LintAdvice(t) ==
    Codes([false_edge_candidate |-> \E e \in Joined(t) : RedundantEdge(t, e),
           barrier_on_pipeline_path |->
              \E n \in t.nodes : /\ n.delivery = "barrier"
                                 /\ InEdges(t, n.id) # {} /\ OutEdges(t, n.id) # {},
           fan_in_context_pressure |->
              \E n \in t.nodes : Cardinality(InEdges(t, n.id)) >= 100,
           side_effect_without_verification_policy |->
              \E n \in t.nodes : n.effects /\ n.pol["verification"] = None,
           verification_independence_uninspectable |-> t.pols["verification"] # {},
           expansion_termination_uninspectable |-> t.pols["expansion"] # {}])

\* lint_execution_topology_with_verification_policies: docs maps a policy id to
\* the document supplied for it, a record with the fields id and valid.
LintErrorsWithPolicies(t, docs) ==
    LintErrors(t)
    \cup Codes([verification_policy_missing |->
                   ~(t.pols["verification"] \subseteq DOMAIN docs),
                verification_policy_invalid |->
                   \E p \in t.pols["verification"] \cap DOMAIN docs :
                      ~docs[p].valid \/ docs[p].id # p])

\* GraphLintReport: what the compiler keeps as the analysis artifact
Analysis(t, docs) ==
    [errors |-> LintErrorsWithPolicies(t, docs),
     advice |-> LintAdvice(t) \ {"verification_independence_uninspectable"},
     width |-> ParallelWidth(t), path |-> LongestPathNodes(t),
     critical |-> IF Acyclic(t) THEN CriticalPath(t) ELSE None]

-----------------------------------------------------------------------------
(* dynamic_expansion.rs: typed patches.  A patch is a record with the fields
   addN, updN, addE (sets of nodes and edges) and remN, remE (sets of ids). *)

\* validate_entity_operations: every id occurs in one operation, additions are
\* new, updates and removals name what exists.
EntityOperations(added, updated, removed, existing) ==
    Codes([empty_patch_id |-> Blank \in Ids(added) \cup Ids(updated) \cup removed,
           duplicate_patch_id |-> ~UniqueIds(added) \/ ~UniqueIds(updated),
           patch_addition_exists |-> Ids(added) \cap existing # {},
           patch_target_missing |-> ~(Ids(updated) \cup removed \subseteq existing),
           conflicting_patch_operations |->
              \/ Ids(added) \cap (Ids(updated) \cup removed) # {}
              \/ Ids(updated) \cap removed # {}])

\* canonical_topology_patch: why a patch is refused against its base
PatchFindings(base, p) ==
    EntityOperations(p.addN, p.updN, p.remN, Ids(base.nodes))
    \cup EntityOperations(p.addE, {}, p.remE, Ids(base.edges))
    \cup Codes([no_op_node_update |-> p.updN \cap base.nodes # {},
                empty_topology_patch |->
                   {p.addN, p.updN, p.addE, p.remN, p.remE} = {{}}])

\* apply_canonical_topology_patch: the patched topology, before its validation
Patched(base, p) ==
    [base EXCEPT
       !.nodes = {n \in base.nodes : n.id \notin p.remN \cup Ids(p.updN)}
                 \cup p.updN \cup p.addN,
       !.edges = {e \in base.edges : e.id \notin p.remE} \cup p.addE]
ApplyPatch(base, p) ==
    IF PatchFindings(base, p) # {} \/ ValidateTopology(Patched(base, p)) # {}
    THEN None ELSE Patched(base, p)

\* diff_entities of two sets of records
DiffEntities(old, new) ==
    [added |-> Ids(new) \ Ids(old), removed |-> Ids(old) \ Ids(new),
     changed |-> {r.id : r \in {q \in new : q.id \in Ids(old) /\ q \notin old}}]

\* topology_diff: patches never change an edge in place
PatchDiff(before, after) ==
    [nodes |-> DiffEntities(before.nodes, after.nodes),
     added_edges |-> Ids(after.edges) \ Ids(before.edges),
     removed_edges |-> Ids(before.edges) \ Ids(after.edges)]

-----------------------------------------------------------------------------
(* topology_redesign.rs *)

\* diff_topology_versions, with set_change per kind of policy
VersionDiff(old, new) ==
    [old |-> old, new |-> new,
     nodes |-> DiffEntities(old.nodes, new.nodes),
     edges |-> DiffEntities(old.edges, new.edges),
     pols |-> [k \in PolicyKinds |-> [added |-> new.pols[k] \ old.pols[k],
                                     removed |-> old.pols[k] \ new.pols[k]]]]

\* propose_redesign: input is a record with the fields audits and references
\* (artifact and proposal ids, None for one that is not content addressed),
\* impact, uncertainty, loss (sets of statements) and authority.
RedesignFindings(old, new, input) ==
    Codes([topology_identity_mismatch |-> old.id # new.id \/ old.space # new.space,
           missing_audit_artifact |-> input.audits = {},
           invalid_reference |-> None \in input.audits \cup input.references,
           missing_statement |-> {} \in {input.impact, input.uncertainty, input.loss},
           empty_statement |-> Blank \in input.impact \cup input.uncertainty \cup input.loss,
           missing_reviewer_authority |-> input.authority = None,
           invalid_proposed_topology |-> LintErrors(new) # {},
           empty_redesign |-> old = new])

-----------------------------------------------------------------------------
(* deployment_policy.rs: a manifest binds each policy id to the content of its
   document.  docs maps a kind of policy to a function from ids to documents. *)

DeploymentPolicyManifest(t, docs) == [topology |-> t, bindings |-> docs]

\* validate_deployment_policy_manifest and validate_bindings
ManifestFindings(t, manifest) ==
    Codes([policy_manifest_topology_hash_mismatch |-> manifest.topology # t,
           missing_policy_binding |->
              \E k \in PolicyKinds : ~(t.pols[k] \subseteq DOMAIN manifest.bindings[k]),
           undeclared_policy_binding |->
              \E k \in PolicyKinds : ~(DOMAIN manifest.bindings[k] \subseteq t.pols[k])])
=============================================================================
