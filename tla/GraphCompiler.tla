---------------------------- MODULE GraphCompiler ----------------------------
(***************************************************************************)
(* The graph compiler (src/graph_compiler.rs): lowering a topology and its  *)
(* policy documents to a deployment bundle, verifying a bundle by           *)
(* compiling its retained inputs again, deriving the reviewed mode and the *)
(* deployment authority from the morphism log, and migration proposals.    *)
(*                                                                         *)
(* A content hash is the content itself.  A compiler identity (version,    *)
(* semantic profile, input schema, contract inventory) is the profile it   *)
(* belongs to, "v0" or "v1".  A request is a record with the fields mode   *)
(* (None or the binding of an accepted review), space, base, plan, maps (a *)
(* set of plan mappings) and docs (kind -> policy id -> document).          *)
(***************************************************************************)
EXTENDS GraphTopology, Sequences, SequencesExt

CONSTANT CaseSpace    \* the case the log belongs to

Profiles == {"v0", "v1"}
CurrentProfile == "v1"

-----------------------------------------------------------------------------
(* The reviewed mode.  An entry of the morphism log is a record whose field
   kind is "topology_review" or something else; a revision is the number of
   entries before and including the morphism that made it, and so is a review
   id. *)

IsReviewOf(entry, claim) == entry.kind = "topology_review" /\ entry.claim = claim
ReviewsOf(log, claim) == {i \in DOMAIN log : IsReviewOf(log[i], claim)}

\* Variant: the latest acceptance counts, whatever was decided after it
ReviewedCompilationModeOfAcceptance(log, claim) ==
    LET accepts == {i \in ReviewsOf(log, claim) : log[i].action = "accept"}
        i == Max(accepts)
    IN  IF accepts = {} THEN None
        ELSE [claim |-> claim, review |-> i, topology |-> log[i].topology,
              manifest |-> log[i].manifest, space |-> log[i].topology.space, base |-> i,
              proposal |-> log[i].proposal, profile |-> log[i].profile]

\* reviewed_compilation_mode: the binding of the latest review of the claim,
\* which must be an acceptance.  The base is the revision the review made.
ReviewedCompilationMode(log, claim) ==
    LET i == Max(ReviewsOf(log, claim))
    IN  IF ReviewsOf(log, claim) = {} THEN None
        ELSE IF log[i].action # "accept" THEN None
        ELSE [claim |-> claim, review |-> i, topology |-> log[i].topology,
              manifest |-> log[i].manifest, space |-> log[i].topology.space, base |-> i,
              proposal |-> log[i].proposal, profile |-> log[i].profile]

-----------------------------------------------------------------------------
(* compile_execution_topology_with_profile *)

\* validate_reviewed_binding
ReviewedBindingFindings(t, req, profile) ==
    IF req.mode = None THEN {}
    ELSE Codes([reviewed_topology_hash_mismatch |-> req.mode.topology # t,
                reviewed_case_space_mismatch |-> req.mode.space # req.space,
                stale_reviewed_base_revision |-> req.mode.base # req.base,
                reviewed_compiler_mismatch |-> req.mode.profile # profile])

\* validate_reviewed_policy_binding
PolicyBindingFindings(t, req) ==
    LET manifest == DeploymentPolicyManifest(t, req.docs)
    IN  ManifestFindings(t, manifest)
        \cup Codes([reviewed_policy_manifest_hash_mismatch |->
                       IF req.mode = None THEN FALSE ELSE req.mode.manifest # manifest])

\* validate_policy_document: a budget document only has to name its policy
ValidPolicyDocument(kind, id, doc) == doc.id = id /\ (kind = "budget" \/ doc.valid)

\* validate_policy_documents
PolicyDocumentFindings(t, req) ==
    Codes([missing_policy |->
              \E k \in PolicyKinds : ~(t.pols[k] \subseteq DOMAIN req.docs[k]),
           undeclared_policy |->
              \E k \in PolicyKinds : ~(DOMAIN req.docs[k] \subseteq t.pols[k]),
           invalid_policy_document |->
              \E k \in PolicyKinds : \E p \in t.pols[k] \cap DOMAIN req.docs[k] :
                 ~ValidPolicyDocument(k, p, req.docs[k][p])])

\* validate_plan_mappings
PlanMappingFindings(t, req) ==
    LET mapped == {m.node : m \in req.maps}
    IN  Codes([unknown_plan_mapping_node |-> ~(mapped \subseteq Ids(t.nodes)),
               duplicate_plan_mapping |-> Cardinality(mapped) # Cardinality(req.maps),
               incomplete_execution_plan_mapping |-> \E m \in req.maps : m.worker = Blank,
               missing_execution_plan_mapping |-> ~(Ids(t.nodes) \subseteq mapped)])

\* The request is refused when any of the validations finds something
Refused(t, req, profile) ==
    \/ t.space # req.space
    \/ Blank \in {req.space, req.base, req.plan}
    \/ PlanMappingFindings(t, req) # {}
    \/ ReviewedBindingFindings(t, req, profile) # {}
    \/ PolicyBindingFindings(t, req) # {}
    \/ PolicyDocumentFindings(t, req) # {}
    \/ LintErrorsWithPolicies(t, req.docs["verification"]) # {}

\* build_execution_plan: one unreviewed step per node, at the base revision
ExecutionPlan(t, req) ==
    [plan |-> req.plan, base |-> req.base, status |-> "unreviewed",
     steps |-> {[step |-> n.id, cell |-> n.cell,
                 worker |-> (CHOOSE m \in req.maps : m.node = n.id).worker] : n \in t.nodes}]

\* build_artifact_values
Artifacts(t, req) ==
    [analysis |-> Analysis(t, req.docs["verification"]),
     plan |-> ExecutionPlan(t, req),
     nodes |-> {[id |-> n.id, class |-> n.class, delivery |-> n.delivery, pol |-> n.pol] :
                   n \in t.nodes},
     edges |-> t.edges,
     resources |-> {[id |-> n.id, claims |-> n.claims] : n \in t.nodes},
     policies |-> req.docs]

\* The manifest names what the bundle was made from and by which authority
Manifest(t, req, profile) ==
    [profile |-> profile, topology |-> t, space |-> req.space, base |-> req.base,
     policies |-> DeploymentPolicyManifest(t, req.docs),
     claim |-> IF req.mode = None THEN None ELSE req.mode.claim,
     review |-> IF req.mode = None THEN None ELSE req.mode.review,
     reviewRevision |-> IF req.mode = None THEN None ELSE req.mode.base]

Compile(t, req, profile) ==
    IF Refused(t, req, profile) THEN None
    ELSE [topology |-> t, inputs |-> [profile |-> profile, request |-> req],
          artifacts |-> Artifacts(t, req), manifest |-> Manifest(t, req, profile)]

-----------------------------------------------------------------------------
(* Verification, authority and migration *)

\* retained_mode_v0: a profile 0 bundle does not retain a compiler identity, and
\* its binding is read back as one to profile 0.
RetainedRequest(b) ==
    IF b.inputs.profile = "v0" /\ b.inputs.request.mode # None
    THEN [b.inputs.request EXCEPT !.mode.profile = "v0"] ELSE b.inputs.request

\* Variant: the manifests are compared, the artifacts are taken from the bundle
BundlesMatchByManifest(b, reproduced) ==
    IF reproduced = None THEN FALSE
    ELSE b.manifest = reproduced.manifest /\ b.inputs = reproduced.inputs
\* deployment_bundles_match
BundlesMatch(b, reproduced) == b = reproduced

\* verify_deployment_bundle_internal: the bytes agree with the manifest by
\* content address; the meaning agrees because the retained inputs compile to
\* this very bundle.
Verified(b) ==
    /\ ValidateTopology(b.topology) = {}
    /\ b.manifest.topology = b.topology
    /\ b.manifest.profile = b.inputs.profile
    /\ BundlesMatch(b, Compile(b.topology, RetainedRequest(b), b.inputs.profile))

\* reviewed_deployment_authority: the bundle's manifest names the very review
\* that the log holds as the claim's latest.
ReviewedDeploymentAuthority(log, claim, b) ==
    LET binding == ReviewedCompilationMode(log, claim)
    IN  IF binding = None THEN None
        ELSE IF /\ b.manifest.claim = claim
                /\ b.manifest.review = binding.review
                /\ b.manifest.profile = binding.profile
                /\ b.manifest.space = binding.space
                /\ b.manifest.base = binding.base
                /\ b.manifest.reviewRevision = binding.base
                /\ b.manifest.topology = binding.topology
                /\ b.manifest.policies = binding.manifest
             THEN [claim |-> claim, review |-> binding.review, bundle |-> b]
             ELSE None

\* propose_deployment_bundle_migration: the retained inputs of a profile 0
\* bundle, compiled by the current profile
MigrationProposal(b) ==
    LET proposed == Compile(b.topology, RetainedRequest(b), CurrentProfile)
    IN  IF ~Verified(b) \/ b.manifest.profile = CurrentProfile \/ proposed = None
        THEN None
        ELSE [source |-> b, proposed |-> proposed, accepted |-> FALSE]
=============================================================================
