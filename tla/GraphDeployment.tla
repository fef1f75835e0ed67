--------------------------- MODULE GraphDeployment ---------------------------
(***************************************************************************)
(* The life of an execution topology up to the authority to run it: bounded *)
(* expansion rounds (src/dynamic_expansion.rs), redesign proposals          *)
(* (src/topology_redesign.rs), simulation (src/graph_simulation.rs), the    *)
(* topology review in the case's morphism log (src/native_review.rs,        *)
(* src/native_cli/ops/topology_review.rs), proposal and reviewed            *)
(* compilation (src/graph_compiler.rs and the MCP host), and the grant of   *)
(* deployment authority to a stored bundle.                                *)
(*                                                                         *)
(* The command line, hosts of two releases, and whoever can write the      *)
(* artifact directory act in any order on one case.  A step is one call:   *)
(* the races inside a call on the store are CaseStore's subject.           *)
(***************************************************************************)
EXTENDS GraphCompiler, GraphSimulation

CONSTANTS
    Claims,            \* ids of topology claim cells
    BaseTopology,      \* the topology an expansion starts from
    Topologies,        \* topologies that clients submit
    Documents,         \* families of policy documents that clients submit
    Mappings,          \* sets of plan mappings that clients submit
    ClaimRecords,      \* what a claim cell may record about its topology
    ExpansionPolicies, \* expansion policies that clients submit
    Rounds,            \* rounds: sequences of candidates with their cost and latency
    SimulationRequests,
    RedesignInputs,
    Dispositions,
    MaxLog,            \* bound on the morphism log
    MaxBundles,        \* bound on the artifact directory
    MaxRounds          \* bound on expansion rounds

\* A topology is a struct, nodes and candidates are vectors, the limits of a
\* policy are counts, and so is what a simulation request says (u32 and u64).
ASSUME TopologiesAreFinite == \A t \in Topologies : IsFiniteSet(t.nodes)
ASSUME BaseIsTopology == DOMAIN BaseTopology = {"id", "space", "nodes", "edges", "pols"}
ASSUME LimitsAreCounts ==
    \A p \in ExpansionPolicies : p.nodes \in Nat /\ p.iterations \in Nat
ASSUME RoundsAreSequences ==
    \A r \in Rounds : /\ r.candidates \in Seq(Range(r.candidates))
                      /\ \A c \in Range(r.candidates) : IsFiniteSet(c.patch.addN)
ASSUME SimulationsAreCounts ==
    \A req \in SimulationRequests :
        /\ IsFiniteSet(req.topology.nodes) /\ IsFiniteSet(req.topology.edges)
        /\ \A n \in req.topology.nodes : n.dur # None => n.dur \in Nat
        /\ req.iterations \in Nat /\ req.parallel \in Nat /\ req.penalty \in Nat
        /\ \A key \in DOMAIN req.capacity : req.capacity[key] \in Nat
        /\ \A p \in DOMAIN req.bounds : IsRange(req.bounds[p])
        /\ \A c \in req.calib : \A m \in Metrics : IsRange(c.m[m])

VARIABLES
    log,       \* the morphism log of the case
    claims,    \* claim -> what its cell records, None before it exists
    bundles,   \* the deployment bundles in the artifact directory
    ctl,       \* the expansion controller, or None
    redesign,  \* a redesign proposal and its disposition log, or None
    reply      \* what the last call handed out

vars == <<log, claims, bundles, ctl, redesign, reply>>

Revision == Len(log)
Reply(op, value) == [op |-> op, value |-> value]
NoReply == Reply("none", None)

\* Bounds: a controller runs its rounds before the first morphism; a redesign
\* and a simulation are explored apart, and so are bundles and a controller,
\* beside which the log is one entry shorter.  The log stops at a proposal
\* bundle, which may still meet every log that was there before it.
\* None of these reads the others' state.
Designing == Revision = 0 /\ bundles = {}
Compiling == ctl = None /\ redesign = None
Room == Compiling /\ Cardinality(bundles) < MaxBundles
Growing ==
    /\ redesign = None
    /\ \A b \in bundles : b.manifest.review # None
    /\ IF ctl = None THEN Revision < MaxLog
       ELSE ctl.attempt = None /\ Revision < MaxLog - 1

Init ==
    /\ log = <<>>
    /\ claims = [c \in Claims |-> None]
    /\ bundles = {}
    /\ ctl = None
    /\ redesign = None
    /\ reply = NoReply

-----------------------------------------------------------------------------
(* Dynamic expansion *)

\* validate_expansion_policy
ExpansionPolicyFindings(p) ==
    Codes([missing_dedupe_key |-> p.key = {} \/ Blank \in p.key,
           missing_limit |-> 0 \in {p.dry, p.iterations, p.nodes, p.cost, p.latency}])

\* ExpansionController::new
NewController(policy) ==
    /\ Designing /\ ctl = None /\ redesign = None
    /\ ExpansionPolicyFindings(policy) = {}
    /\ ctl' = [policy |-> policy, base |-> BaseTopology, attempt |-> None, seen |-> {},
               iteration |-> 0, dry |-> 0, spawned |-> 0, cost |-> 0, latency |-> 0,
               proposals |-> {}]
    /\ reply' = NoReply
    /\ UNCHANGED <<log, claims, bundles, redesign>>

\* begin_attempt: the topology of the attempt is the controller's, and another
\* active attempt is not displaced
BeginAttempt(a, t) ==
    /\ Designing /\ ctl # None
    /\ t = ctl.base /\ a # Blank /\ ctl.attempt \in {None, a}
    /\ ctl' = [ctl EXCEPT !.attempt = a]
    /\ reply' = NoReply
    /\ UNCHANGED <<log, claims, bundles, redesign>>

\* finish_attempt
FinishAttempt(a) ==
    /\ Designing /\ ctl # None
    /\ ctl.attempt = a
    /\ ctl' = [ctl EXCEPT !.attempt = None]
    /\ reply' = NoReply
    /\ UNCHANGED <<log, claims, bundles, redesign>>

\* fingerprint: the values of the policy's dedupe key, None when one is missing
Fingerprint(policy, c) ==
    IF c.schema # policy.schema \/ \E k \in policy.key : c.values[k] = Blank THEN None
    ELSE [k \in policy.key |-> c.values[k]]

AddedNodes(c, patch) == Cardinality(PatchDiff(c.base, Patched(c.base, patch)).nodes.added)

\* Variant: the whole allowance is left, whatever was spawned before
FitsAllowanceAlone(c, patch) == AddedNodes(c, patch) <= c.policy.nodes
\* The nodes a patch really adds fit what is left of max_spawned_nodes
FitsAllowance(c, patch) == AddedNodes(c, patch) <= c.policy.nodes - c.spawned

\* One candidate of a round, on the controller as the candidates before it left
\* it.  A fingerprint is seen once whatever becomes of its candidate.
ProcessCandidate(acc, c) ==
    LET ctrl == acc.ctl
        fp == Fingerprint(ctrl.policy, c)
        seen == [ctrl EXCEPT !.seen = @ \cup {fp}]
        fresh == [acc EXCEPT !.ctl = seen, !.unseen = @ + 1]
        proposes == /\ c.ask = "accept"
                    /\ ApplyPatch(ctrl.base, c.patch) # None
                    /\ FitsAllowance(ctrl, c.patch)
                    /\ c.patch \notin ctrl.proposals
    IN  CASE fp = None -> acc
          [] fp # None /\ fp \in ctrl.seen -> acc
          [] fp # None /\ fp \notin ctrl.seen /\ (acc.exhausted \/ ~proposes) -> fresh
          [] OTHER -> [fresh EXCEPT !.ctl.proposals = @ \cup {c.patch},
                                    !.ctl.spawned = @ + AddedNodes(ctrl, c.patch),
                                    !.created = @ + 1]

\* The loop over a round's candidates: AfterCandidates(..)[k] is after the first k.
AfterCandidates(start, candidates) ==
    LET after[k \in 0..Len(candidates)] ==
            IF k = 0 THEN start ELSE ProcessCandidate(after[k - 1], candidates[k])
    IN  after

\* The halt that a round reports, in the order the code looks for it
Halt(c, created) ==
    CASE c.cost >= c.policy.cost -> "max_cost"
      [] c.cost < c.policy.cost /\ c.latency >= c.policy.latency -> "max_latency"
      [] OTHER ->
         CASE c.spawned >= c.policy.nodes -> "max_spawned_nodes"
           [] c.spawned < c.policy.nodes /\ c.iteration >= c.policy.iterations -> "max_iterations"
           [] OTHER -> IF c.dry >= c.policy.dry THEN "dry"
                       ELSE IF created > 0 THEN "needs_review" ELSE "continue"

\* process_round: no round after the last iteration
ProcessRound(a, round) ==
    /\ Designing /\ ctl # None
    /\ ctl.attempt = a
    /\ \/ /\ ctl.iteration >= ctl.policy.iterations
          /\ reply' = Reply("round", "max_iterations")
          /\ UNCHANGED ctl
       \/ /\ ctl.iteration < ctl.policy.iterations
          /\ ctl.iteration < MaxRounds
          /\ LET begun == [ctl EXCEPT !.iteration = @ + 1, !.cost = @ + round.cost,
                                      !.latency = @ + round.latency]
                 start == [ctl |-> begun, unseen |-> 0, created |-> 0,
                           exhausted |-> \/ begun.cost >= begun.policy.cost
                                         \/ begun.latency >= begun.policy.latency]
                 out == AfterCandidates(start, round.candidates)[Len(round.candidates)]
             IN  /\ ctl' = [out.ctl EXCEPT !.dry = IF out.unseen = 0 THEN @ + 1 ELSE 0]
                 /\ reply' = Reply("round", Halt(ctl', out.created))
    /\ UNCHANGED <<log, claims, bundles, redesign>>

\* Variant: any topology under the proposal's id is taken
ReviewAcceptedUnmatched(c, patch, t, binding) ==
    /\ patch \in c.proposals
    /\ binding.proposal = patch /\ binding.topology = t
    /\ t.id = c.base.id /\ t.space = c.base.space
    /\ LintErrors(t) = {}
    /\ t # c.base
\* review_accepted: the reviewed topology is the proposal's patch applied to the
\* controller's base, lints clean and is not the base
ReviewAccepted(c, patch, t, binding) ==
    /\ patch \in c.proposals
    /\ binding.proposal = patch /\ binding.topology = t
    /\ t.id = c.base.id /\ t.space = c.base.space
    /\ t = Patched(c.base, patch)
    /\ LintErrors(t) = {}
    /\ t # c.base

\* accepted_expansion_review_binding, then review_accepted.  A transition is
\* reported; neither the controller nor the case changes.
AcceptExpansion(claim, patch, t) ==
    LET mode == ReviewedCompilationMode(log, claim)
    IN  /\ ctl # None
        /\ mode # None
        /\ mode.topology = t /\ mode.proposal = patch
        /\ ReviewAccepted(ctl, patch, t, mode)
        /\ reply' = Reply("transition", [patch |-> patch, topology |-> t,
                                         review |-> mode.review])
        /\ UNCHANGED <<log, claims, bundles, ctl, redesign>>

-----------------------------------------------------------------------------
(* Redesign proposals and simulation *)

\* propose_redesign and RedesignDispositionLog::new
ProposeRedesign(old, new, input) ==
    /\ Designing /\ ctl = None
    /\ RedesignFindings(old, new, input) = {}
    /\ redesign' = [proposal |-> [changes |-> VersionDiff(old, new), input |-> input],
                    entries |-> <<"proposed">>]
    /\ reply' = NoReply
    /\ UNCHANGED <<log, claims, bundles, ctl>>

\* validate_disposition: the proposed entry is the log's genesis only, every
\* other one is complete
ValidDisposition(d) ==
    d.kind \in {"rejected", "superseded", "accepted_binding"} /\ None \notin d.fields

\* RedesignDispositionLog::append: one terminal disposition, and an acceptance
\* under the authority the proposal requires
DisposeRedesign(d) ==
    /\ Designing /\ ctl = None /\ redesign # None
    /\ Len(redesign.entries) = 1
    /\ ValidDisposition(d)
    /\ d.kind = "accepted_binding" => redesign.proposal.input.authority \in d.fields
    /\ redesign' = [redesign EXCEPT !.entries = Append(@, d.kind)]
    /\ reply' = NoReply
    /\ UNCHANGED <<log, claims, bundles, ctl>>

\* simulate_execution_topology: the sampled values and the order of the node
\* array are any that the request allows
SimulateExecutionTopology(t, req) ==
    /\ Designing /\ Compiling /\ reply = NoReply
    /\ SimulationFindings(t, req) = {}
    /\ \E samples \in [1..req.iterations -> IterationSamples(t, req)],
          order \in SetToSeqs(Ids(t.nodes)) :
          reply' = Reply("simulation",
                         [request |-> req, samples |-> samples,
                          report |-> SimulationReport(t, req, order, samples)])
    /\ UNCHANGED <<log, claims, bundles, ctl, redesign>>

-----------------------------------------------------------------------------
(* The case: claims, reviews and everything else that appends *)

RecordTopologyClaim(claim, record) ==
    /\ Growing /\ claims[claim] = None
    /\ claims' = [claims EXCEPT ![claim] = record]
    /\ log' = Append(log, [kind |-> "claim"])
    /\ reply' = NoReply
    /\ UNCHANGED <<bundles, ctl, redesign>>

OtherMorphism ==
    /\ Growing
    /\ log' = Append(log, [kind |-> "other"])
    /\ reply' = NoReply
    /\ UNCHANGED <<claims, bundles, ctl, redesign>>

\* require_execution_topology_review_target: the topology and the manifest the
\* reviewer supplies are those of the claim, joined to its artifact; lint errors
\* block an acceptance only.
ReviewTargetFindings(claim, t, manifest, action) ==
    LET record == claims[claim]
    IN  IF record = None THEN {"unknown_claim"}
        ELSE Codes([case_space_mismatch |-> t.space # CaseSpace,
                    graph_lint |-> action = "accept" /\ LintErrors(t) # {},
                    policy_manifest |-> ManifestFindings(t, manifest) # {},
                    claim_mismatch |-> record.topology # t \/ record.manifest # manifest,
                    not_joined |-> ~record.joined])

\* topology_review_apply, by a release that reviews for the compiler profile
\* `build': the reviewer has seen the current revision, and the proposal is the
\* claim's.
ReviewTopology(claim, t, manifest, action, observed, build) ==
    /\ Growing /\ observed = Revision
    /\ ReviewTargetFindings(claim, t, manifest, action) = {}
    /\ log' = Append(log, [kind |-> "topology_review", claim |-> claim, action |-> action,
                           topology |-> t, manifest |-> manifest,
                           proposal |-> claims[claim].proposal, profile |-> build])
    /\ reply' = NoReply
    /\ UNCHANGED <<claims, bundles, ctl, redesign>>

-----------------------------------------------------------------------------
(* Compilation and deployment *)

PersistBundle(b) ==
    /\ b # None
    /\ bundles' = bundles \cup {b}
    /\ reply' = NoReply
    /\ UNCHANGED <<log, claims, ctl, redesign>>

Request(mode, base, docs, maps) ==
    [mode |-> mode, space |-> CaseSpace, base |-> base, plan |-> "plan",
     maps |-> maps, docs |-> docs]

\* CompileDeploymentBundle: proposal mode at whatever revision the client names
CompileDeploymentBundle(t, docs, maps, base, build) ==
    /\ Room
    /\ PersistBundle(Compile(t, Request(None, base, docs, maps), build))

\* CompileReviewedDeploymentBundle: at the current revision, which has to be the
\* one the accepted review made
CompileReviewedDeploymentBundle(claim, t, docs, maps, expected, build) ==
    LET mode == ReviewedCompilationMode(log, claim)
    IN  /\ Room /\ expected = Revision
        /\ mode # None
        /\ PersistBundle(Compile(t, Request(mode, expected, docs, maps), build))

\* The files of a reviewed bundle edited and its hashes recomputed: an artifact
\* that is not the compiler's, or a binding that the log does not hold
Rewritten(b) ==
    {[b EXCEPT !.artifacts.edges = {}]}
    \cup {[b EXCEPT !.artifacts.policies = docs] : docs \in Documents}
    \cup {Compile(t, [b.inputs.request EXCEPT
                         !.base = Revision,
                         !.mode = [claim |-> c, review |-> Revision, topology |-> t,
                                   manifest |-> b.manifest.policies, space |-> CaseSpace,
                                   base |-> Revision, proposal |-> None,
                                   profile |-> CurrentProfile]],
                  CurrentProfile) : t \in Topologies, c \in Claims}

\* Whoever can write the artifact directory replaces a bundle.
RewriteBundle(b) ==
    /\ b.manifest.review # None
    /\ \E forged \in Rewritten(b) :
          forged # None /\ bundles' = (bundles \ {b}) \cup {forged}
    /\ reply' = NoReply
    /\ UNCHANGED <<log, claims, ctl, redesign>>

\* verify_deployment_bundle, then reviewed_deployment_authority on the case as
\* it is now
Authorise(claim, b) ==
    /\ Verified(b)
    /\ ReviewedDeploymentAuthority(log, claim, b) # None
    /\ reply' = Reply("authority", ReviewedDeploymentAuthority(log, claim, b))
    /\ UNCHANGED <<log, claims, bundles, ctl, redesign>>

ProposeMigration(b) ==
    /\ MigrationProposal(b) # None
    /\ reply' = Reply("migration", MigrationProposal(b))
    /\ UNCHANGED <<log, claims, bundles, ctl, redesign>>

-----------------------------------------------------------------------------
Expansion ==
    \/ \E p \in ExpansionPolicies : NewController(p)
    \/ \E a \in {"one", "two"} : BeginAttempt(a, BaseTopology) \/ FinishAttempt(a)
    \/ \E a \in {"one", "two"}, r \in Rounds : ProcessRound(a, r)
ExpansionReview ==
    \E c \in Claims, t \in Topologies :
        \E p \in (IF ctl = None THEN {} ELSE ctl.proposals) : AcceptExpansion(c, p, t)
Redesign ==
    \/ \E old, new \in Topologies, i \in RedesignInputs : ProposeRedesign(old, new, i)
    \/ \E d \in Dispositions : DisposeRedesign(d)
Simulation ==
    \E req \in SimulationRequests : SimulateExecutionTopology(req.topology, req)
Review ==
    \E c \in Claims, t \in Topologies, docs \in Documents, b \in Profiles,
       action \in {"accept", "reject", "reopen"} :
        ReviewTopology(c, t, DeploymentPolicyManifest(t, docs), action, Revision, b)
Recording ==
    OtherMorphism \/ \E c \in Claims, r \in ClaimRecords : RecordTopologyClaim(c, r)
ProposalCompilation ==
    \E t \in Topologies, docs \in Documents, maps \in Mappings, b \in Profiles :
        CompileDeploymentBundle(t, docs, maps, Revision, b)
ReviewedCompilation ==
    \E c \in Claims, t \in Topologies, docs \in Documents, maps \in Mappings, b \in Profiles :
        CompileReviewedDeploymentBundle(c, t, docs, maps, Revision, b)
Rewriting == \E b \in bundles : RewriteBundle(b)
Authorisation == \E c \in Claims, b \in bundles : Authorise(c, b)
Migration == \E b \in bundles : ProposeMigration(b)

Next ==
    \/ Expansion
    \/ ExpansionReview
    \/ Redesign
    \/ Simulation
    \/ Review
    \/ Recording
    \/ ProposalCompilation
    \/ ReviewedCompilation
    \/ Rewriting
    \/ Authorisation
    \/ Migration

Spec == Init /\ [][Next]_vars

-----------------------------------------------------------------------------
(* Properties *)

\* An authority is only granted under the claim's standing review, an acceptance
\* after which nothing was decided, and what it lets run is the lowering of the
\* topology, under the policy documents and by the compiler profile that the
\* reviewer accepted, whatever was done to the bundle's files in between
\* (verify_deployment_bundle with reviewed_deployment_authority).
AuthorityIsReviewed ==
    reply.op = "authority" =>
        LET b == reply.value.bundle
            r == log[reply.value.review]
        IN  /\ IsReviewOf(r, reply.value.claim) /\ r.action = "accept"
            /\ \A i \in reply.value.review + 1 .. Revision :
                  ~IsReviewOf(log[i], reply.value.claim)
            /\ b.artifacts.nodes = {[id |-> n.id, class |-> n.class,
                                     delivery |-> n.delivery, pol |-> n.pol] :
                                       n \in r.topology.nodes}
            /\ b.artifacts.edges = r.topology.edges
            /\ b.artifacts.resources = {[id |-> n.id, claims |-> n.claims] :
                                            n \in r.topology.nodes}
            /\ b.artifacts.policies = r.manifest.bindings
            /\ b.artifacts.plan.base = reply.value.review
            /\ b.manifest.profile = r.profile

\* Two nodes may run at once when some set of finished nodes, closed under
\* predecessors, lets both of them start.
MayRunTogether(ids, edges, x, y) ==
    \E done \in SUBSET (ids \ {x, y}) :
        \A n \in done \cup {x, y} : {e.from : e \in {f \in edges : f.to = n}} \subseteq done

\* A deployment that was given authority never runs two nodes at once that claim
\* one resource in conflicting modes (outside isolated worktrees): the linter's
\* search for paths (resource_conflicts) stands for all schedules of the bundle.
AuthorisedRunsDoNotCollide ==
    reply.op = "authority" =>
        LET a == reply.value.bundle.artifacts
        IN  \A x, y \in a.resources :
               /\ x.id # y.id
               /\ \E l \in x.claims, r \in y.claims :
                     ClaimsConflict(l, r) /\ ~IsolatedFile(l, r)
               => ~MayRunTogether(Ids(a.nodes), a.edges, x.id, y.id)

\* The nodes that proposals add, each counted once for every proposal it is in
Additions(proposals) == UNION {{p} \X p.addN : p \in proposals}

\* However candidates, duplicates and rounds are spread, the proposals of one
\* controller together add no more nodes than the policy allows, the count it
\* reports is the nodes they really add, and each is a valid topology over its
\* base (process_round).
ExpansionStaysWithinPolicy ==
    ctl # None =>
        LET added == Cardinality(Additions(ctl.proposals))
        IN  /\ ctl.spawned = added /\ added <= ctl.policy.nodes
            /\ ctl.iteration <= ctl.policy.iterations
            /\ Cardinality(ctl.proposals) <= Cardinality(ctl.seen)
            /\ \A p \in ctl.proposals : ApplyPatch(ctl.base, p) # None

\* A topology transition is reported only for the exact result of a proposed
\* patch, under the standing acceptance of a claim that names this proposal, and
\* the result has no lint error (accepted_expansion_review_binding with
\* review_accepted).
TransitionsAreExact ==
    reply.op = "transition" =>
        LET v == reply.value
            r == log[v.review]
        IN  /\ v.patch \in ctl.proposals
            /\ v.topology = ApplyPatch(BaseTopology, v.patch)
            /\ r.action = "accept" /\ r.topology = v.topology /\ r.proposal = v.patch
            /\ LintErrors(v.topology) = {}

\* The nodes of which each two are joined by a path, and those of which none are
Chains(t) ==
    {S \in SUBSET Ids(t.nodes) : \A x, y \in S :
        x = y \/ Reaches(t, x, y, Joined(t)) \/ Reaches(t, y, x, Joined(t))}
Antichains(t) ==
    {S \in SUBSET Ids(t.nodes) : \A x, y \in S :
        x = y \/ ~(Reaches(t, x, y, Joined(t)) \/ Reaches(t, y, x, Joined(t)))}

\* What a node takes: its sampled latency and the penalty for each of its inputs
CostOf(t, req, sampled) ==
    [id \in Ids(t.nodes) |-> sampled[id].m["latency"] + req.penalty * Cardinality(InEdges(t, id))]
SumOver(cost, S) == MapThenSumSet(LAMBDA id : cost[id], S)

\* A simulated run finishes every node no sooner than its longest chain and no
\* later than all nodes one after the other, and never has more nodes active
\* than the request allows or than any schedule could: the event loop of
\* SimulationGraph::simulate ends without its `always makes progress' panic.
SimulationFitsTheGraph ==
    reply.op = "simulation" =>
        LET v == reply.value
            t == v.report.topology
            cost(i) == CostOf(t, v.request, v.samples[i])
            chain(i) == Max({SumOver(cost(i), S) : S \in Chains(t)})
            all(i) == SumOver(cost(i), Ids(t.nodes))
            N == DOMAIN v.samples
        IN  /\ v.report.summary["latency"] # None =>
                 /\ v.report.summary["latency"].maximum >= Max({chain(i) : i \in N})
                 /\ v.report.summary["latency"].minimum >= Min({chain(i) : i \in N})
                 /\ v.report.summary["latency"].maximum <= Max({all(i) : i \in N})
            /\ v.report.parallelism <= v.request.parallel
            /\ v.report.parallelism <= Max({Cardinality(S) : S \in Antichains(t)})
=============================================================================
