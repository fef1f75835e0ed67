----------------------- MODULE GraphDeployment_proofs -----------------------
(***************************************************************************)
(* Proofs about GraphDeployment for any topologies, documents, claims and  *)
(* bounds.                                                                 *)
(***************************************************************************)
EXTENDS GraphDeployment, TLAPS, FiniteSetTheorems, WellFoundedInduction

\* The entries that the log of the case may hold
LogEntry ==
    [kind : {"claim", "other"}]
    \cup [kind : {"topology_review"}, claim : Claims, action : {"accept", "reject", "reopen"},
          topology : Topologies,
          manifest : {DeploymentPolicyManifest(t, docs) : t \in Topologies, docs \in Documents},
          proposal : {r.proposal : r \in ClaimRecords}, profile : Profiles]

\* The inductive invariant behind AuthorityIsReviewed
DeploymentInv ==
    /\ log \in Seq(LogEntry)
    /\ claims \in [Claims -> ClaimRecords \cup {None}]
    /\ None \notin bundles
    /\ AuthorityIsReviewed

\* A set of positions that is not empty has a last one.
LEMMA LastPosition ==
  ASSUME NEW n \in Nat, NEW S, S \subseteq 0 .. n, S # {}
  PROVE  /\ Max(S) \in S
         /\ \A i \in S : i <= Max(S)
<1> DEFINE T == {k \in 0 .. n : n - k \in S}
<1>1. T \subseteq Nat /\ T # {}
  <2> PICK i \in S : TRUE
    OBVIOUS
  <2>1. n - i \in 0 .. n /\ n - (n - i) = i
    OBVIOUS
  <2>2. n - i \in T
    BY <2>1
  <2>3. T \subseteq Nat
    OBVIOUS
  <2> HIDE DEF T
  <2> QED BY <2>2, <2>3
<1>2. PICK m \in T : \A k \in T : ~(<<k, m>> \in OpToRel(<, Nat))
  <2> HIDE DEF T
  <2> QED BY <1>1, NatLessThanWellFounded, WFMin
<1>3. \A j \in S : j <= n - m
  <2> TAKE j \in S
  <2>1. n - j \in 0 .. n /\ n - (n - j) = j
    OBVIOUS
  <2>2. n - j \in T
    BY <2>1
  <2>3. ~(n - j < m)
    BY <1>1, <1>2, <2>1, <2>2 DEF OpToRel
  <2> QED BY <2>1, <2>3
<1>4. n - m \in S
  OBVIOUS
<1>5. \E x \in S : \A y \in S : x >= y
  BY <1>3, <1>4
<1> QED BY <1>5 DEF Max

\* reviewed_compilation_mode binds the latest review of a claim, an acceptance.
LEMMA ModeIsStandingAcceptance ==
  ASSUME log \in Seq(LogEntry), NEW c, ReviewedCompilationMode(log, c) # None
  PROVE  LET mode == ReviewedCompilationMode(log, c)
             r == log[mode.review]
         IN  /\ mode.review \in 1 .. Len(log) /\ mode.base = mode.review
             /\ IsReviewOf(r, c) /\ r.action = "accept"
             /\ \A i \in mode.review + 1 .. Len(log) : ~IsReviewOf(log[i], c)
             /\ mode.topology = r.topology /\ mode.manifest = r.manifest
             /\ mode.proposal = r.proposal /\ mode.profile = r.profile
<1> DEFINE S == ReviewsOf(log, c)
           i == Max(S)
<1>1. Len(log) \in Nat /\ S \subseteq 1 .. Len(log)
  BY DEF ReviewsOf
<1>2. S # {} /\ log[i].action = "accept"
  BY DEF ReviewedCompilationMode
<1>3. i \in S /\ \A j \in S : j <= i
  <2> HIDE DEF S
  <2> QED BY <1>1, <1>2, LastPosition
<1>4. ReviewedCompilationMode(log, c)
        = [claim |-> c, review |-> i, topology |-> log[i].topology,
           manifest |-> log[i].manifest, space |-> log[i].topology.space, base |-> i,
           proposal |-> log[i].proposal, profile |-> log[i].profile]
  BY <1>2 DEF ReviewedCompilationMode
<1>5. IsReviewOf(log[i], c)
  BY <1>3 DEF ReviewsOf
<1>6. \A j \in i + 1 .. Len(log) : ~IsReviewOf(log[j], c)
  <2> SUFFICES ASSUME NEW j \in i + 1 .. Len(log), IsReviewOf(log[j], c) PROVE FALSE
    OBVIOUS
  <2>1. j \in S
    BY <1>1, <1>3 DEF ReviewsOf
  <2> QED BY <1>1, <1>3, <2>1
<1> HIDE DEF i, S
<1> QED BY <1>1, <1>2, <1>3, <1>4, <1>5, <1>6

\* A verified bundle is what its retained inputs compile to.
LEMMA VerifiedIsCompiled ==
  ASSUME NEW b, b # None, Verified(b)
  PROVE  \E req :
            /\ b.artifacts = Artifacts(b.topology, req)
            /\ b.manifest = Manifest(b.topology, req, b.inputs.profile)
<1> DEFINE req == RetainedRequest(b)
<1>1. b = Compile(b.topology, req, b.inputs.profile)
  BY DEF Verified, BundlesMatch
<1> PICK t, q, pr : t = b.topology /\ q = req /\ pr = b.inputs.profile
  OBVIOUS
<1>2. b = Compile(t, q, pr)
  BY <1>1
<1>3. b = [topology |-> t, inputs |-> [profile |-> pr, request |-> q],
           artifacts |-> Artifacts(t, q), manifest |-> Manifest(t, q, pr)]
  BY <1>2 DEF Compile
<1>4. b.artifacts = Artifacts(t, q) /\ b.manifest = Manifest(t, q, pr)
  BY <1>3
<1> QED BY <1>4

\* What the manifest of a compiled bundle says of its artifacts
LEMMA ArtifactsFollowManifest ==
  ASSUME NEW t, NEW req, NEW profile
  PROVE  LET a == Artifacts(t, req)
             m == Manifest(t, req, profile)
         IN  /\ m.topology = t /\ m.base = a.plan.base /\ m.policies.bindings = a.policies
             /\ a.nodes = {[id |-> n.id, class |-> n.class, delivery |-> n.delivery,
                            pol |-> n.pol] : n \in t.nodes}
             /\ a.edges = t.edges
             /\ a.resources = {[id |-> n.id, claims |-> n.claims] : n \in t.nodes}
BY DEF Artifacts, Manifest, ExecutionPlan, DeploymentPolicyManifest

\* An authority is granted for what the standing acceptance of the claim names.
LEMMA AuthoriseIsReviewed ==
  ASSUME DeploymentInv, NEW c, NEW b \in bundles, Authorise(c, b)
  PROVE  AuthorityIsReviewed'
<1>1. /\ Verified(b) /\ ReviewedDeploymentAuthority(log, c, b) # None /\ b # None
      /\ reply' = Reply("authority", ReviewedDeploymentAuthority(log, c, b))
      /\ log' = log
  BY DEF Authorise, DeploymentInv
<1> DEFINE mode == ReviewedCompilationMode(log, c)
           r == log[mode.review]
<1>2. /\ mode # None
      /\ b.manifest.profile = mode.profile /\ b.manifest.base = mode.base
      /\ b.manifest.topology = mode.topology /\ b.manifest.policies = mode.manifest
      /\ ReviewedDeploymentAuthority(log, c, b)
            = [claim |-> c, review |-> mode.review, bundle |-> b]
  BY <1>1 DEF ReviewedDeploymentAuthority
<1>3. /\ IsReviewOf(r, c) /\ r.action = "accept" /\ mode.base = mode.review
      /\ \A i \in mode.review + 1 .. Len(log) : ~IsReviewOf(log[i], c)
      /\ mode.topology = r.topology /\ mode.manifest = r.manifest /\ mode.profile = r.profile
  BY <1>2, ModeIsStandingAcceptance DEF DeploymentInv
<1>4. PICK req : /\ b.artifacts = Artifacts(b.topology, req)
                 /\ b.manifest = Manifest(b.topology, req, b.inputs.profile)
  BY <1>1, VerifiedIsCompiled
<1>5. /\ b.manifest.topology = b.topology /\ b.manifest.base = b.artifacts.plan.base
      /\ b.manifest.policies.bindings = b.artifacts.policies
      /\ b.artifacts.nodes = {[id |-> n.id, class |-> n.class, delivery |-> n.delivery,
                               pol |-> n.pol] : n \in b.topology.nodes}
      /\ b.artifacts.edges = b.topology.edges
      /\ b.artifacts.resources = {[id |-> n.id, claims |-> n.claims] : n \in b.topology.nodes}
  BY <1>4, ArtifactsFollowManifest
<1>6. reply'.value.claim = c /\ reply'.value.review = mode.review /\ reply'.value.bundle = b
  BY <1>1, <1>2 DEF Reply
<1> HIDE DEF mode
<1>7. b.topology = r.topology
  BY <1>2, <1>3, <1>5
<1>8. /\ b.artifacts.nodes = {[id |-> n.id, class |-> n.class, delivery |-> n.delivery,
                               pol |-> n.pol] : n \in r.topology.nodes}
      /\ b.artifacts.edges = r.topology.edges
      /\ b.artifacts.resources = {[id |-> n.id, claims |-> n.claims] : n \in r.topology.nodes}
  BY <1>5, <1>7
<1>9. /\ b.artifacts.policies = r.manifest.bindings
      /\ b.artifacts.plan.base = mode.review
      /\ b.manifest.profile = r.profile
  BY <1>2, <1>3, <1>5
<1>10. log'[reply'.value.review] = r /\ Revision' = Len(log)
  BY <1>1, <1>6 DEF Revision
<1> HIDE DEF r
<1> QED BY <1>1, <1>3, <1>6, <1>8, <1>9, <1>10 DEF AuthorityIsReviewed

\* Every other step hands out something else.
LEMMA OtherReplies ==
  ASSUME NEW v, NEW o \in {"none", "round", "transition", "simulation", "migration"},
         reply' = Reply(o, v)
  PROVE  AuthorityIsReviewed'
BY DEF AuthorityIsReviewed, Reply

\* The files of a bundle may be rewritten, but a bundle stays one.
LEMMA BundlesStayBundles ==
  ASSUME DeploymentInv, ProposalCompilation \/ ReviewedCompilation \/ Rewriting
  PROVE  DeploymentInv'
<1>1. CASE ProposalCompilation \/ ReviewedCompilation
  <2>1. PICK b : PersistBundle(b)
    BY <1>1 DEF ProposalCompilation, ReviewedCompilation, CompileDeploymentBundle,
                CompileReviewedDeploymentBundle
  <2>2. /\ bundles' = bundles \cup {b} /\ b # None /\ reply' = Reply("none", None)
        /\ UNCHANGED <<log, claims>>
    BY <2>1 DEF PersistBundle, NoReply
  <2> QED BY <2>2, OtherReplies DEF DeploymentInv
<1>2. CASE Rewriting
  <2>1. PICK b \in bundles : RewriteBundle(b)
    BY <1>2 DEF Rewriting
  <2>2. PICK forged : forged # None /\ bundles' = (bundles \ {b}) \cup {forged}
    BY <2>1 DEF RewriteBundle
  <2>3. reply' = Reply("none", None) /\ UNCHANGED <<log, claims>>
    BY <2>1 DEF RewriteBundle, NoReply
  <2> QED BY <2>2, <2>3, OtherReplies DEF DeploymentInv
<1> QED BY <1>1, <1>2

\* A claim or a review is appended with the fields of its kind.
LEMMA TheCaseGrows ==
  ASSUME DeploymentInv, Recording \/ Review
  PROVE  DeploymentInv'
<1>1. CASE Recording
  <2>1. /\ \E e \in {[kind |-> "claim"], [kind |-> "other"]} : log' = Append(log, e)
        /\ \/ claims' = claims
           \/ \E c \in Claims, r \in ClaimRecords : claims' = [claims EXCEPT ![c] = r]
        /\ reply' = Reply("none", None) /\ UNCHANGED bundles
    BY <1>1 DEF Recording, OtherMorphism, RecordTopologyClaim, NoReply
  <2>2. \A e \in {[kind |-> "claim"], [kind |-> "other"]} : e \in LogEntry
    BY DEF LogEntry
  <2>3. log' \in Seq(LogEntry)
    BY <2>1, <2>2 DEF DeploymentInv
  <2>4. claims' \in [Claims -> ClaimRecords \cup {None}]
    BY <2>1 DEF DeploymentInv
  <2> QED BY <2>1, <2>3, <2>4, OtherReplies DEF DeploymentInv
<1>2. CASE Review
  <2>1. PICK c \in Claims, t \in Topologies, docs \in Documents, build \in Profiles,
             action \in {"accept", "reject", "reopen"} :
            ReviewTopology(c, t, DeploymentPolicyManifest(t, docs), action, Revision, build)
    BY <1>2 DEF Review
  <2> PICK m : m = DeploymentPolicyManifest(t, docs)
    OBVIOUS
  <2>2. /\ claims[c] # None
        /\ log' = Append(log, [kind |-> "topology_review", claim |-> c, action |-> action,
                               topology |-> t, manifest |-> m,
                               proposal |-> claims[c].proposal, profile |-> build])
        /\ reply' = Reply("none", None) /\ UNCHANGED <<claims, bundles>>
    BY <2>1 DEF ReviewTopology, ReviewTargetFindings, NoReply
  <2>3. claims[c] \in ClaimRecords
    BY <2>2 DEF DeploymentInv
  <2>4. [kind |-> "topology_review", claim |-> c, action |-> action, topology |-> t,
         manifest |-> m, proposal |-> claims[c].proposal, profile |-> build] \in LogEntry
    BY <2>3 DEF LogEntry
  <2>5. log' \in Seq(LogEntry)
    BY <2>2, <2>4 DEF DeploymentInv
  <2> QED BY <2>2, <2>5, OtherReplies DEF DeploymentInv
<1> QED BY <1>1, <1>2

\* Expansion, redesign, simulation and migration leave the case and its bundles
\* alone.
LEMMA DesignStepsAreQuiet ==
  ASSUME DeploymentInv, Expansion \/ ExpansionReview \/ Redesign \/ Simulation \/ Migration
  PROVE  DeploymentInv'
<1>1. UNCHANGED <<log, claims, bundles>>
  <2>1. CASE Expansion
    BY <2>1 DEF Expansion, NewController, BeginAttempt, FinishAttempt, ProcessRound
  <2>2. CASE ExpansionReview \/ Migration
    BY <2>2 DEF ExpansionReview, AcceptExpansion, Migration, ProposeMigration
  <2>3. CASE Redesign \/ Simulation
    BY <2>3 DEF Redesign, ProposeRedesign, DisposeRedesign, Simulation, SimulateExecutionTopology
  <2> QED BY <2>1, <2>2, <2>3
<1>2. \E o \in {"none", "round", "transition", "simulation", "migration"} : \E v : reply' = Reply(o, v)
  <2>1. CASE Expansion
    BY <2>1 DEF Expansion, NewController, BeginAttempt, FinishAttempt, ProcessRound, NoReply
  <2>2. CASE ExpansionReview
    BY <2>2 DEF ExpansionReview, AcceptExpansion
  <2>3. CASE Redesign
    BY <2>3 DEF Redesign, ProposeRedesign, DisposeRedesign, NoReply
  <2>4. CASE Simulation
    BY <2>4 DEF Simulation, SimulateExecutionTopology
  <2>5. CASE Migration
    BY <2>5 DEF Migration, ProposeMigration
  <2> QED BY <2>1, <2>2, <2>3, <2>4, <2>5
<1> QED BY <1>1, <1>2, OtherReplies DEF DeploymentInv

\* A fresh case holds the invariant.
LEMMA DeploymentInit == Init => DeploymentInv
BY DEF Init, DeploymentInv, AuthorityIsReviewed, NoReply, Reply

\* Every step, stuttering included, keeps it.
LEMMA DeploymentNext ==
  ASSUME DeploymentInv, [Next]_vars
  PROVE  DeploymentInv'
<1>1. CASE Authorisation
  <2>1. PICK c \in Claims, b \in bundles : Authorise(c, b)
    BY <1>1 DEF Authorisation
  <2>2. UNCHANGED <<log, claims, bundles>>
    BY <2>1 DEF Authorise
  <2> QED BY <2>1, <2>2, AuthoriseIsReviewed DEF DeploymentInv
<1>2. CASE UNCHANGED vars
  BY <1>2 DEF vars, DeploymentInv, AuthorityIsReviewed, Revision
<1> QED BY <1>1, <1>2, BundlesStayBundles, TheCaseGrows, DesignStepsAreQuiet DEF Next

\* Whatever is reviewed, reopened, recompiled, migrated or rewritten in between,
\* an authority is only granted under the standing acceptance of its claim and
\* for the lowering of what the reviewer accepted (verify_deployment_bundle with
\* reviewed_deployment_authority).
THEOREM AuthorityIsReviewedHolds == Spec => []AuthorityIsReviewed
<1>1. DeploymentInv => AuthorityIsReviewed
  BY DEF DeploymentInv
<1>2. DeploymentInv /\ [Next]_vars => DeploymentInv'
  BY DeploymentNext
<1> QED BY <1>1, <1>2, DeploymentInit, PTL DEF Spec

-----------------------------------------------------------------------------
(* The linter's search for paths, and what it says of schedules *)

\* One more level of the search
Level(S, edges) == S \cup {e.to : e \in {f \in edges : f.from \in S}}
IsSearch(f, n, from, edges) ==
    f = [k \in 0 .. n |-> IF k = 0 THEN {from} ELSE Level(f[k - 1], edges)]

\* The search is well defined for any number of levels.
LEMMA SeenExists ==
  ASSUME NEW n \in Nat, NEW from, NEW edges
  PROVE  \E f : IsSearch(f, n, from, edges)
<1> DEFINE P(m) == \E f : IsSearch(f, m, from, edges)
           T == {m \in Nat : ~P(m)}
<1>1. SUFFICES T = {}
  OBVIOUS
<1>2. SUFFICES ASSUME T # {} PROVE FALSE
  OBVIOUS
<1>3. PICK m \in T : \A k \in T : ~(<<k, m>> \in OpToRel(<, Nat))
  <2>1. T \subseteq Nat
    OBVIOUS
  <2> HIDE DEF T
  <2> QED BY <1>2, <2>1, NatLessThanWellFounded, WFMin
<1>4. m \in Nat /\ ~P(m)
  OBVIOUS
<1>5. CASE m = 0
  <2> DEFINE f == [k \in 0 .. 0 |-> {from}]
  <2>1. f = [k \in 0 .. 0 |-> IF k = 0 THEN {from} ELSE Level(f[k - 1], edges)]
    OBVIOUS
  <2>2. IsSearch(f, 0, from, edges)
    BY <2>1 DEF IsSearch
  <2> QED BY <1>4, <1>5, <2>2
<1>6. CASE m # 0
  <2>1. m - 1 \in Nat /\ m - 1 < m
    BY <1>4, <1>6
  <2>2. m - 1 \notin T
    BY <1>3, <1>4, <2>1 DEF OpToRel
  <2>3. P(m - 1)
    BY <2>1, <2>2
  <2>4. PICK f : f = [k \in 0 .. m - 1 |-> IF k = 0 THEN {from} ELSE Level(f[k - 1], edges)]
    BY <2>3 DEF IsSearch
  <2> DEFINE g == [k \in 0 .. m |-> IF k = m THEN Level(f[m - 1], edges) ELSE f[k]]
  <2>5. \A k \in 0 .. m : g[k] = IF k = 0 THEN {from} ELSE Level(g[k - 1], edges)
    <3> TAKE k \in 0 .. m
    <3>1. CASE k = m
      <4>1. m - 1 \in 0 .. m /\ m - 1 # m
        BY <2>1
      <4> QED BY <1>6, <3>1, <4>1
    <3>2. CASE k # m /\ k # 0
      <4>1. k \in 0 .. m - 1 /\ k - 1 \in 0 .. m /\ k - 1 # m
        BY <1>4, <3>2
      <4>2. f[k] = Level(f[k - 1], edges)
        BY <2>4, <3>2, <4>1
      <4> QED BY <3>2, <4>1, <4>2
    <3>3. CASE k # m /\ k = 0
      <4>1. 0 \in 0 .. m - 1
        BY <2>1
      <4>2. f[0] = {from}
        BY <2>4, <4>1
      <4> QED BY <3>3, <4>2
    <3> QED BY <3>1, <3>2, <3>3
  <2>6. g = [k \in 0 .. m |-> IF k = 0 THEN {from} ELSE Level(g[k - 1], edges)]
    BY <2>5
  <2> HIDE DEF g
  <2>7. IsSearch(g, m, from, edges)
    BY <2>6 DEF IsSearch
  <2> QED BY <1>4, <2>7
<1> QED BY <1>5, <1>6

\* What the search has visited, level by level
LEMMA SeenByLevels ==
  ASSUME NEW n \in Nat, NEW from, NEW edges
  PROVE  /\ Seen(n, from, edges)[0] = {from}
         /\ \A k \in 1 .. n : Seen(n, from, edges)[k] = Level(Seen(n, from, edges)[k - 1], edges)
<1> DEFINE f == Seen(n, from, edges)
<1>1. f = CHOOSE g : IsSearch(g, n, from, edges)
  BY DEF Seen, Level, IsSearch
<1>2. IsSearch(f, n, from, edges)
  <2> HIDE DEF f
  <2> QED BY <1>1, SeenExists
<1> HIDE DEF f
<1>3. f[0] = {from}
  BY <1>2 DEF IsSearch
<1>4. \A k \in 1 .. n : f[k] = Level(f[k - 1], edges)
  <2> TAKE k \in 1 .. n
  <2>1. k \in 0 .. n /\ k # 0
    OBVIOUS
  <2> QED BY <1>2, <2>1 DEF IsSearch
<1> QED BY <1>3, <1>4 DEF f

\* What is done before a node may start is never visited from that node.
LEMMA SearchAvoidsWhatIsDone ==
  ASSUME NEW n \in Nat, NEW from, NEW edges, NEW done, from \notin done,
         \A e \in edges : e.to \in done => e.from \in done
  PROVE  Seen(n, from, edges)[n] \cap done = {}
<1> DEFINE f == Seen(n, from, edges)
           T == {k \in 0 .. n : f[k] \cap done # {}}
<1>1. /\ f[0] = {from}
      /\ \A k \in 1 .. n : f[k] = Level(f[k - 1], edges)
  BY SeenByLevels
<1> HIDE DEF f
<1>2. SUFFICES ASSUME T # {} PROVE FALSE
  BY DEF f
<1>3. PICK m \in T : \A k \in T : ~(<<k, m>> \in OpToRel(<, Nat))
  <2>1. T \subseteq Nat
    OBVIOUS
  <2> HIDE DEF T
  <2> QED BY <1>2, <2>1, NatLessThanWellFounded, WFMin
<1>4. m \in 0 .. n /\ f[m] \cap done # {}
  OBVIOUS
<1>5. m # 0
  BY <1>1, <1>4
<1>6. m \in 1 .. n /\ m - 1 \in 0 .. n /\ m - 1 < m
  BY <1>4, <1>5
<1>7. f[m - 1] \cap done = {}
  <2>1. <<m - 1, m>> \in OpToRel(<, Nat)
    BY <1>6 DEF OpToRel
  <2>2. m - 1 \notin T
    BY <1>3, <2>1
  <2> QED BY <1>6, <2>2
<1>8. f[m] = Level(f[m - 1], edges)
  BY <1>1, <1>6
<1> QED BY <1>4, <1>7, <1>8 DEF Level

\* Nodes that a path orders never run at once.
LEMMA PathsOrder ==
  ASSUME NEW t, IsFiniteSet(t.nodes), NEW x, NEW y, Reaches(t, x, y, Joined(t))
  PROVE  /\ ~MayRunTogether(Ids(t.nodes), t.edges, x, y)
         /\ ~MayRunTogether(Ids(t.nodes), t.edges, y, x)
<1> DEFINE n == Cardinality(t.nodes)
<1>1. n \in Nat
  BY FS_CardinalityType
<1>2. PICK e \in Joined(t) : e.to = y /\ e.from \in Seen(n, x, Joined(t))[n]
  BY DEF Reaches
<1> HIDE DEF n
<1>3. ASSUME NEW done \in SUBSET (Ids(t.nodes) \ {x, y}),
             \A z \in done \cup {x, y} : {f.from : f \in {g \in t.edges : g.to = z}} \subseteq done
      PROVE  FALSE
  <2>1. \A f \in t.edges : f.to \in done \cup {x, y} => f.from \in done
    BY <1>3
  <2>2. Joined(t) \subseteq t.edges
    BY DEF Joined
  <2>3. Seen(n, x, Joined(t))[n] \cap done = {}
    BY <1>1, <1>3, <2>1, <2>2, SearchAvoidsWhatIsDone
  <2>4. e.from \in done
    BY <1>2, <2>1, <2>2
  <2> QED BY <1>2, <2>3, <2>4
<1> QED BY <1>3 DEF MayRunTogether

\* Ids that are unique name one node each.
LEMMA UniqueIdsNameOne ==
  ASSUME NEW S, IsFiniteSet(S), UniqueIds(S), NEW x \in S, NEW y \in S, x.id = y.id
  PROVE  x = y
<1> DEFINE f == [z \in S |-> z.id]
<1>1. f \in Surjection(S, Ids(S))
  BY DEF Surjection, Ids
<1>2. f \in Injection(S, Ids(S))
  <2> HIDE DEF f
  <2> QED BY <1>1, FS_SurjSameCardinalityImpliesInj DEF UniqueIds
<1> QED BY <1>2 DEF Injection, IsInjective

\* A topology without lint errors has unique ids, no cycle and no unsafe pair.
LEMMA LintedTopology ==
  ASSUME NEW t, LintErrors(t) = {}
  PROVE  UniqueIds(t.nodes) /\ Acyclic(t) /\ UnsafeParallelPairs(t) = {}
<1> DEFINE v == [required |-> Blank \in {t.id, t.space} \cup UNION Range(t.pols),
                 empty_topology |-> t.nodes = {},
                 duplicate_node_id |-> ~UniqueIds(t.nodes),
                 duplicate_edge_id |-> ~UniqueIds(t.edges)]
           c == [dependency_cycle |-> ~Acyclic(t),
                 unsafe_parallel_resource_conflict |-> UnsafeParallelPairs(t) # {},
                 expansion_without_budget |->
                    \E n \in t.nodes : n.pol["expansion"] # None /\ n.pol["budget"] = None]
<1>1. Codes(v) = {} /\ Codes(c) = {}
  BY DEF LintErrors, ValidateTopology
<1>2. /\ "duplicate_node_id" \in DOMAIN v
      /\ {"dependency_cycle", "unsafe_parallel_resource_conflict"} \subseteq DOMAIN c
  OBVIOUS
<1>3. /\ v["duplicate_node_id"] = ~UniqueIds(t.nodes)
      /\ c["dependency_cycle"] = ~Acyclic(t)
      /\ c["unsafe_parallel_resource_conflict"] = (UnsafeParallelPairs(t) # {})
  OBVIOUS
<1> HIDE DEF v, c
<1>4. /\ ~v["duplicate_node_id"] /\ ~c["dependency_cycle"]
      /\ ~c["unsafe_parallel_resource_conflict"]
  BY <1>1, <1>2 DEF Codes
<1> QED BY <1>3, <1>4

\* Two nodes of a linted topology that claim one resource in conflicting modes
\* never run at once: a path orders them, or an exclusion edge does.
LEMMA LintedRunsDoNotCollide ==
  ASSUME NEW t, IsFiniteSet(t.nodes), LintErrors(t) = {},
         NEW x \in t.nodes, NEW y \in t.nodes, x.id # y.id,
         NEW l \in x.claims, NEW r \in y.claims, ClaimsConflict(l, r), ~IsolatedFile(l, r)
  PROVE  ~MayRunTogether(Ids(t.nodes), t.edges, x.id, y.id)
<1>1. UniqueIds(t.nodes) /\ UnsafeParallelPairs(t) = {}
  BY LintedTopology
<1>2. \A n \in t.nodes : NodeOf(t, n.id) = n
  BY <1>1, UniqueIdsNameOne DEF NodeOf
<1> DEFINE p == <<x.id, y.id>>
<1>3. p \in Ids(t.nodes) \X Ids(t.nodes) /\ p[1] = x.id /\ p[2] = y.id
  BY DEF Ids
<1> HIDE DEF p
<1>4. CASE Reaches(t, x.id, y.id, Joined(t)) \/ Reaches(t, y.id, x.id, Joined(t))
  BY <1>4, PathsOrder
<1>5. CASE \E e \in t.edges : {e.from, e.to} = {x.id, y.id}
  <2>1. PICK e \in t.edges : {e.from, e.to} = {x.id, y.id}
    BY <1>5
  <2>2. (e.from = x.id /\ e.to = y.id) \/ (e.from = y.id /\ e.to = x.id)
    BY <2>1
  <2> QED BY <2>2 DEF MayRunTogether
<1>6. CASE /\ ~Reaches(t, x.id, y.id, Joined(t)) /\ ~Reaches(t, y.id, x.id, Joined(t))
           /\ ~\E e \in t.edges : {e.from, e.to} = {x.id, y.id}
  <2>1. /\ l \in NodeOf(t, p[1]).claims /\ r \in NodeOf(t, p[2]).claims
        /\ ClaimsConflict(l, r) /\ ~IsolatedFile(l, r)
        /\ ~\E e \in t.edges : /\ e.kind = "resource_exclusion" /\ l.resource \in e.scope
                               /\ {e.from, e.to} = {p[1], p[2]}
    BY <1>2, <1>3, <1>6
  <2>2. /\ p[1] # p[2]
        /\ ~Reaches(t, p[1], p[2], Joined(t)) /\ ~Reaches(t, p[2], p[1], Joined(t))
    BY <1>3, <1>6
  <2>3. p \in UnsafeParallelPairs(t)
    BY <1>3, <2>1, <2>2 DEF UnsafeParallelPairs
  <2> QED BY <1>1, <2>3
<1> QED BY <1>4, <1>5, <1>6

-----------------------------------------------------------------------------
(* Who hands out what *)

\* Only a deployment authority is answered with one, only a review of an
\* expansion with a transition, and only a simulation with a report.
LEMMA RepliesByStep ==
  ASSUME Next
  PROVE  /\ Authorisation \/ reply'.op # "authority"
         /\ ExpansionReview \/ reply'.op # "transition"
         /\ Simulation \/ reply'.op # "simulation"
<1>1. ASSUME NEW o \in {"none", "round", "migration"}, NEW v, reply' = Reply(o, v)
      PROVE  /\ reply'.op # "authority" /\ reply'.op # "transition"
             /\ reply'.op # "simulation"
  BY <1>1 DEF Reply
<1>2. CASE Expansion
  <2>1. \E o \in {"none", "round"} : \E v : reply' = Reply(o, v)
    BY <1>2 DEF Expansion, NewController, BeginAttempt, FinishAttempt, ProcessRound, NoReply
  <2>2. PICK o \in {"none", "round"} : \E v : reply' = Reply(o, v)
    BY <2>1
  <2>3. o \in {"none", "round", "migration"}
    OBVIOUS
  <2> QED BY <1>1, <2>2, <2>3
<1>3. CASE Redesign \/ Recording \/ Review \/ Rewriting
  <2>1. reply' = Reply("none", None)
    BY <1>3 DEF Redesign, ProposeRedesign, DisposeRedesign, Recording, OtherMorphism,
                RecordTopologyClaim, Review, ReviewTopology, Rewriting, RewriteBundle, NoReply
  <2> QED BY <1>1, <2>1
<1>4. CASE Simulation
  <2>1. \E v : reply' = Reply("simulation", v)
    BY <1>4 DEF Simulation, SimulateExecutionTopology
  <2> QED BY <1>4, <2>1 DEF Reply
<1>5. CASE Migration
  <2>1. \E v : reply' = Reply("migration", v)
    BY <1>5 DEF Migration, ProposeMigration
  <2> QED BY <1>1, <2>1
<1>6. CASE ProposalCompilation \/ ReviewedCompilation
  <2>1. PICK b : PersistBundle(b)
    BY <1>6 DEF ProposalCompilation, ReviewedCompilation, CompileDeploymentBundle,
                CompileReviewedDeploymentBundle
  <2>2. reply' = Reply("none", None)
    BY <2>1 DEF PersistBundle, NoReply
  <2> QED BY <1>1, <2>2
<1>7. CASE Authorisation
  <2>1. \E v : reply' = Reply("authority", v)
    BY <1>7 DEF Authorisation, Authorise
  <2> QED BY <1>7, <2>1 DEF Reply
<1>8. CASE ExpansionReview
  <2>1. \E v : reply' = Reply("transition", v)
    BY <1>8 DEF ExpansionReview, AcceptExpansion
  <2> QED BY <1>8, <2>1 DEF Reply
<1> QED BY <1>2, <1>3, <1>4, <1>5, <1>6, <1>7, <1>8 DEF Next

-----------------------------------------------------------------------------
(* Authorised runs *)

\* A bundle that verifies was compiled from a topology without lint errors.
LEMMA VerifiedIsLinted ==
  ASSUME NEW b, b # None, Verified(b)
  PROVE  LintErrors(b.topology) = {}
<1> PICK t, q, pr : t = b.topology /\ q = RetainedRequest(b) /\ pr = b.inputs.profile
  OBVIOUS
<1>1. b = Compile(t, q, pr)
  BY DEF Verified, BundlesMatch
<1>2. ~Refused(t, q, pr)
  BY <1>1 DEF Compile
<1>3. LintErrorsWithPolicies(t, q.docs["verification"]) = {}
  BY <1>2 DEF Refused
<1> QED BY <1>3 DEF LintErrorsWithPolicies

\* What is authorised does not collide with itself.
LEMMA AuthorisedDoesNotCollide ==
  ASSUME DeploymentInv, Authorisation
  PROVE  AuthorisedRunsDoNotCollide'
<1>1. PICK c \in Claims, b \in bundles : Authorise(c, b)
  BY DEF Authorisation
<1>2. /\ Verified(b) /\ ReviewedDeploymentAuthority(log, c, b) # None /\ b # None
      /\ reply' = Reply("authority", ReviewedDeploymentAuthority(log, c, b))
  BY <1>1 DEF Authorise, DeploymentInv
<1> DEFINE mode == ReviewedCompilationMode(log, c)
<1>3. /\ mode # None /\ b.manifest.topology = mode.topology
      /\ ReviewedDeploymentAuthority(log, c, b)
            = [claim |-> c, review |-> mode.review, bundle |-> b]
  BY <1>2 DEF ReviewedDeploymentAuthority
<1>4. PICK i \in 1 .. Len(log) : IsReviewOf(log[i], c) /\ mode.topology = log[i].topology
  BY <1>3, ModeIsStandingAcceptance DEF DeploymentInv
<1>5. log[i] \in LogEntry /\ log[i].kind = "topology_review"
  BY <1>4 DEF DeploymentInv, IsReviewOf
<1>6. log[i].topology \in Topologies
  BY <1>5 DEF LogEntry
<1> PICK t : t = b.topology
  OBVIOUS
<1>7. PICK req : /\ b.artifacts = Artifacts(t, req)
                 /\ b.manifest = Manifest(t, req, b.inputs.profile)
  BY <1>2, VerifiedIsCompiled
<1> PICK a : a = b.artifacts
  OBVIOUS
<1>8. /\ b.manifest.topology = t
      /\ a.nodes = {[id |-> n.id, class |-> n.class, delivery |-> n.delivery,
                     pol |-> n.pol] : n \in t.nodes}
      /\ a.edges = t.edges
      /\ a.resources = {[id |-> n.id, claims |-> n.claims] : n \in t.nodes}
  BY <1>7, ArtifactsFollowManifest
<1>9. IsFiniteSet(t.nodes) /\ LintErrors(t) = {}
  BY <1>2, <1>3, <1>4, <1>6, <1>8, VerifiedIsLinted, TopologiesAreFinite
<1>10. Ids(a.nodes) = Ids(t.nodes)
  <2> DEFINE Lowered(n) == [id |-> n.id, class |-> n.class, delivery |-> n.delivery, pol |-> n.pol]
  <2>1. a.nodes = {Lowered(n) : n \in t.nodes} /\ \A n \in t.nodes : Lowered(n).id = n.id
    BY <1>8
  <2> HIDE DEF Lowered
  <2> QED BY <2>1 DEF Ids
<1>11. reply'.op = "authority" /\ reply'.value.bundle = b
  BY <1>2, <1>3 DEF Reply
<1>12. ASSUME NEW x \in a.resources, NEW y \in a.resources, x.id # y.id,
              NEW l \in x.claims, NEW r \in y.claims, ClaimsConflict(l, r), ~IsolatedFile(l, r)
       PROVE  ~MayRunTogether(Ids(a.nodes), a.edges, x.id, y.id)
  <2>1. PICK m \in t.nodes : x = [id |-> m.id, claims |-> m.claims]
    BY <1>8
  <2>2. PICK n \in t.nodes : y = [id |-> n.id, claims |-> n.claims]
    BY <1>8
  <2>3. x.id = m.id /\ x.claims = m.claims /\ y.id = n.id /\ y.claims = n.claims
    BY <2>1, <2>2
  <2>4. ~MayRunTogether(Ids(t.nodes), t.edges, m.id, n.id)
    BY <1>9, <1>12, <2>3, LintedRunsDoNotCollide
  <2> QED BY <1>8, <1>10, <2>3, <2>4
<1> QED BY <1>11, <1>12 DEF AuthorisedRunsDoNotCollide

\* A deployment that was given authority never runs two nodes at once that claim
\* one resource in conflicting modes, for any topologies, reviews and rewritten
\* bundles: the linter's search for paths stands for all schedules
\* (resource_conflicts).
THEOREM AuthorisedRunsDoNotCollideHolds == Spec => []AuthorisedRunsDoNotCollide
<1>1. Init => AuthorisedRunsDoNotCollide
  BY DEF Init, AuthorisedRunsDoNotCollide, NoReply, Reply
<1>2. ASSUME DeploymentInv, AuthorisedRunsDoNotCollide, [Next]_vars
      PROVE  AuthorisedRunsDoNotCollide'
  <2>1. CASE Authorisation
    BY <1>2, <2>1, AuthorisedDoesNotCollide
  <2>2. CASE Next /\ ~Authorisation
    BY <2>2, RepliesByStep DEF AuthorisedRunsDoNotCollide
  <2>3. CASE UNCHANGED vars
    BY <1>2, <2>3 DEF vars, AuthorisedRunsDoNotCollide
  <2> QED BY <1>2, <2>1, <2>2, <2>3
<1>3. DeploymentInv /\ [Next]_vars => DeploymentInv'
  BY DeploymentNext
<1> QED BY <1>1, <1>2, <1>3, DeploymentInit, PTL DEF Spec

-----------------------------------------------------------------------------
(* Expansion *)

\* A controller within its policy
Fields == {"policy", "base", "attempt", "seen", "iteration", "dry", "spawned", "cost",
           "latency", "proposals"}
Proposable(p) == IsFiniteSet(p.addN) /\ ApplyPatch(BaseTopology, p) # None
WithinPolicy(c) ==
    /\ DOMAIN c = Fields
    /\ c.base = BaseTopology /\ c.policy \in ExpansionPolicies
    /\ c.iteration \in Nat /\ c.iteration <= c.policy.iterations
    /\ IsFiniteSet(c.seen) /\ IsFiniteSet(c.proposals) /\ \A p \in c.proposals : Proposable(p)
    /\ IsFiniteSet(Additions(c.proposals))
    /\ c.spawned = Cardinality(Additions(c.proposals)) /\ c.spawned <= c.policy.nodes
    /\ Cardinality(c.proposals) <= Cardinality(c.seen)
\* and what a round carries from candidate to candidate
RoundInv(acc) ==
    /\ DOMAIN acc = {"ctl", "unseen", "created", "exhausted"}
    /\ WithinPolicy(acc.ctl)

\* The operations of a patch that is applied name what they may.
LEMMA AppliedPatch ==
  ASSUME NEW base, NEW p, ApplyPatch(base, p) # None
  PROVE  /\ UniqueIds(p.addN) /\ Ids(p.addN) \cap Ids(base.nodes) = {}
         /\ Ids(p.updN) \cup p.remN \subseteq Ids(base.nodes)
<1> PICK A, U, R, E : A = p.addN /\ U = p.updN /\ R = p.remN /\ E = Ids(base.nodes)
  OBVIOUS
<1> DEFINE c == [empty_patch_id |-> Blank \in Ids(A) \cup Ids(U) \cup R,
                 duplicate_patch_id |-> ~UniqueIds(A) \/ ~UniqueIds(U),
                 patch_addition_exists |-> Ids(A) \cap E # {},
                 patch_target_missing |-> ~(Ids(U) \cup R \subseteq E),
                 conflicting_patch_operations |->
                    \/ Ids(A) \cap (Ids(U) \cup R) # {}
                    \/ Ids(U) \cap R # {}]
<1>1. PatchFindings(base, p) = {}
  BY DEF ApplyPatch
<1>2. EntityOperations(A, U, R, E) = {}
  BY <1>1 DEF PatchFindings
<1>3. Codes(c) = {}
  BY <1>2 DEF EntityOperations
<1>4. {"duplicate_patch_id", "patch_addition_exists", "patch_target_missing"} \subseteq DOMAIN c
  OBVIOUS
<1>5. /\ c["duplicate_patch_id"] = (~UniqueIds(A) \/ ~UniqueIds(U))
      /\ c["patch_addition_exists"] = (Ids(A) \cap E # {})
      /\ c["patch_target_missing"] = ~(Ids(U) \cup R \subseteq E)
  OBVIOUS
<1> HIDE DEF c
<1>6. /\ ~c["duplicate_patch_id"] /\ ~c["patch_addition_exists"] /\ ~c["patch_target_missing"]
  BY <1>3, <1>4 DEF Codes
<1> QED BY <1>5, <1>6

\* The nodes that the diff of a patch counts are the ones it adds.
LEMMA DiffCountsAdditions ==
  ASSUME NEW c, c.base = BaseTopology, NEW p, Proposable(p)
  PROVE  AddedNodes(c, p) = Cardinality(p.addN)
<1> DEFINE base == BaseTopology
           kept == {n \in base.nodes : n.id \notin p.remN \cup Ids(p.updN)}
<1>1. Patched(base, p).nodes = kept \cup p.updN \cup p.addN
  BY BaseIsTopology DEF Patched
<1>2. /\ UniqueIds(p.addN) /\ Ids(p.addN) \cap Ids(base.nodes) = {}
      /\ Ids(p.updN) \subseteq Ids(base.nodes)
  BY AppliedPatch DEF Proposable
<1>3. Ids(kept) \subseteq Ids(base.nodes)
  BY DEF Ids
<1>4. Ids(kept \cup p.updN \cup p.addN) = Ids(kept) \cup Ids(p.updN) \cup Ids(p.addN)
  BY DEF Ids
<1>5. AddedNodes(c, p) = Cardinality(Ids(Patched(base, p).nodes) \ Ids(base.nodes))
  BY DEF AddedNodes, PatchDiff, DiffEntities
<1> HIDE DEF kept
<1>6. Ids(Patched(base, p).nodes) \ Ids(base.nodes) = Ids(p.addN)
  BY <1>1, <1>2, <1>3, <1>4
<1> QED BY <1>2, <1>5, <1>6 DEF UniqueIds

\* A new proposal counts with all it adds.
LEMMA AdditionsAdd ==
  ASSUME NEW S, IsFiniteSet(Additions(S)), NEW p, p \notin S, IsFiniteSet(p.addN)
  PROVE  /\ IsFiniteSet(Additions(S \cup {p}))
         /\ Cardinality(Additions(S \cup {p})) = Cardinality(Additions(S)) + Cardinality(p.addN)
<1> DEFINE own == {p} \X p.addN
<1>1. Additions(S \cup {p}) = Additions(S) \cup own
  BY DEF Additions
<1>2. Additions(S) \cap own = {}
  BY DEF Additions
<1>3. IsFiniteSet({p}) /\ Cardinality({p}) = 1
  BY FS_Singleton
<1>4. Cardinality(p.addN) \in Nat /\ Cardinality(Additions(S)) \in Nat
  BY FS_CardinalityType
<1>5. IsFiniteSet(own) /\ Cardinality(own) = Cardinality(p.addN)
  BY <1>3, <1>4, FS_Product
<1> HIDE DEF own
<1>6. /\ IsFiniteSet(Additions(S) \cup own)
      /\ Cardinality(Additions(S) \cup own)
            = Cardinality(Additions(S)) + Cardinality(own) - Cardinality(Additions(S) \cap own)
  BY <1>5, FS_Union
<1>7. Cardinality(Additions(S) \cap own) = 0
  BY <1>2, FS_EmptySet
<1>8. Cardinality(Additions(S) \cup own) = Cardinality(Additions(S)) + Cardinality(p.addN)
  <2> PICK k, j, z, u : /\ k = Cardinality(Additions(S)) /\ j = Cardinality(own)
                        /\ z = Cardinality(Additions(S) \cap own)
                        /\ u = Cardinality(Additions(S) \cup own)
    OBVIOUS
  <2>1. k \in Nat /\ j \in Nat /\ z = 0 /\ u = k + j - z
    BY <1>4, <1>5, <1>6, <1>7
  <2> QED BY <1>5, <2>1
<1> QED BY <1>1, <1>6, <1>8

\* A candidate leaves the controller within its policy.
LEMMA CandidateStaysWithin ==
  ASSUME NEW acc, RoundInv(acc), NEW c, IsFiniteSet(c.patch.addN)
  PROVE  RoundInv(ProcessCandidate(acc, c))
<1> DEFINE ctrl == acc.ctl
           fp == Fingerprint(ctrl.policy, c)
           seen == [ctrl EXCEPT !.seen = @ \cup {fp}]
           fresh == [acc EXCEPT !.ctl = seen, !.unseen = @ + 1]
           made == [fresh EXCEPT !.ctl.proposals = @ \cup {c.patch},
                                 !.ctl.spawned = @ + AddedNodes(ctrl, c.patch),
                                 !.created = @ + 1]
<1>1. WithinPolicy(ctrl)
  BY DEF RoundInv
<1>2. CASE fp = None \/ fp \in ctrl.seen
  <2>1. ProcessCandidate(acc, c) = acc
    BY <1>2 DEF ProcessCandidate
  <2> QED BY <2>1
<1>3. CASE fp # None /\ fp \notin ctrl.seen
  <2>1. /\ IsFiniteSet(ctrl.seen \cup {fp}) /\ Cardinality(ctrl.seen) \in Nat
        /\ Cardinality(ctrl.seen \cup {fp}) = Cardinality(ctrl.seen) + 1
    BY <1>1, <1>3, FS_AddElement, FS_CardinalityType DEF WithinPolicy
  <2>2. /\ DOMAIN seen = Fields /\ seen.seen = ctrl.seen \cup {fp}
        /\ seen.base = ctrl.base /\ seen.policy = ctrl.policy /\ seen.iteration = ctrl.iteration
        /\ seen.spawned = ctrl.spawned /\ seen.proposals = ctrl.proposals
    <3> HIDE DEF fp
    <3> QED BY <1>1 DEF WithinPolicy, Fields
  <2>3. Cardinality(ctrl.proposals) \in Nat
    BY <1>1, FS_CardinalityType DEF WithinPolicy
  <2>4. WithinPolicy(seen)
    <3> HIDE DEF seen, fp
    <3> QED BY <1>1, <2>1, <2>2, <2>3 DEF WithinPolicy
  <2>5. DOMAIN fresh = {"ctl", "unseen", "created", "exhausted"} /\ fresh.ctl = seen
    <3> HIDE DEF seen
    <3> QED BY DEF RoundInv
  <2>6. CASE ProcessCandidate(acc, c) = fresh
    <3> HIDE DEF fresh, seen
    <3> QED BY <2>4, <2>5, <2>6 DEF RoundInv
  <2>7. CASE ProcessCandidate(acc, c) # fresh
    <3>1. /\ ApplyPatch(ctrl.base, c.patch) # None /\ FitsAllowance(ctrl, c.patch)
          /\ c.patch \notin ctrl.proposals
          /\ ProcessCandidate(acc, c) = made
      BY <1>3, <2>7 DEF ProcessCandidate
    <3> PICK p : p = c.patch
      OBVIOUS
    <3>2. Proposable(p) /\ AddedNodes(ctrl, p) = Cardinality(p.addN)
      BY <1>1, <3>1, DiffCountsAdditions DEF Proposable, WithinPolicy
    <3>3. /\ DOMAIN made = {"ctl", "unseen", "created", "exhausted"}
          /\ made.ctl = [seen EXCEPT !.proposals = @ \cup {p},
                                     !.spawned = @ + AddedNodes(ctrl, p)]
      <4> HIDE DEF seen, ctrl
      <4> QED BY <2>5
    <3>4. /\ DOMAIN made.ctl = Fields /\ made.ctl.seen = ctrl.seen \cup {fp}
          /\ made.ctl.base = ctrl.base /\ made.ctl.policy = ctrl.policy
          /\ made.ctl.iteration = ctrl.iteration
          /\ made.ctl.spawned = ctrl.spawned + Cardinality(p.addN)
          /\ made.ctl.proposals = ctrl.proposals \cup {p}
      <4> HIDE DEF made, seen, fp
      <4> QED BY <2>2, <3>2, <3>3 DEF Fields
    <3>5. /\ IsFiniteSet(Additions(ctrl.proposals \cup {p}))
          /\ Cardinality(Additions(ctrl.proposals \cup {p}))
                = Cardinality(Additions(ctrl.proposals)) + Cardinality(p.addN)
      BY <1>1, <3>1, <3>2, AdditionsAdd DEF WithinPolicy, Proposable
    <3>6. /\ IsFiniteSet(ctrl.proposals \cup {p})
          /\ Cardinality(ctrl.proposals \cup {p}) = Cardinality(ctrl.proposals) + 1
      BY <1>1, <3>1, FS_AddElement DEF WithinPolicy
    <3>7. /\ Cardinality(p.addN) \in Nat /\ ctrl.spawned \in Nat /\ ctrl.policy.nodes \in Nat
      BY <1>1, <3>2, FS_CardinalityType, LimitsAreCounts DEF WithinPolicy, Proposable
    <3>8. ctrl.spawned + Cardinality(p.addN) <= ctrl.policy.nodes
      BY <3>1, <3>2, <3>7 DEF FitsAllowance
    <3>9. WithinPolicy(made.ctl)
      <4> HIDE DEF made, fp, ctrl
      <4> QED BY <1>1, <2>1, <2>3, <3>2, <3>4, <3>5, <3>6, <3>8 DEF WithinPolicy
    <3> HIDE DEF made
    <3> QED BY <3>1, <3>3, <3>9 DEF RoundInv
  <2> QED BY <2>6, <2>7
<1> QED BY <1>2, <1>3

\* The loop over the candidates is well defined for any number of them.
IsLoop(f, n, start, cs) ==
    f = [k \in 0 .. n |-> IF k = 0 THEN start ELSE ProcessCandidate(f[k - 1], cs[k])]
LEMMA LoopExists ==
  ASSUME NEW n \in Nat, NEW start, NEW cs
  PROVE  \E f : IsLoop(f, n, start, cs)
<1> DEFINE P(m) == \E f : IsLoop(f, m, start, cs)
           T == {m \in Nat : ~P(m)}
<1>1. SUFFICES T = {}
  OBVIOUS
<1>2. SUFFICES ASSUME T # {} PROVE FALSE
  OBVIOUS
<1>3. PICK m \in T : \A k \in T : ~(<<k, m>> \in OpToRel(<, Nat))
  <2>1. T \subseteq Nat
    OBVIOUS
  <2> HIDE DEF T
  <2> QED BY <1>2, <2>1, NatLessThanWellFounded, WFMin
<1>4. m \in Nat /\ ~P(m)
  OBVIOUS
<1>5. CASE m = 0
  <2> DEFINE f == [k \in 0 .. 0 |-> start]
  <2>1. f = [k \in 0 .. 0 |-> IF k = 0 THEN start ELSE ProcessCandidate(f[k - 1], cs[k])]
    OBVIOUS
  <2>2. IsLoop(f, 0, start, cs)
    BY <2>1 DEF IsLoop
  <2> QED BY <1>4, <1>5, <2>2
<1>6. CASE m # 0
  <2>1. m - 1 \in Nat /\ m - 1 < m
    BY <1>4, <1>6
  <2>2. m - 1 \notin T
    BY <1>3, <1>4, <2>1 DEF OpToRel
  <2>3. P(m - 1)
    BY <2>1, <2>2
  <2>4. PICK f : f = [k \in 0 .. m - 1 |-> IF k = 0 THEN start
                                           ELSE ProcessCandidate(f[k - 1], cs[k])]
    BY <2>3 DEF IsLoop
  <2> DEFINE g == [k \in 0 .. m |-> IF k = m THEN ProcessCandidate(f[m - 1], cs[m]) ELSE f[k]]
  <2>5. \A k \in 0 .. m : g[k] = IF k = 0 THEN start ELSE ProcessCandidate(g[k - 1], cs[k])
    <3> TAKE k \in 0 .. m
    <3>1. CASE k = m
      <4>1. m - 1 \in 0 .. m /\ m - 1 # m
        BY <2>1
      <4> QED BY <1>6, <3>1, <4>1
    <3>2. CASE k # m /\ k # 0
      <4>1. k \in 0 .. m - 1 /\ k - 1 \in 0 .. m /\ k - 1 # m
        BY <1>4, <3>2
      <4>2. f[k] = ProcessCandidate(f[k - 1], cs[k])
        BY <2>4, <3>2, <4>1
      <4> QED BY <3>2, <4>1, <4>2
    <3>3. CASE k # m /\ k = 0
      <4>1. 0 \in 0 .. m - 1
        BY <2>1
      <4>2. f[0] = start
        BY <2>4, <4>1
      <4> QED BY <3>3, <4>2
    <3> QED BY <3>1, <3>2, <3>3
  <2>6. g = [k \in 0 .. m |-> IF k = 0 THEN start ELSE ProcessCandidate(g[k - 1], cs[k])]
    BY <2>5
  <2> HIDE DEF g
  <2>7. IsLoop(g, m, start, cs)
    BY <2>6 DEF IsLoop
  <2> QED BY <1>4, <2>7
<1> QED BY <1>5, <1>6

\* The candidates of a round leave the controller within its policy.
LEMMA RoundStaysWithin ==
  ASSUME NEW cs, cs \in Seq(Range(cs)), \A c \in Range(cs) : IsFiniteSet(c.patch.addN),
         NEW start, RoundInv(start)
  PROVE  RoundInv(AfterCandidates(start, cs)[Len(cs)])
<1> DEFINE n == Len(cs)
           f == AfterCandidates(start, cs)
<1>1. n \in Nat /\ \A k \in 1 .. n : cs[k] \in Range(cs)
  BY DEF Range
<1>2. f = CHOOSE g : IsLoop(g, n, start, cs)
  BY DEF AfterCandidates, IsLoop
<1> HIDE DEF f, n
<1>3. IsLoop(f, n, start, cs)
  BY <1>1, <1>2, LoopExists
<1>4. f[0] = start
  BY <1>1, <1>3 DEF IsLoop
<1>5. \A k \in 1 .. n : f[k] = ProcessCandidate(f[k - 1], cs[k])
  <2> TAKE k \in 1 .. n
  <2>1. k \in 0 .. n /\ k # 0
    BY <1>1
  <2> QED BY <1>3, <2>1 DEF IsLoop
<1> DEFINE T == {k \in 0 .. n : ~RoundInv(f[k])}
<1>6. SUFFICES ASSUME T # {} PROVE FALSE
  BY <1>1 DEF f, n
<1>7. PICK m \in T : \A k \in T : ~(<<k, m>> \in OpToRel(<, Nat))
  <2>1. T \subseteq Nat
    BY <1>1
  <2> HIDE DEF T
  <2> QED BY <1>6, <2>1, NatLessThanWellFounded, WFMin
<1>8. m \in 0 .. n /\ ~RoundInv(f[m])
  OBVIOUS
<1>9. m # 0
  BY <1>4, <1>8
<1>10. m \in 1 .. n /\ m - 1 \in 0 .. n /\ m - 1 < m
  BY <1>1, <1>8, <1>9
<1>11. RoundInv(f[m - 1])
  <2>1. <<m - 1, m>> \in OpToRel(<, Nat)
    BY <1>1, <1>10 DEF OpToRel
  <2>2. m - 1 \notin T
    BY <1>7, <2>1
  <2> QED BY <1>10, <2>2
<1>12. f[m] = ProcessCandidate(f[m - 1], cs[m]) /\ IsFiniteSet(cs[m].patch.addN)
  BY <1>1, <1>5, <1>10
<1> QED BY <1>8, <1>11, <1>12, CandidateStaysWithin

\* The inductive invariant behind ExpansionStaysWithinPolicy
ExpansionInv == ctl # None => WithinPolicy(ctl)

\* A round, too, leaves the controller within its policy.
LEMMA RoundsKeepPolicy ==
  ASSUME ExpansionInv, NEW a, NEW r \in Rounds, ProcessRound(a, r)
  PROVE  ExpansionInv'
<1>1. ctl # None /\ WithinPolicy(ctl)
  BY DEF ProcessRound, ExpansionInv
<1>2. CASE UNCHANGED ctl
  BY <1>2 DEF ExpansionInv
<1>3. CASE ~UNCHANGED ctl
  <2> DEFINE begun == [ctl EXCEPT !.iteration = @ + 1, !.cost = @ + r.cost,
                                  !.latency = @ + r.latency]
             start == [ctl |-> begun, unseen |-> 0, created |-> 0,
                       exhausted |-> \/ begun.cost >= begun.policy.cost
                                     \/ begun.latency >= begun.policy.latency]
             out == AfterCandidates(start, r.candidates)[Len(r.candidates)]
             after == [out.ctl EXCEPT !.dry = IF out.unseen = 0 THEN @ + 1 ELSE 0]
  <2>1. ctl.iteration < ctl.policy.iterations /\ ctl' = after
    BY <1>3 DEF ProcessRound
  <2>2. /\ DOMAIN begun = Fields /\ begun.seen = ctl.seen /\ begun.base = ctl.base
        /\ begun.policy = ctl.policy /\ begun.iteration = ctl.iteration + 1
        /\ begun.spawned = ctl.spawned /\ begun.proposals = ctl.proposals
    BY <1>1 DEF WithinPolicy, Fields
  <2>3. ctl.policy.iterations \in Nat
    BY <1>1, LimitsAreCounts DEF WithinPolicy
  <2>4. WithinPolicy(begun)
    <3> HIDE DEF begun
    <3> QED BY <1>1, <2>1, <2>2, <2>3 DEF WithinPolicy
  <2> HIDE DEF begun
  <2>5. RoundInv(start)
    BY <2>4 DEF RoundInv
  <2> HIDE DEF start
  <2>6. RoundInv(out)
    BY <2>5, RoundStaysWithin, RoundsAreSequences
  <2> HIDE DEF out
  <2>7. WithinPolicy(out.ctl)
    BY <2>6 DEF RoundInv
  <2>8. /\ DOMAIN after = Fields /\ after.seen = out.ctl.seen /\ after.base = out.ctl.base
        /\ after.policy = out.ctl.policy /\ after.iteration = out.ctl.iteration
        /\ after.spawned = out.ctl.spawned /\ after.proposals = out.ctl.proposals
    BY <2>7 DEF WithinPolicy, Fields
  <2> HIDE DEF after
  <2> PICK before, now : before = out.ctl /\ now = after
    OBVIOUS
  <2>9. WithinPolicy(now)
    BY <2>7, <2>8 DEF WithinPolicy
  <2> QED BY <2>1, <2>9 DEF ExpansionInv
<1> QED BY <1>2, <1>3

\* Every step keeps the controller within its policy.
LEMMA ExpansionNext ==
  ASSUME ExpansionInv, [Next]_vars
  PROVE  ExpansionInv'
<1>1. ASSUME NEW p \in ExpansionPolicies, NewController(p) PROVE ExpansionInv'
  <2> DEFINE new == [policy |-> p, base |-> BaseTopology, attempt |-> None, seen |-> {},
                     iteration |-> 0, dry |-> 0, spawned |-> 0, cost |-> 0, latency |-> 0,
                     proposals |-> {}]
  <2>1. ctl' = new
    BY <1>1 DEF NewController
  <2>2. p.iterations \in Nat /\ p.nodes \in Nat
    BY LimitsAreCounts
  <2>3. Additions({}) = {}
    BY DEF Additions
  <2>4. WithinPolicy(new)
    BY <2>2, <2>3, FS_EmptySet DEF WithinPolicy, Fields
  <2> HIDE DEF new
  <2> QED BY <2>1, <2>4 DEF ExpansionInv, WithinPolicy
<1>2. ASSUME NEW b, ctl # None, ctl' = [ctl EXCEPT !.attempt = b] PROVE ExpansionInv'
  <2>1. WithinPolicy(ctl)
    BY <1>2 DEF ExpansionInv
  <2> DEFINE after == [ctl EXCEPT !.attempt = b]
  <2>2. /\ DOMAIN after = Fields /\ after.seen = ctl.seen /\ after.base = ctl.base
        /\ after.policy = ctl.policy /\ after.iteration = ctl.iteration
        /\ after.spawned = ctl.spawned /\ after.proposals = ctl.proposals
    BY <2>1 DEF WithinPolicy, Fields
  <2>3. WithinPolicy(after)
    <3> HIDE DEF after
    <3> QED BY <2>1, <2>2 DEF WithinPolicy
  <2> HIDE DEF after
  <2> QED BY <1>2, <2>3 DEF ExpansionInv, WithinPolicy, after
<1>3. CASE Expansion
  <2>1. ASSUME NEW a, BeginAttempt(a, BaseTopology) \/ FinishAttempt(a) PROVE ExpansionInv'
    BY <1>2, <2>1 DEF BeginAttempt, FinishAttempt
  <2> QED BY <1>1, <1>3, <2>1, RoundsKeepPolicy DEF Expansion
<1>4. CASE UNCHANGED ctl
  BY <1>4 DEF ExpansionInv
<1>5. CASE ProposalCompilation \/ ReviewedCompilation
  <2>1. UNCHANGED ctl
    BY <1>5 DEF ProposalCompilation, ReviewedCompilation, CompileDeploymentBundle,
                CompileReviewedDeploymentBundle, PersistBundle
  <2> QED BY <1>4, <2>1
<1>6. CASE Next /\ ~Expansion /\ ~ProposalCompilation /\ ~ReviewedCompilation
  <2>1. UNCHANGED ctl
    BY <1>6 DEF Next, ExpansionReview, AcceptExpansion, Redesign, ProposeRedesign,
                DisposeRedesign, Simulation, SimulateExecutionTopology, Review, ReviewTopology,
                Recording, OtherMorphism, RecordTopologyClaim, Rewriting, RewriteBundle,
                Authorisation, Authorise, Migration, ProposeMigration
  <2> QED BY <1>4, <2>1
<1>7. CASE UNCHANGED vars
  BY <1>4, <1>7 DEF vars
<1> QED BY <1>3, <1>5, <1>6, <1>7

\* However candidates, duplicates, rounds and attempts are spread, a controller
\* stays within its policy and counts what its proposals really add
\* (process_round).
THEOREM ExpansionStaysWithinPolicyHolds == Spec => []ExpansionStaysWithinPolicy
<1>1. Init => ExpansionInv
  BY DEF Init, ExpansionInv
<1>2. ExpansionInv /\ [Next]_vars => ExpansionInv'
  BY ExpansionNext
<1>3. ExpansionInv => ExpansionStaysWithinPolicy
  BY DEF ExpansionInv, WithinPolicy, Proposable, ExpansionStaysWithinPolicy
<1> QED BY <1>1, <1>2, <1>3, PTL DEF Spec

\* A transition is reported for a proposal and an acceptance that stand.
LEMMA AcceptanceIsExact ==
  ASSUME DeploymentInv, ExpansionInv, ExpansionReview
  PROVE  TransitionsAreExact'
<1>1. PICK c \in Claims, t \in Topologies : \E p : AcceptExpansion(c, p, t)
  BY DEF ExpansionReview
<1>2. PICK p : AcceptExpansion(c, p, t)
  BY <1>1
<1> DEFINE mode == ReviewedCompilationMode(log, c)
           v == [patch |-> p, topology |-> t, review |-> mode.review]
<1>3. /\ ctl # None /\ mode # None /\ mode.topology = t /\ mode.proposal = p
      /\ p \in ctl.proposals /\ t = Patched(ctl.base, p) /\ LintErrors(t) = {}
      /\ reply' = Reply("transition", v) /\ log' = log /\ ctl' = ctl
  BY <1>2 DEF AcceptExpansion, ReviewAccepted
<1> PICK i : i = mode.review
  OBVIOUS
<1>4. log[i].action = "accept" /\ mode.topology = log[i].topology
      /\ mode.proposal = log[i].proposal
  BY <1>3, ModeIsStandingAcceptance DEF DeploymentInv
<1> HIDE DEF mode
<1>5. ctl.base = BaseTopology /\ ApplyPatch(BaseTopology, p) # None
  BY <1>3 DEF ExpansionInv, WithinPolicy, Proposable
<1>6. t = ApplyPatch(BaseTopology, p)
  BY <1>3, <1>5 DEF ApplyPatch
<1>7. /\ reply'.value.patch = p /\ reply'.value.topology = t /\ reply'.value.review = i
  BY <1>3 DEF Reply
<1>8. log'[reply'.value.review] = log[i]
  BY <1>3, <1>7
<1> QED BY <1>3, <1>4, <1>6, <1>7, <1>8 DEF TransitionsAreExact

\* A transition is only ever the exact result of a proposed patch, under the
\* standing acceptance that names it (review_accepted).
THEOREM TransitionsAreExactHolds == Spec => []TransitionsAreExact
<1>1. Init => ExpansionInv /\ TransitionsAreExact
  BY DEF Init, ExpansionInv, TransitionsAreExact, NoReply, Reply
<1>2. ASSUME DeploymentInv, ExpansionInv, TransitionsAreExact, [Next]_vars
      PROVE  TransitionsAreExact'
  <2>1. CASE ExpansionReview
    BY <1>2, <2>1, AcceptanceIsExact
  <2>2. CASE Next /\ ~ExpansionReview
    BY <2>2, RepliesByStep DEF TransitionsAreExact
  <2>3. CASE UNCHANGED vars
    BY <1>2, <2>3 DEF vars, TransitionsAreExact
  <2> QED BY <1>2, <2>1, <2>2, <2>3
<1>3. DeploymentInv /\ [Next]_vars => DeploymentInv'
  BY DeploymentNext
<1>4. ExpansionInv /\ [Next]_vars => ExpansionInv'
  BY ExpansionNext
<1> QED BY <1>1, <1>2, <1>3, <1>4, DeploymentInit, PTL DEF Spec

-----------------------------------------------------------------------------
(* Sums over sets of nodes *)

\* The recursion of MapThenFoldSet for a sum of f over the subsets of a set
Pick(s) == CHOOSE x \in s : TRUE
IsSum(it, f, D) ==
    it = [s \in D |-> IF s = {} THEN 0 ELSE f[Pick(s)] + it[s \ {Pick(s)}]]

\* The subsets with at most n elements
UpTo(S, n) == {s \in SUBSET S : Cardinality(s) <= n}

\* SumOver is that recursion.
LEMMA SumIsRecursion ==
    ASSUME NEW f, NEW S
    PROVE  SumOver(f, S) = (CHOOSE it : IsSum(it, f, SUBSET S))[S]
<1> QED BY DEF SumOver, MapThenSumSet, MapThenFoldSet, IsSum, Pick

\* An element is taken from a set that has one, and the rest is smaller.
LEMMA PickShrinks ==
    ASSUME NEW s, IsFiniteSet(s), s # {}
    PROVE  /\ Pick(s) \in s /\ IsFiniteSet(s \ {Pick(s)})
           /\ Cardinality(s) \in Nat \ {0}
           /\ Cardinality(s \ {Pick(s)}) = Cardinality(s) - 1
<1>1. Pick(s) \in s
  BY DEF Pick
<1>2. QED
  BY <1>1, FS_RemoveElement, FS_CardinalityType, FS_EmptySet

\* A recursion over the subsets with at most n elements has a solution.
LEMMA SumUpToExists ==
    ASSUME NEW S, IsFiniteSet(S), NEW f
    PROVE  \A n \in Nat : \E it : IsSum(it, f, UpTo(S, n))
<1> DEFINE Bad == {n \in Nat : ~\E it : IsSum(it, f, UpTo(S, n))}
<1> SUFFICES ASSUME Bad # {} PROVE FALSE
  OBVIOUS
<1>1. PICK n \in Bad : \A m \in Bad : ~(<<m, n>> \in OpToRel(<, Nat))
  <2>1. Bad \subseteq Nat
    OBVIOUS
  <2> HIDE DEF Bad
  <2>2. QED
    BY <2>1, WFMin, NatLessThanWellFounded
<1>2. n \in Nat /\ \A m \in Nat : m < n => \E it : IsSum(it, f, UpTo(S, m))
  BY <1>1 DEF OpToRel
<1>3. \A s \in SUBSET S : IsFiniteSet(s) /\ Cardinality(s) \in Nat
  BY FS_Subset, FS_CardinalityType
<1>4. CASE n = 0
  <2>1. \A s \in UpTo(S, n) : s = {}
    BY <1>3, <1>4, FS_EmptySet DEF UpTo
  <2>2. IsSum([s \in UpTo(S, n) |-> 0], f, UpTo(S, n))
    BY <2>1 DEF IsSum
  <2>3. QED
    BY <2>2, <1>1
<1>5. CASE n # 0
  <2>1. n - 1 \in Nat /\ n - 1 < n
    BY <1>2, <1>5
  <2>2. PICK it : IsSum(it, f, UpTo(S, n - 1))
    BY <1>2, <2>1
  <2> DEFINE jt == [s \in UpTo(S, n) |-> IF s = {} THEN 0 ELSE f[Pick(s)] + it[s \ {Pick(s)}]]
  <2>3. ASSUME NEW s \in UpTo(S, n), s # {}
        PROVE  jt[s \ {Pick(s)}] = it[s \ {Pick(s)}]
    <3> DEFINE t == s \ {Pick(s)}
    <3>1. IsFiniteSet(s) /\ s \in SUBSET S /\ Cardinality(s) <= n /\ Cardinality(s) \in Nat
      BY <1>3 DEF UpTo
    <3>2. t \in SUBSET S /\ Cardinality(t) <= n - 1 /\ Cardinality(t) <= n
      BY <2>3, <3>1, <1>2, PickShrinks
    <3>3. t \in UpTo(S, n - 1) /\ t \in UpTo(S, n)
      BY <3>2 DEF UpTo
    <3>4. jt[t] = IF t = {} THEN 0 ELSE f[Pick(t)] + it[t \ {Pick(t)}]
      BY <3>3
    <3>5. it[t] = IF t = {} THEN 0 ELSE f[Pick(t)] + it[t \ {Pick(t)}]
      BY <3>3, <2>2 DEF IsSum
    <3>6. QED
      BY <3>4, <3>5
  <2>4. IsSum(jt, f, UpTo(S, n))
    BY <2>3 DEF IsSum
  <2>5. QED
    BY <2>4, <1>1
<1>6. QED
  BY <1>4, <1>5

\* So has the recursion over all subsets of a finite set.
LEMMA SumExists ==
    ASSUME NEW S, IsFiniteSet(S), NEW f
    PROVE  \E it : IsSum(it, f, SUBSET S)
<1> DEFINE n == Cardinality(S)
<1>1. n \in Nat
  BY FS_CardinalityType
<1>2. UpTo(S, n) = SUBSET S
  BY FS_Subset DEF UpTo
<1> HIDE DEF n
<1>3. \E it : IsSum(it, f, UpTo(S, n))
  BY <1>1, SumUpToExists
<1>4. QED
  BY <1>2, <1>3

\* Functions that agree on a set, and what sums of them give for a set
SameValues(f, g, S) == \A x \in S : f[x] = g[x] /\ f[x] \in Nat
SumFacts(it, jt, f, s) ==
    /\ it[s] = jt[s] /\ it[s] \in Nat
    /\ \A x \in s : it[s] = f[x] + it[s \ {x}]

\* What sums of functions that agree on a set give for it does not depend on the
\* sets they recur over, and every element may be taken out first.
LEMMA SumsAgree ==
    ASSUME NEW S, NEW T, IsFiniteSet(S), NEW f, NEW g, NEW it, NEW jt,
           IsSum(it, f, SUBSET S), IsSum(jt, g, SUBSET T),
           SameValues(f, g, S \cap T)
    PROVE  \A s \in SUBSET (S \cap T) : SumFacts(it, jt, f, s)
<1> DEFINE Good(s) == /\ it[s] = jt[s] /\ it[s] \in Nat
                      /\ \A x \in s : it[s] = f[x] + it[s \ {x}]
           Bad == {n \in Nat : \E s \in SUBSET (S \cap T) : Cardinality(s) = n /\ ~Good(s)}
<1>1. \A s \in SUBSET (S \cap T) : /\ IsFiniteSet(s) /\ Cardinality(s) \in Nat
                                  /\ s \in SUBSET S /\ s \in SUBSET T
  BY FS_Subset, FS_CardinalityType
<1>0. \A x \in S \cap T : f[x] = g[x] /\ f[x] \in Nat
  BY DEF SameValues
<1> SUFFICES ASSUME Bad # {} PROVE FALSE
  BY <1>1 DEF SumFacts
<1>2. PICK n \in Bad : \A m \in Bad : ~(<<m, n>> \in OpToRel(<, Nat))
  <2>1. Bad \subseteq Nat
    OBVIOUS
  <2> HIDE DEF Bad
  <2>2. QED
    BY <2>1, WFMin, NatLessThanWellFounded
<1>3. PICK s \in SUBSET (S \cap T) : Cardinality(s) = n /\ ~Good(s)
  BY <1>2
<1>4. \A t \in SUBSET (S \cap T) : Cardinality(t) < n => Good(t)
  <2> SUFFICES ASSUME NEW t \in SUBSET (S \cap T), Cardinality(t) < n, ~Good(t) PROVE FALSE
    OBVIOUS
  <2>1. Cardinality(t) \in Nat /\ Cardinality(t) \in Bad
    BY <1>1
  <2> HIDE DEF Bad
  <2>2. n \in Nat
    BY <1>1, <1>3
  <2>3. QED
    BY <2>1, <2>2, <1>2 DEF OpToRel
<1>5. /\ it[s] = IF s = {} THEN 0 ELSE f[Pick(s)] + it[s \ {Pick(s)}]
      /\ jt[s] = IF s = {} THEN 0 ELSE g[Pick(s)] + jt[s \ {Pick(s)}]
  BY <1>1 DEF IsSum
<1>6. ASSUME NEW t \in SUBSET (S \cap T), NEW x \in t, Cardinality(t) <= n
      PROVE  t \ {x} \in SUBSET (S \cap T) /\ Cardinality(t \ {x}) < n /\ Good(t \ {x})
  <2>1. t \ {x} \in SUBSET (S \cap T) /\ IsFiniteSet(t) /\ Cardinality(t) \in Nat /\ n \in Nat
    BY <1>1, <1>3
  <2>2. Cardinality(t \ {x}) = Cardinality(t) - 1
    BY <2>1, FS_RemoveElement
  <2>3. Cardinality(t \ {x}) < n
    BY <2>1, <2>2, <1>6
  <2> HIDE DEF Good
  <2>4. QED
    BY <2>1, <2>3, <1>4
<1>6a. Cardinality(s) <= n
  BY <1>1, <1>3
<1>7. CASE s = {}
  BY <1>3, <1>5, <1>7
<1>8. CASE s # {}
  <2> DEFINE y == Pick(s)
             u == s \ {y}
  <2>1. y \in s /\ y \in S \cap T
    BY <1>8 DEF Pick
  <2>2. Good(u) /\ u \in SUBSET (S \cap T) /\ Cardinality(u) < n
    <3> HIDE DEF Good
    <3> QED BY <2>1, <1>6, <1>6a
  <2>3. it[s] = f[y] + it[u] /\ jt[s] = g[y] + jt[u]
    BY <1>5, <1>8
  <2> HIDE DEF y, u
  <2>4. it[s] = jt[s] /\ it[s] \in Nat
    BY <2>1, <2>2, <2>3, <1>0
  <2>5. ASSUME NEW x \in s PROVE it[s] = f[x] + it[s \ {x}]
    <3>1. CASE x = y
      BY <2>3, <3>1 DEF u
    <3>2. CASE x # y
      <4> DEFINE v == s \ {x}
                 w == u \ {x}
      <4>1. Good(v) /\ v \in SUBSET (S \cap T)
        <5> HIDE DEF Good
        <5> QED BY <1>6, <1>6a
      <4>2. x \in u /\ y \in v /\ v \ {y} = w
        BY <2>1, <3>2 DEF u
      <4>3. it[u] = f[x] + it[w] /\ it[v] = f[y] + it[w]
        BY <2>2, <4>1, <4>2
      <4>4. f[x] \in Nat /\ f[y] \in Nat /\ it[u] \in Nat /\ it[v] \in Nat
        BY <2>1, <2>2, <4>1, <1>0
      <4>5. Good(w)
        <5>1. Cardinality(u) <= n
          BY <2>2, <1>1, <1>3
        <5>2. QED
          BY <2>2, <4>2, <1>6, <5>1
      <4>6. it[w] \in Nat
        BY <4>5
      <4> HIDE DEF v, w
      <4>7. it[s] = f[x] + it[v]
        BY <2>3, <4>3, <4>4, <4>6
      <4>8. QED
        BY <4>7 DEF v
    <3>3. QED
      BY <3>1, <3>2
  <2>6. QED
    BY <1>3, <2>4, <2>5
<1>9. QED
  BY <1>7, <1>8

\* The sum over a set: zero for none, and one more element adds its value.
LEMMA SumSteps ==
    ASSUME NEW S, IsFiniteSet(S), NEW f, \A x \in S : f[x] \in Nat
    PROVE  /\ SumOver(f, S) \in Nat
           /\ S = {} => SumOver(f, S) = 0
           /\ \A x \in S : SumOver(f, S) = f[x] + SumOver(f, S \ {x})
           /\ \A g : (\A x \in S : g[x] = f[x]) => SumOver(g, S) = SumOver(f, S)
<1> DEFINE it == CHOOSE i : IsSum(i, f, SUBSET S)
<1>1. IsSum(it, f, SUBSET S)
  BY SumExists
<1>2. it[S] = SumOver(f, S)
  BY SumIsRecursion
<1> HIDE DEF it
<1>3. it[S] \in Nat /\ \A x \in S : it[S] = f[x] + it[S \ {x}]
  <2>1. SameValues(f, f, S \cap S)
    BY DEF SameValues
  <2>2. \A s \in SUBSET (S \cap S) : SumFacts(it, it, f, s)
    BY <1>1, <2>1, SumsAgree
  <2>3. S \in SUBSET (S \cap S)
    OBVIOUS
  <2>4. QED
    BY <2>2, <2>3 DEF SumFacts
<1>4. S = {} => it[S] = 0
  BY <1>1 DEF IsSum
<1>5. ASSUME NEW T \in SUBSET S, NEW g, \A x \in T : g[x] = f[x]
      PROVE  SumOver(g, T) = it[T]
  <2> DEFINE jt == CHOOSE i : IsSum(i, g, SUBSET T)
  <2>1. IsFiniteSet(T)
    BY FS_Subset
  <2>2. IsSum(jt, g, SUBSET T)
    BY <2>1, SumExists
  <2>3. jt[T] = SumOver(g, T)
    BY SumIsRecursion
  <2> HIDE DEF jt
  <2>4. \A s \in SUBSET (S \cap T) : it[s] = jt[s]
    <3>1. SameValues(f, g, S \cap T)
      BY <1>5 DEF SameValues
    <3>2. \A s \in SUBSET (S \cap T) : SumFacts(it, jt, f, s)
      BY <1>1, <2>2, <3>1, SumsAgree
    <3>3. QED
      BY <3>2 DEF SumFacts
  <2>5. T \in SUBSET (S \cap T)
    OBVIOUS
  <2>6. QED
    BY <2>3, <2>4, <2>5
<1>6. \A x \in S : SumOver(f, S \ {x}) = it[S \ {x}]
  BY <1>5
<1>7. \A g : (\A x \in S : g[x] = f[x]) => SumOver(g, S) = it[S]
  BY <1>5
<1>8. QED
  BY <1>2, <1>3, <1>4, <1>6, <1>7

\* A larger set has no smaller sum.
LEMMA SumGrows ==
    ASSUME NEW T, IsFiniteSet(T), NEW f, \A x \in T : f[x] \in Nat, NEW S \in SUBSET T
    PROVE  SumOver(f, S) \in Nat /\ SumOver(f, T) \in Nat /\ SumOver(f, S) <= SumOver(f, T)
<1> DEFINE Bad == {n \in Nat : \E R \in SUBSET T : /\ S \subseteq R /\ Cardinality(R) = n
                                                  /\ ~(SumOver(f, S) <= SumOver(f, R))}
<1>1. \A R \in SUBSET T : /\ IsFiniteSet(R) /\ Cardinality(R) \in Nat /\ SumOver(f, R) \in Nat
                         /\ \A x \in R : SumOver(f, R) = f[x] + SumOver(f, R \ {x})
  BY FS_Subset, FS_CardinalityType, SumSteps
<1>2. SUFFICES ASSUME Bad # {} PROVE FALSE
  <2>1. T \in SUBSET T /\ S \subseteq T
    OBVIOUS
  <2> QED BY <1>1, <2>1
<1>3. PICK n \in Bad : \A m \in Bad : ~(<<m, n>> \in OpToRel(<, Nat))
  <2>1. Bad \subseteq Nat
    OBVIOUS
  <2> HIDE DEF Bad
  <2> QED BY <1>2, <2>1, NatLessThanWellFounded, WFMin
<1>4. PICK R \in SUBSET T : /\ S \subseteq R /\ Cardinality(R) = n
                           /\ ~(SumOver(f, S) <= SumOver(f, R))
  OBVIOUS
<1>5. PICK x \in R : x \notin S
  <2>1. SumOver(f, S) <= SumOver(f, S)
    BY <1>1
  <2>2. R # S
    BY <1>4, <2>1
  <2> QED BY <1>4, <2>2
<1> DEFINE Q == R \ {x}
<1>6. Q \in SUBSET T /\ S \subseteq Q
  BY <1>4, <1>5
<1>7. Cardinality(Q) = n - 1 /\ Cardinality(Q) \in Nat /\ n \in Nat
  BY <1>1, <1>4, <1>5, <1>6, FS_RemoveElement
<1>8. SumOver(f, R) = f[x] + SumOver(f, Q) /\ f[x] \in Nat /\ SumOver(f, Q) \in Nat
  BY <1>1, <1>6
<1> HIDE DEF Q
<1>9. SumOver(f, S) <= SumOver(f, Q)
  <2>1. <<n - 1, n>> \in OpToRel(<, Nat)
    BY <1>7 DEF OpToRel
  <2>2. n - 1 \notin Bad
    BY <1>3, <2>1
  <2>3. n - 1 \in Nat
    BY <1>7
  <2> QED BY <1>6, <1>7, <2>2, <2>3
<1> QED BY <1>1, <1>4, <1>8, <1>9

-----------------------------------------------------------------------------
(* The loops of the simulator and of dag_metrics *)

\* What holds at the start and after every turn holds after all of them.
LEMMA TurnByTurn ==
  ASSUME NEW n \in Nat, NEW S, 0 \in S, \A k \in 1 .. n : k - 1 \in S => k \in S
  PROVE  \A k \in 0 .. n : k \in S
<1> DEFINE T == {k \in 0 .. n : k \notin S}
<1>1. SUFFICES ASSUME T # {} PROVE FALSE
  OBVIOUS
<1>2. PICK m \in T : \A k \in T : ~(<<k, m>> \in OpToRel(<, Nat))
  <2>1. T \subseteq Nat
    OBVIOUS
  <2> HIDE DEF T
  <2> QED BY <1>1, <2>1, NatLessThanWellFounded, WFMin
<1>3. m \in 1 .. n /\ m - 1 \in 0 .. n /\ m - 1 < m /\ m \notin S
  OBVIOUS
<1>4. <<m - 1, m>> \in OpToRel(<, Nat)
  BY <1>3 DEF OpToRel
<1>5. m - 1 \notin T
  BY <1>2, <1>4
<1> QED BY <1>3, <1>5

\* The loop over the nodes of the topology's array in one turn
TryStart(t, req, order, sampled, s, before, k) ==
    IF order[k] \in ReadyNodes(t, s) THEN StartNode(t, req, sampled, before, order[k]) ELSE before
IsStarting(f, n, t, req, order, sampled, s) ==
    f = [k \in 0 .. n |-> IF k = 0 THEN s ELSE TryStart(t, req, order, sampled, s, f[k - 1], k)]
\* ... is well defined, ...
LEMMA StartingExists ==
  ASSUME NEW n \in Nat, NEW t, NEW req, NEW order, NEW sampled, NEW s
  PROVE  \E f : IsStarting(f, n, t, req, order, sampled, s)
<1> DEFINE Done == {m \in Nat : \E f : IsStarting(f, m, t, req, order, sampled, s)}
<1>1. 0 \in Done
  <2> DEFINE f == [k \in 0 .. 0 |-> s]
  <2>1. f = [k \in 0 .. 0 |-> IF k = 0 THEN s ELSE TryStart(t, req, order, sampled, s, f[k - 1], k)]
    OBVIOUS
  <2>2. IsStarting(f, 0, t, req, order, sampled, s)
    BY <2>1 DEF IsStarting
  <2> QED BY <2>2
<1>2. ASSUME NEW m \in 1 .. n, m - 1 \in Done
      PROVE  m \in Done
  <2>1. PICK f : f = [k \in 0 .. m - 1 |-> IF k = 0 THEN s
                     ELSE TryStart(t, req, order, sampled, s, f[k - 1], k)]
    BY <1>2 DEF IsStarting
  <2> DEFINE g == [k \in 0 .. m |-> IF k = m THEN TryStart(t, req, order, sampled, s, f[m - 1], m) ELSE f[k]]
  <2>2. \A k \in 0 .. m : g[k] = IF k = 0 THEN s ELSE TryStart(t, req, order, sampled, s, g[k - 1], k)
    <3> TAKE k \in 0 .. m
    <3>1. CASE k = m
      <4>1. m - 1 \in 0 .. m /\ m - 1 # m /\ m # 0
        OBVIOUS
      <4> QED BY <3>1, <4>1
    <3>2. CASE k # m /\ k # 0
      <4>1. k \in 0 .. m - 1 /\ k - 1 \in 0 .. m /\ k - 1 # m
        BY <3>2
      <4>2. f[k] = TryStart(t, req, order, sampled, s, f[k - 1], k)
        BY <2>1, <3>2, <4>1
      <4> QED BY <3>2, <4>1, <4>2
    <3>3. CASE k # m /\ k = 0
      <4>1. 0 \in 0 .. m - 1
        OBVIOUS
      <4>2. f[0] = s
        BY <2>1, <4>1
      <4> QED BY <3>3, <4>2
    <3> QED BY <3>1, <3>2, <3>3
  <2>3. g = [k \in 0 .. m |-> IF k = 0 THEN s ELSE TryStart(t, req, order, sampled, s, g[k - 1], k)]
    BY <2>2
  <2> HIDE DEF g
  <2>4. IsStarting(g, m, t, req, order, sampled, s)
    BY <2>3 DEF IsStarting
  <2> QED BY <2>4
<1> HIDE DEF Done
<1>3. n \in Done
  BY <1>1, <1>2, TurnByTurn
<1> QED BY <1>3 DEF Done

\* ... and StartReady is where it ends.
LEMMA StartingSteps ==
  ASSUME NEW t, NEW req, NEW order, Len(order) \in Nat, NEW sampled, NEW s
  PROVE  \E f : /\ f[0] = s /\ StartReady(t, req, order, sampled, s) = f[Len(order)]
                /\ \A k \in 1 .. Len(order) :
                      f[k] = TryStart(t, req, order, sampled, s, f[k - 1], k)
<1> PICK n \in Nat : n = Len(order)
  OBVIOUS
<1> DEFINE f == CHOOSE g : IsStarting(g, n, t, req, order, sampled, s)
<1>1. StartReady(t, req, order, sampled, s) = f[n]
  BY DEF StartReady, IsStarting, TryStart
<1>2. IsStarting(f, n, t, req, order, sampled, s)
  BY StartingExists
<1> HIDE DEF f
<1>3. f[0] = s
  BY <1>2 DEF IsStarting
<1>4. \A k \in 1 .. n : f[k] = TryStart(t, req, order, sampled, s, f[k - 1], k)
  <2> TAKE k \in 1 .. n
  <2>1. k \in 0 .. n /\ k # 0
    OBVIOUS
  <2> QED BY <1>2, <2>1 DEF IsStarting
<1> QED BY <1>1, <1>3, <1>4

\* The loop over the turns
IsRun(f, n, t, req, order, sampled) ==
    f = [k \in 0 .. n |-> IF k = 0 THEN RunStart ELSE RunTurn(t, req, order, sampled, f[k - 1])]
\* ... is well defined, ...
LEMMA RunExists ==
  ASSUME NEW n \in Nat, NEW t, NEW req, NEW order, NEW sampled
  PROVE  \E f : IsRun(f, n, t, req, order, sampled)
<1> DEFINE Done == {m \in Nat : \E f : IsRun(f, m, t, req, order, sampled)}
<1>1. 0 \in Done
  <2> DEFINE f == [k \in 0 .. 0 |-> RunStart]
  <2>1. f = [k \in 0 .. 0 |-> IF k = 0 THEN RunStart ELSE RunTurn(t, req, order, sampled, f[k - 1])]
    OBVIOUS
  <2>2. IsRun(f, 0, t, req, order, sampled)
    BY <2>1 DEF IsRun
  <2> QED BY <2>2
<1>2. ASSUME NEW m \in 1 .. n, m - 1 \in Done
      PROVE  m \in Done
  <2>1. PICK f : f = [k \in 0 .. m - 1 |-> IF k = 0 THEN RunStart
                     ELSE RunTurn(t, req, order, sampled, f[k - 1])]
    BY <1>2 DEF IsRun
  <2> DEFINE g == [k \in 0 .. m |-> IF k = m THEN RunTurn(t, req, order, sampled, f[m - 1]) ELSE f[k]]
  <2>2. \A k \in 0 .. m : g[k] = IF k = 0 THEN RunStart ELSE RunTurn(t, req, order, sampled, g[k - 1])
    <3> TAKE k \in 0 .. m
    <3>1. CASE k = m
      <4>1. m - 1 \in 0 .. m /\ m - 1 # m /\ m # 0
        OBVIOUS
      <4> QED BY <3>1, <4>1
    <3>2. CASE k # m /\ k # 0
      <4>1. k \in 0 .. m - 1 /\ k - 1 \in 0 .. m /\ k - 1 # m
        BY <3>2
      <4>2. f[k] = RunTurn(t, req, order, sampled, f[k - 1])
        BY <2>1, <3>2, <4>1
      <4> QED BY <3>2, <4>1, <4>2
    <3>3. CASE k # m /\ k = 0
      <4>1. 0 \in 0 .. m - 1
        OBVIOUS
      <4>2. f[0] = RunStart
        BY <2>1, <4>1
      <4> QED BY <3>3, <4>2
    <3> QED BY <3>1, <3>2, <3>3
  <2>3. g = [k \in 0 .. m |-> IF k = 0 THEN RunStart ELSE RunTurn(t, req, order, sampled, g[k - 1])]
    BY <2>2
  <2> HIDE DEF g
  <2>4. IsRun(g, m, t, req, order, sampled)
    BY <2>3 DEF IsRun
  <2> QED BY <2>4
<1> HIDE DEF Done
<1>3. n \in Done
  BY <1>1, <1>2, TurnByTurn
<1> QED BY <1>3 DEF Done

\* ... and Run is where it ends.
LEMMA RunSteps ==
  ASSUME NEW t, IsFiniteSet(t.nodes), NEW req, NEW order, NEW sampled
  PROVE  \E f : /\ f[0] = RunStart /\ Run(t, req, order, sampled) = f[Cardinality(t.nodes)]
                /\ \A k \in 1 .. Cardinality(t.nodes) :
                      f[k] = RunTurn(t, req, order, sampled, f[k - 1])
<1> PICK n \in Nat : n = Cardinality(t.nodes)
  BY FS_CardinalityType
<1> DEFINE f == CHOOSE g : IsRun(g, n, t, req, order, sampled)
<1>1. Run(t, req, order, sampled) = f[n]
  BY DEF Run, IsRun
<1>2. IsRun(f, n, t, req, order, sampled)
  BY RunExists
<1> HIDE DEF f
<1>3. f[0] = RunStart
  BY <1>2 DEF IsRun
<1>4. \A k \in 1 .. n : f[k] = RunTurn(t, req, order, sampled, f[k - 1])
  <2> TAKE k \in 1 .. n
  <2>1. k \in 0 .. n /\ k # 0
    OBVIOUS
  <2> QED BY <1>2, <2>1 DEF IsRun
<1> QED BY <1>1, <1>3, <1>4

\* The levels of dag_metrics
NextLevel(t, S) == {id \in Ids(t.nodes) : \A e \in InEdges(t, id) : e.from \in S}
IsLevels(f, n, t) ==
    f = [k \in 0 .. n |-> IF k = 0 THEN {} ELSE NextLevel(t, f[k - 1])]
\* ... are well defined.
LEMMA LevelsExist ==
  ASSUME NEW n \in Nat, NEW t
  PROVE  \E f : IsLevels(f, n, t)
<1> DEFINE Done == {m \in Nat : \E f : IsLevels(f, m, t)}
<1>1. 0 \in Done
  <2> DEFINE f == [k \in 0 .. 0 |-> {}]
  <2>1. f = [k \in 0 .. 0 |-> IF k = 0 THEN {} ELSE NextLevel(t, f[k - 1])]
    OBVIOUS
  <2>2. IsLevels(f, 0, t)
    BY <2>1 DEF IsLevels
  <2> QED BY <2>2
<1>2. ASSUME NEW m \in 1 .. n, m - 1 \in Done
      PROVE  m \in Done
  <2>1. PICK f : f = [k \in 0 .. m - 1 |-> IF k = 0 THEN {} ELSE NextLevel(t, f[k - 1])]
    BY <1>2 DEF IsLevels
  <2> DEFINE g == [k \in 0 .. m |-> IF k = m THEN NextLevel(t, f[m - 1]) ELSE f[k]]
  <2>2. \A k \in 0 .. m : g[k] = IF k = 0 THEN {} ELSE NextLevel(t, g[k - 1])
    <3> TAKE k \in 0 .. m
    <3>1. CASE k = m
      <4>1. m - 1 \in 0 .. m /\ m - 1 # m /\ m # 0
        OBVIOUS
      <4> QED BY <3>1, <4>1
    <3>2. CASE k # m /\ k # 0
      <4>1. k \in 0 .. m - 1 /\ k - 1 \in 0 .. m /\ k - 1 # m
        BY <3>2
      <4>2. f[k] = NextLevel(t, f[k - 1])
        BY <2>1, <3>2, <4>1
      <4> QED BY <3>2, <4>1, <4>2
    <3>3. CASE k # m /\ k = 0
      <4>1. 0 \in 0 .. m - 1
        OBVIOUS
      <4>2. f[0] = {}
        BY <2>1, <4>1
      <4> QED BY <3>3, <4>2
    <3> QED BY <3>1, <3>2, <3>3
  <2>3. g = [k \in 0 .. m |-> IF k = 0 THEN {} ELSE NextLevel(t, g[k - 1])]
    BY <2>2
  <2> HIDE DEF g
  <2>4. IsLevels(g, m, t)
    BY <2>3 DEF IsLevels
  <2> QED BY <2>4
<1> HIDE DEF Done
<1>3. n \in Done
  BY <1>1, <1>2, TurnByTurn
<1> QED BY <1>3 DEF Done

\* Levels steps from level to level.
LEMMA LevelSteps ==
  ASSUME NEW t, IsFiniteSet(t.nodes)
  PROVE  /\ Levels(t)[0] = {}
         /\ \A k \in 1 .. Cardinality(t.nodes) : Levels(t)[k] = NextLevel(t, Levels(t)[k - 1])
<1> PICK n \in Nat : n = Cardinality(t.nodes)
  BY FS_CardinalityType
<1> DEFINE f == Levels(t)
<1>1. f = CHOOSE g : IsLevels(g, n, t)
  BY DEF Levels, IsLevels, NextLevel
<1> HIDE DEF f
<1>2. IsLevels(f, n, t)
  BY <1>1, LevelsExist
<1>3. f[0] = {}
  BY <1>2 DEF IsLevels
<1>4. \A k \in 1 .. n : f[k] = NextLevel(t, f[k - 1])
  <2> TAKE k \in 1 .. n
  <2>1. k \in 0 .. n /\ k # 0
    OBVIOUS
  <2> QED BY <1>2, <2>1 DEF IsLevels
<1> QED BY <1>3, <1>4 DEF f

-----------------------------------------------------------------------------
(* The state of a simulated run *)

ActiveNodes(s) == {a.node : a \in s.active}

\* The nodes that have started came after what they depend on, and each runs once.
InOrder(t, s) ==
    /\ DOMAIN s = {"active", "done", "now", "width", "waits"}
    /\ s.done \subseteq Ids(t.nodes)
    /\ \A a \in s.active : a.node \in Ids(t.nodes) \ s.done
    /\ \A a, b \in s.active : a.node = b.node => a = b
    /\ \A e \in Joined(t) : e.to \in s.done \cup ActiveNodes(s) => e.from \in s.done

\* The clock and the finish times lie between the chains and the sums of what ran.
InTime(t, cost, s) ==
    /\ s.now \in Nat /\ s.now <= SumOver(cost, s.done)
    /\ \A S \in Chains(t) : S \subseteq s.done => SumOver(cost, S) <= s.now
    /\ \A a \in s.active :
          /\ a.finish \in Nat /\ s.now <= a.finish
          /\ a.finish <= SumOver(cost, s.done \cup {a.node})
          /\ \A S \in Chains(t) : S \subseteq s.done \cup {a.node} => SumOver(cost, S) <= a.finish

\* The active nodes, now and at the widest moment, fit the request and the graph.
InWidth(t, req, s) ==
    /\ IsFiniteSet(s.active) /\ Cardinality(s.active) <= req.parallel
    /\ s.width \in Nat /\ s.width <= req.parallel
    /\ \E A \in Antichains(t) : Cardinality(A) = s.width

RunOK(t, req, cost, s) == InOrder(t, s) /\ InTime(t, cost, s) /\ InWidth(t, req, s)

\* What the simulator is given
IsInput(t, req, cost) ==
    /\ IsFiniteSet(t.nodes) /\ IsFiniteSet(Ids(t.nodes))
    /\ cost \in [Ids(t.nodes) -> Nat]
    /\ req.parallel \in Nat \ {0}
    /\ \A key \in DOMAIN req.capacity : req.capacity[key] \in Nat \ {0}

\* No path leads from an active node to another.
LEMMA ActiveNodesAreApart ==
  ASSUME NEW t, IsFiniteSet(t.nodes), NEW s, InOrder(t, s),
         NEW x \in ActiveNodes(s), NEW y \in ActiveNodes(s)
  PROVE  ~Reaches(t, x, y, Joined(t))
<1> SUFFICES ASSUME Reaches(t, x, y, Joined(t)) PROVE FALSE
  OBVIOUS
<1> PICK n \in Nat : n = Cardinality(t.nodes)
  BY FS_CardinalityType
<1>1. PICK e \in Joined(t) : e.to = y /\ e.from \in Seen(n, x, Joined(t))[n]
  BY DEF Reaches
<1>2. \A f \in Joined(t) : f.to \in s.done \cup ActiveNodes(s) => f.from \in s.done
  BY DEF InOrder
<1>3. x \notin s.done
  BY DEF InOrder, ActiveNodes
<1>4. Seen(n, x, Joined(t))[n] \cap s.done = {}
  BY <1>2, <1>3, SearchAvoidsWhatIsDone
<1> QED BY <1>1, <1>2, <1>4

\* The active nodes are an antichain of as many nodes.
LEMMA ActiveNodesAreAntichain ==
  ASSUME NEW t, IsFiniteSet(t.nodes), NEW s, InOrder(t, s), IsFiniteSet(s.active)
  PROVE  /\ ActiveNodes(s) \in Antichains(t)
         /\ IsFiniteSet(ActiveNodes(s)) /\ Cardinality(ActiveNodes(s)) = Cardinality(s.active)
<1>1. ActiveNodes(s) \subseteq Ids(t.nodes)
  BY DEF InOrder, ActiveNodes
<1>2. ActiveNodes(s) \in Antichains(t)
  BY <1>1, ActiveNodesAreApart DEF Antichains
<1> DEFINE f == [a \in s.active |-> a.node]
<1>3. f \in Surjection(s.active, ActiveNodes(s)) /\ f \in Injection(s.active, ActiveNodes(s))
  BY DEF InOrder, ActiveNodes, Injection, Surjection, IsInjective
<1> HIDE DEF f
<1>4. IsFiniteSet(ActiveNodes(s)) /\ Cardinality(ActiveNodes(s)) = Cardinality(s.active)
  BY <1>3, FS_Surjection
<1> QED BY <1>2, <1>4

\* A chain holds one active node at most.
LEMMA ChainsHoldOneActive ==
  ASSUME NEW t, IsFiniteSet(t.nodes), NEW s, InOrder(t, s), NEW S \in Chains(t),
         NEW x \in ActiveNodes(s), NEW y \in ActiveNodes(s), x \in S, y \in S
  PROVE  x = y
BY ActiveNodesAreApart DEF Chains

\* Parts of chains are chains.
LEMMA PartsOfChains ==
  ASSUME NEW t, NEW S \in Chains(t), NEW R \in SUBSET S
  PROVE  R \in Chains(t)
BY DEF Chains

\* Sums over sets of nodes
LEMMA NodeSums ==
  ASSUME NEW t, NEW req, NEW cost, IsInput(t, req, cost), NEW S \in SUBSET Ids(t.nodes)
  PROVE  /\ SumOver(cost, S) \in Nat
         /\ \A R \in SUBSET S : SumOver(cost, R) \in Nat /\ SumOver(cost, R) <= SumOver(cost, S)
         /\ \A x \in S : cost[x] \in Nat /\ SumOver(cost, S) = cost[x] + SumOver(cost, S \ {x})
         /\ S = {} => SumOver(cost, S) = 0
<1>1. IsFiniteSet(S) /\ \A x \in S : cost[x] \in Nat
  BY FS_Subset DEF IsInput
<1>2. \A R \in SUBSET S : SumOver(cost, R) \in Nat /\ SumOver(cost, R) <= SumOver(cost, S)
  BY <1>1, SumGrows
<1>3. /\ SumOver(cost, S) \in Nat /\ (S = {} => SumOver(cost, S) = 0)
      /\ \A x \in S : SumOver(cost, S) = cost[x] + SumOver(cost, S \ {x})
  BY <1>1, SumSteps
<1> QED BY <1>1, <1>2, <1>3

\* One more active node, whose predecessors are done, keeps the run in order, ...
LEMMA StartKeepsOrder ==
  ASSUME NEW t, NEW s, InOrder(t, s), NEW r,
         NEW id \in Ids(t.nodes) \ (s.done \cup ActiveNodes(s)),
         \A e \in InEdges(t, id) : e.from \in s.done,
         NEW a, a.node = id,
         DOMAIN r = DOMAIN s, r.done = s.done, r.active = s.active \cup {a}
  PROVE  InOrder(t, r) /\ ActiveNodes(r) = ActiveNodes(s) \cup {id}
<1>1. ActiveNodes(r) = ActiveNodes(s) \cup {id}
  BY DEF ActiveNodes
<1>2. \A e \in Joined(t) : e.to \in r.done \cup ActiveNodes(r) => e.from \in r.done
  BY <1>1 DEF InOrder, InEdges
<1>3. \A b \in r.active : b.node \in Ids(t.nodes) \ r.done
  BY DEF InOrder
<1>4. \A b, c \in r.active : b.node = c.node => b = c
  <2> SUFFICES ASSUME NEW b \in r.active, NEW c \in r.active, b.node = c.node PROVE b = c
    OBVIOUS
  <2>1. \A d \in s.active : d.node # id
    BY DEF ActiveNodes
  <2> QED BY <2>1 DEF InOrder
<1> QED BY <1>1, <1>2, <1>3, <1>4 DEF InOrder

\* ... and in time.
LEMMA StartKeepsTime ==
  ASSUME NEW t, NEW req, NEW cost, IsInput(t, req, cost), NEW s, InOrder(t, s), InTime(t, cost, s),
         NEW r, NEW id \in Ids(t.nodes) \ s.done,
         NEW a, a.node = id, a.finish = s.now + cost[id],
         r.now = s.now, r.done = s.done, r.active = s.active \cup {a}
  PROVE  InTime(t, cost, r)
<1> DEFINE D == s.done
           E == D \cup {id}
<1>1. D \in SUBSET Ids(t.nodes) /\ E \in SUBSET Ids(t.nodes) /\ id \in E /\ E \ {id} = D
  BY DEF InOrder
<1>2. /\ SumOver(cost, D) \in Nat /\ cost[id] \in Nat
      /\ SumOver(cost, E) = cost[id] + SumOver(cost, D)
  <2> HIDE DEF D, E
  <2>1. SumOver(cost, D) \in Nat
    BY <1>1, NodeSums
  <2>2. cost[id] \in Nat /\ SumOver(cost, E) = cost[id] + SumOver(cost, E \ {id})
    BY <1>1, NodeSums
  <2> QED BY <1>1, <2>1, <2>2
<1>3. s.now \in Nat /\ s.now <= SumOver(cost, D)
  BY DEF InTime
<1>4. a.finish \in Nat /\ r.now <= a.finish /\ a.finish <= SumOver(cost, E)
  BY <1>2, <1>3
<1>5. ASSUME NEW S \in Chains(t), S \subseteq E
      PROVE  SumOver(cost, S) <= a.finish
  <2>1. S \in SUBSET Ids(t.nodes)
    BY DEF Chains
  <2>2. CASE id \notin S
    <3>1. S \subseteq D
      BY <1>5, <2>2
    <3>2. SumOver(cost, S) <= s.now /\ SumOver(cost, S) \in Nat
      BY <2>1, <3>1, NodeSums DEF InTime
    <3> QED BY <1>2, <1>3, <3>2
  <2>3. CASE id \in S
    <3> DEFINE R == S \ {id}
    <3>1. R \subseteq D /\ R \in Chains(t) /\ R \in SUBSET Ids(t.nodes)
      BY <1>5, <2>1, PartsOfChains
    <3>2. SumOver(cost, S) = cost[id] + SumOver(cost, R)
      BY <2>1, <2>3, NodeSums
    <3> HIDE DEF R
    <3>3. SumOver(cost, R) <= s.now /\ SumOver(cost, R) \in Nat
      BY <3>1, NodeSums DEF InTime
    <3> QED BY <1>2, <1>3, <3>2, <3>3
  <2> QED BY <2>2, <2>3
<1>6. ASSUME NEW b \in r.active
      PROVE  /\ b.finish \in Nat /\ r.now <= b.finish
             /\ b.finish <= SumOver(cost, r.done \cup {b.node})
             /\ \A S \in Chains(t) : S \subseteq r.done \cup {b.node} => SumOver(cost, S) <= b.finish
  <2>1. CASE b = a
    BY <1>4, <1>5, <2>1
  <2>2. CASE b \in s.active
    BY <2>2 DEF InTime
  <2> QED BY <2>1, <2>2
<1>7. /\ r.now \in Nat /\ r.now <= SumOver(cost, r.done)
      /\ \A S \in Chains(t) : S \subseteq r.done => SumOver(cost, S) <= r.now
  BY DEF InTime
<1> QED BY <1>6, <1>7 DEF InTime

\* When an attempt to start a node is made, the run is unchanged but for waits, or the
\* node is active.
Unstarted(s, r) ==
    /\ DOMAIN r = DOMAIN s /\ r.active = s.active /\ r.done = s.done
    /\ r.now = s.now /\ r.width = s.width
Started(s, r, a) ==
    /\ DOMAIN r = DOMAIN s /\ r.active = s.active \cup {a} /\ r.done = s.done
    /\ r.now = s.now /\ r.width = Max({s.width, Cardinality(s.active \cup {a})})

\* StartNode does one of the two, and the first only when some node is active.
LEMMA StartNodeCases ==
  ASSUME NEW t, NEW req, NEW cost, IsInput(t, req, cost), NEW sampled,
         NEW s, InOrder(t, s), InWidth(t, req, s), NEW id,
         cost[id] \in Nat, s.now \in Nat,
         s.now + cost[id] = s.now + sampled[id].m["latency"] + req.penalty * Cardinality(InEdges(t, id))
  PROVE  LET r == StartNode(t, req, sampled, s, id)
             a == [node |-> id, finish |-> s.now + cost[id]]
         IN  \/ s.active # {} /\ Unstarted(s, r)
             \/ Cardinality(s.active) < req.parallel /\ Started(s, r, a)
<1> DEFINE keys == ResourceKeys(NodeOf(t, id))
           taken == \E k \in keys : Usage(t, s.active, k) >= Capacity(req, k)
           a == [node |-> id, finish |-> s.now + cost[id]]
           grown == s.active \cup {a}
           r == StartNode(t, req, sampled, s, id)
           c == Cardinality(s.active)
<1>1. r = CASE c >= req.parallel -> s
            [] c < req.parallel /\ taken -> [s EXCEPT !.waits = @ + 1]
            [] OTHER -> [s EXCEPT !.active = grown, !.width = Max({@, Cardinality(grown)})]
  BY DEF StartNode
<1>2. c \in Nat /\ req.parallel \in Nat \ {0} /\ (s.active = {} => c = 0)
  BY FS_CardinalityType, FS_EmptySet DEF InWidth, IsInput
<1>3. s.active = {} => ~taken
  <2> SUFFICES ASSUME s.active = {}, NEW k PROVE ~(Usage(t, s.active, k) >= Capacity(req, k))
    OBVIOUS
  <2>1. Usage(t, s.active, k) = 0
    BY FS_EmptySet DEF Usage
  <2>2. Capacity(req, k) \in Nat \ {0}
    BY DEF Capacity, IsInput
  <2> QED BY <2>1, <2>2
<1> HIDE DEF taken, grown, c, r
<1>4. DOMAIN s = {"active", "done", "now", "width", "waits"}
  BY DEF InOrder
<1>5. CASE c >= req.parallel
  <2>1. r = s
    BY <1>1, <1>2, <1>5
  <2>2. s.active # {}
    BY <1>2, <1>5
  <2> QED BY <2>1, <2>2 DEF Unstarted, r
<1>6. CASE c < req.parallel /\ taken
  <2>1. r = [s EXCEPT !.waits = @ + 1]
    BY <1>1, <1>2, <1>6
  <2>2. Unstarted(s, r)
    BY <1>4, <2>1 DEF Unstarted
  <2> QED BY <1>3, <1>6, <2>2 DEF r
<1>7. CASE c < req.parallel /\ ~taken
  <2>1. r = [s EXCEPT !.active = grown, !.width = Max({@, Cardinality(grown)})]
    BY <1>1, <1>2, <1>7
  <2>2. /\ DOMAIN r = DOMAIN s /\ r.active = grown /\ r.done = s.done /\ r.now = s.now
        /\ r.width = Max({s.width, Cardinality(grown)})
    BY <1>4, <2>1
  <2>3. Started(s, r, a)
    BY <2>2 DEF Started, grown
  <2> QED BY <1>7, <2>3 DEF r, c
<1> QED BY <1>2, <1>5, <1>6, <1>7

\* The larger of two numbers
LEMMA LargerOfTwo ==
  ASSUME NEW x \in Nat, NEW y \in Nat
  PROVE  Max({x, y}) = IF x >= y THEN x ELSE y
<1>1. Max({x, y}) = CHOOSE z \in {x, y} : \A w \in {x, y} : z >= w
  BY DEF Max
<1>2. CASE x >= y
  BY <1>1, <1>2
<1>3. CASE ~(x >= y)
  BY <1>1, <1>3
<1> QED BY <1>2, <1>3

\* The attempt to start a node that is ready keeps the run what it should be.
LEMMA StartNodeKeepsRun ==
  ASSUME NEW t, NEW req, NEW cost, IsInput(t, req, cost), NEW sampled,
         NEW s, RunOK(t, req, cost, s),
         NEW id \in Ids(t.nodes) \ (s.done \cup ActiveNodes(s)),
         \A e \in InEdges(t, id) : e.from \in s.done,
         s.now + cost[id] = s.now + sampled[id].m["latency"] + req.penalty * Cardinality(InEdges(t, id)),
         NEW r, r = StartNode(t, req, sampled, s, id)
  PROVE  /\ RunOK(t, req, cost, r) /\ r.done = s.done /\ r.now = s.now
         /\ ActiveNodes(r) \subseteq ActiveNodes(s) \cup {id}
         /\ s.active \subseteq r.active /\ r.active # {}
<1> DEFINE a == [node |-> id, finish |-> s.now + cost[id]]
<1>1. InOrder(t, s) /\ InTime(t, cost, s) /\ InWidth(t, req, s)
  BY DEF RunOK
<1>2. cost[id] \in Nat /\ s.now \in Nat
  BY <1>1 DEF IsInput, InTime
<1>3. \/ s.active # {} /\ Unstarted(s, r)
      \/ Cardinality(s.active) < req.parallel /\ Started(s, r, a)
  BY <1>1, <1>2, StartNodeCases
<1>4. a.node = id /\ a.finish = s.now + cost[id]
  OBVIOUS
<1> HIDE DEF a
<1>5. CASE s.active # {} /\ Unstarted(s, r)
  <2>1. InOrder(t, r) /\ ActiveNodes(r) = ActiveNodes(s)
    BY <1>1, <1>5 DEF InOrder, Unstarted, ActiveNodes
  <2>2. InTime(t, cost, r)
    BY <1>1, <1>5 DEF InTime, Unstarted
  <2>3. InWidth(t, req, r)
    BY <1>1, <1>5 DEF InWidth, Unstarted
  <2> QED BY <1>5, <2>1, <2>2, <2>3 DEF RunOK, Unstarted
<1>6. CASE Cardinality(s.active) < req.parallel /\ Started(s, r, a)
  <2>1. InOrder(t, r) /\ ActiveNodes(r) = ActiveNodes(s) \cup {id}
    BY <1>1, <1>4, <1>6, StartKeepsOrder DEF Started
  <2>2. InTime(t, cost, r)
    BY <1>1, <1>4, <1>6, StartKeepsTime DEF Started
  <2>3. IsFiniteSet(r.active) /\ Cardinality(r.active) <= req.parallel /\ Cardinality(r.active) \in Nat
    <3>1. IsFiniteSet(s.active) /\ req.parallel \in Nat
      BY <1>1 DEF InWidth, IsInput
    <3>2. PICK c \in Nat : c = Cardinality(s.active)
      BY <3>1, FS_CardinalityType
    <3>3. r.active = s.active \cup {a} /\ c < req.parallel
      BY <1>6, <3>2 DEF Started
    <3>4. /\ IsFiniteSet(r.active)
          /\ Cardinality(r.active) = IF a \in s.active THEN c ELSE c + 1
      <4> PICK A : A = s.active
        OBVIOUS
      <4>1. /\ IsFiniteSet(A \cup {a})
            /\ Cardinality(A \cup {a}) = IF a \in A THEN Cardinality(A) ELSE Cardinality(A) + 1
        BY <3>1, FS_AddElement
      <4> QED BY <3>2, <3>3, <4>1
    <3> QED BY <3>1, <3>3, <3>4
  <2>4. /\ ActiveNodes(r) \in Antichains(t)
        /\ Cardinality(ActiveNodes(r)) = Cardinality(r.active)
    BY <2>1, <2>3, ActiveNodesAreAntichain DEF IsInput
  <2>5. PICK c \in Nat : c = Cardinality(r.active)
    BY <2>3
  <2>6. s.width \in Nat /\ s.width <= req.parallel
        /\ \E A \in Antichains(t) : Cardinality(A) = s.width
    BY <1>1 DEF InWidth
  <2>7. r.width = Max({s.width, c})
    BY <1>6, <2>5 DEF Started
  <2>8. r.width = s.width \/ r.width = c
    BY <2>6, <2>7, LargerOfTwo
  <2>9. InWidth(t, req, r)
    BY <2>3, <2>4, <2>5, <2>6, <2>8 DEF InWidth
  <2> QED BY <1>6, <2>1, <2>2, <2>9 DEF RunOK, Started
<1> QED BY <1>3, <1>5, <1>6

\* A number of a set of numbers is the least.
LEMMA LeastOne ==
  ASSUME NEW S, S \subseteq Nat, S # {}
  PROVE  Min(S) \in S /\ \A i \in S : Min(S) <= i
<1>1. PICK m \in S : \A k \in S : ~(<<k, m>> \in OpToRel(<, Nat))
  BY NatLessThanWellFounded, WFMin
<1>2. \A k \in S : m <= k
  <2> TAKE k \in S
  <2>1. k \in Nat /\ m \in Nat
    OBVIOUS
  <2>2. ~(k < m)
    BY <1>1, <2>1 DEF OpToRel
  <2> QED BY <2>1, <2>2
<1>3. \E x \in S : \A y \in S : x <= y
  BY <1>2
<1> QED BY <1>3 DEF Min

\* What FinishNext does to a run that has active nodes
Finished(s, r, next) ==
    /\ DOMAIN r = DOMAIN s /\ r.now = next /\ r.width = s.width
    /\ next \in Nat /\ \E a \in s.active : a.finish = next
    /\ \A a \in s.active : next <= a.finish
    /\ r.active = {a \in s.active : a.finish # next}
    /\ r.done = s.done \cup {a.node : a \in {b \in s.active : b.finish = next}}

\* FinishNext does that.
LEMMA FinishNextSteps ==
  ASSUME NEW t, NEW cost, NEW s, InOrder(t, s), InTime(t, cost, s), s.active # {}
  PROVE  \E next : Finished(s, FinishNext(s), next)
<1> DEFINE times == {a.finish : a \in s.active}
           next == Min(times)
           finished == {a \in s.active : a.finish = next}
           r == FinishNext(s)
<1>1. times \subseteq Nat /\ times # {}
  BY DEF InTime
<1>2. next \in times /\ \A i \in times : next <= i
  <2> HIDE DEF times
  <2> QED BY <1>1, LeastOne
<1>3. r = [s EXCEPT !.now = next, !.active = @ \ finished,
                    !.done = @ \cup {a.node : a \in finished}]
  BY DEF FinishNext
<1>4. next \in Nat /\ (\E a \in s.active : a.finish = next) /\ \A a \in s.active : next <= a.finish
  BY <1>1, <1>2
<1> HIDE DEF next, r
<1>5. DOMAIN s = {"active", "done", "now", "width", "waits"}
  BY DEF InOrder
<1>6. /\ DOMAIN r = DOMAIN s /\ r.now = next /\ r.width = s.width
      /\ r.active = s.active \ finished /\ r.done = s.done \cup {a.node : a \in finished}
  BY <1>3, <1>5
<1>7. s.active \ finished = {a \in s.active : a.finish # next}
  OBVIOUS
<1>8. Finished(s, r, next)
  BY <1>4, <1>6, <1>7 DEF Finished
<1> QED BY <1>8 DEF r

\* Completing the nodes that finish first keeps the run in order, ...
LEMMA FinishKeepsOrder ==
  ASSUME NEW t, NEW s, InOrder(t, s), NEW r, NEW next, Finished(s, r, next)
  PROVE  InOrder(t, r)
<1> DEFINE F == {a.node : a \in {b \in s.active : b.finish = next}}
<1>1. /\ DOMAIN r = DOMAIN s /\ r.done = s.done \cup F
      /\ r.active = {a \in s.active : a.finish # next}
  BY DEF Finished
<1>2. F \subseteq ActiveNodes(s) /\ ActiveNodes(r) \subseteq ActiveNodes(s)
  BY <1>1 DEF ActiveNodes
<1>3. ASSUME NEW a \in r.active PROVE a.node \in Ids(t.nodes) \ r.done
  <2>1. a \in s.active /\ a.finish # next
    BY <1>1
  <2>2. a.node \notin F
    BY <2>1 DEF InOrder
  <2> QED BY <1>1, <2>1, <2>2 DEF InOrder
<1>4. r.done \subseteq Ids(t.nodes)
  BY <1>1 DEF InOrder
<1>5. \A e \in Joined(t) : e.to \in r.done \cup ActiveNodes(r) => e.from \in r.done
  <2> HIDE DEF F
  <2> QED BY <1>1, <1>2 DEF InOrder
<1>6. \A a, b \in r.active : a.node = b.node => a = b
  BY <1>1 DEF InOrder
<1> QED BY <1>1, <1>3, <1>4, <1>5, <1>6 DEF InOrder

\* ... and in time: a chain that is done, but for one node, holds one of them at most.
LEMMA FinishKeepsTime ==
  ASSUME NEW t, NEW req, NEW cost, IsInput(t, req, cost), NEW s, InOrder(t, s), InTime(t, cost, s),
         NEW r, NEW next, Finished(s, r, next)
  PROVE  InTime(t, cost, r)
<1> DEFINE F == {a.node : a \in {b \in s.active : b.finish = next}}
<1>1. /\ r.now = next /\ r.done = s.done \cup F /\ r.active = {a \in s.active : a.finish # next}
      /\ next \in Nat /\ \A a \in s.active : next <= a.finish
  BY DEF Finished
<1>2. PICK x \in s.active : x.finish = next
  BY DEF Finished
<1>3. r.done \in SUBSET Ids(t.nodes)
  BY FinishKeepsOrder DEF InOrder
<1>4. IsFiniteSet(t.nodes)
  BY DEF IsInput
<1>5. s.now \in Nat /\ s.now <= next
  BY <1>2 DEF InTime
\* whatever chain of what has started: it ends before each active node in it
<1>6. ASSUME NEW S \in Chains(t), S \subseteq s.done \cup ActiveNodes(s)
      PROVE  /\ SumOver(cost, S) \in Nat
             /\ \/ SumOver(cost, S) <= s.now
                \/ \E a \in s.active : a.node \in S /\ SumOver(cost, S) <= a.finish
  <2>1. S \in SUBSET Ids(t.nodes)
    BY DEF Chains
  <2>2. SumOver(cost, S) \in Nat
    BY <2>1, NodeSums
  <2>3. CASE S \subseteq s.done
    BY <2>2, <2>3 DEF InTime
  <2>4. CASE ~(S \subseteq s.done)
    <3>1. PICK y \in S : y \in ActiveNodes(s) /\ y \notin s.done
      BY <1>6, <2>4
    <3>2. PICK a \in s.active : a.node = y
      BY <3>1 DEF ActiveNodes
    <3>3. S \subseteq s.done \cup {a.node}
      BY <1>4, <1>6, <3>1, <3>2, ChainsHoldOneActive
    <3>4. SumOver(cost, S) <= a.finish
      BY <3>3 DEF InTime
    <3> QED BY <2>2, <3>2, <3>4
  <2> QED BY <2>3, <2>4
<1>7. F \subseteq ActiveNodes(s)
  BY DEF ActiveNodes
<1>8. ASSUME NEW S \in Chains(t), S \subseteq r.done
      PROVE  SumOver(cost, S) <= r.now
  <2>1. S \subseteq s.done \cup ActiveNodes(s)
    BY <1>1, <1>7, <1>8
  <2>2. SumOver(cost, S) \in Nat
    BY <1>6, <2>1
  <2>3. CASE SumOver(cost, S) <= s.now
    BY <1>1, <1>5, <2>2, <2>3
  <2>4. ASSUME NEW a \in s.active, a.node \in S, SumOver(cost, S) <= a.finish
        PROVE  SumOver(cost, S) <= r.now
    <3>1. a.node \in F
      BY <1>1, <1>8, <2>4 DEF InOrder
    <3>2. PICK b \in s.active : b.finish = next /\ b.node = a.node
      BY <3>1
    <3>3. a = b
      BY <3>2 DEF InOrder
    <3> QED BY <1>1, <2>4, <3>2, <3>3
  <2> QED BY <1>6, <2>1, <2>3, <2>4
<1>9. r.now <= SumOver(cost, r.done)
  <2>1. x.node \in F
    BY <1>2
  <2>2. s.done \cup {x.node} \in SUBSET r.done
    BY <1>1, <2>1
  <2> PICK R : R = s.done \cup {x.node}
    OBVIOUS
  <2>3. R \in SUBSET r.done
    BY <2>2
  <2>4. SumOver(cost, R) \in Nat /\ SumOver(cost, R) <= SumOver(cost, r.done)
        /\ SumOver(cost, r.done) \in Nat
    BY <1>3, <2>3, NodeSums
  <2>5. next <= SumOver(cost, R)
    BY <1>2 DEF InTime
  <2> QED BY <1>1, <2>4, <2>5
<1>10. ASSUME NEW b \in r.active
       PROVE  /\ b.finish \in Nat /\ r.now <= b.finish
              /\ b.finish <= SumOver(cost, r.done \cup {b.node})
              /\ \A S \in Chains(t) : S \subseteq r.done \cup {b.node} => SumOver(cost, S) <= b.finish
  <2>1. b \in s.active /\ b.finish \in Nat /\ next <= b.finish
    BY <1>1 DEF InTime
  <2>2. b.finish <= SumOver(cost, r.done \cup {b.node})
    <3> PICK R, T : R = s.done \cup {b.node} /\ T = r.done \cup {b.node}
      OBVIOUS
    <3>1. R \in SUBSET T /\ T \in SUBSET Ids(t.nodes)
      BY <1>1, <1>3, <2>1 DEF InOrder
    <3>2. SumOver(cost, R) \in Nat /\ SumOver(cost, R) <= SumOver(cost, T) /\ SumOver(cost, T) \in Nat
      BY <3>1, NodeSums
    <3>3. b.finish <= SumOver(cost, R)
      BY <2>1 DEF InTime
    <3> QED BY <2>1, <3>2, <3>3
  <2>3. ASSUME NEW S \in Chains(t), S \subseteq r.done \cup {b.node}
        PROVE  SumOver(cost, S) <= b.finish
    <3>1. S \subseteq s.done \cup ActiveNodes(s)
      BY <1>1, <1>7, <2>1, <2>3 DEF ActiveNodes
    <3>2. SumOver(cost, S) \in Nat
      BY <1>6, <3>1
    <3>3. CASE SumOver(cost, S) <= s.now
      BY <1>1, <1>5, <2>1, <3>2, <3>3
    <3>4. ASSUME NEW a \in s.active, a.node \in S, SumOver(cost, S) <= a.finish
          PROVE  SumOver(cost, S) <= b.finish
      <4>1. CASE a.node = b.node
        <5>1. a = b
          BY <2>1, <4>1 DEF InOrder
        <5> QED BY <3>4, <5>1
      <4>2. CASE a.node # b.node
        <5>1. a.node \in F
          BY <1>1, <2>3, <3>4, <4>2 DEF InOrder
        <5>2. PICK c \in s.active : c.finish = next /\ c.node = a.node
          BY <5>1
        <5>3. a = c
          BY <5>2 DEF InOrder
        <5> QED BY <1>1, <2>1, <3>2, <3>4, <5>2, <5>3
      <4> QED BY <4>1, <4>2
    <3> QED BY <1>6, <3>1, <3>3, <3>4
  <2> QED BY <1>1, <2>1, <2>2, <2>3
<1> HIDE DEF F
<1> QED BY <1>1, <1>8, <1>9, <1>10 DEF InTime

\* One turn's end keeps the run what it should be and completes a node.
LEMMA FinishNextKeepsRun ==
  ASSUME NEW t, NEW req, NEW cost, IsInput(t, req, cost), NEW s, RunOK(t, req, cost, s),
         s.active # {}, NEW r, r = FinishNext(s)
  PROVE  /\ RunOK(t, req, cost, r)
         /\ s.done \subseteq r.done /\ s.done # r.done
<1>1. InOrder(t, s) /\ InTime(t, cost, s) /\ InWidth(t, req, s)
  BY DEF RunOK
<1>2. PICK next : Finished(s, r, next)
  BY <1>1, FinishNextSteps
<1>3. InOrder(t, r) /\ InTime(t, cost, r)
  BY <1>1, <1>2, FinishKeepsOrder, FinishKeepsTime
<1>4. InWidth(t, req, r)
  <2>1. r.active \in SUBSET s.active /\ r.width = s.width
    BY <1>2 DEF Finished
  <2>2. IsFiniteSet(s.active) /\ Cardinality(s.active) <= req.parallel /\ req.parallel \in Nat
    BY <1>1 DEF InWidth, IsInput
  <2> PICK A, B : A = s.active /\ B = r.active
    OBVIOUS
  <2>3. IsFiniteSet(B) /\ Cardinality(B) <= Cardinality(A) /\ Cardinality(A) \in Nat
        /\ Cardinality(B) \in Nat
    BY <2>1, <2>2, FS_Subset, FS_CardinalityType
  <2>4. Cardinality(r.active) <= req.parallel
    BY <2>2, <2>3
  <2> QED BY <1>1, <2>1, <2>3, <2>4 DEF InWidth
<1>5. s.done \subseteq r.done /\ s.done # r.done
  <2>1. PICK a \in s.active : a.finish = next
    BY <1>2 DEF Finished
  <2>2. a.node \in r.done /\ s.done \subseteq r.done
    BY <1>2, <2>1 DEF Finished
  <2>3. a.node \notin s.done
    BY <1>1 DEF InOrder
  <2> QED BY <2>2, <2>3
<1> QED BY <1>3, <1>4, <1>5 DEF RunOK

\* An acyclic topology that is not done has a node whose predecessors all are.
LEMMA SomeNodeIsNext ==
  ASSUME NEW t, IsFiniteSet(t.nodes), Acyclic(t), NEW done \in SUBSET Ids(t.nodes),
         done # Ids(t.nodes)
  PROVE  \E id \in Ids(t.nodes) \ done : \A e \in InEdges(t, id) : e.from \in done
<1> SUFFICES ASSUME \A id \in NextLevel(t, done) : id \in done PROVE FALSE
  BY DEF NextLevel
<1> PICK n \in Nat : n = Cardinality(t.nodes)
  BY FS_CardinalityType
<1> DEFINE f == Levels(t)
           K == {k \in 0 .. n : f[k] \subseteq done}
<1>1. f[0] = {} /\ \A k \in 1 .. n : f[k] = NextLevel(t, f[k - 1])
  BY LevelSteps
<1>2. f[n] = Ids(t.nodes)
  BY DEF Acyclic
<1> HIDE DEF f
<1>3. 0 \in K
  BY <1>1
<1>4. ASSUME NEW k \in 1 .. n, k - 1 \in K PROVE k \in K
  <2>1. f[k - 1] \subseteq done /\ f[k] = NextLevel(t, f[k - 1])
    BY <1>1, <1>4
  <2>2. f[k] \subseteq NextLevel(t, done)
    BY <2>1 DEF NextLevel
  <2> QED BY <2>2
<1>5. n \in K
  <2> HIDE DEF K
  <2> QED BY <1>3, <1>4, TurnByTurn
<1> QED BY <1>2, <1>5

\* The samples and the costs of the nodes, and the order of the array
IsSampled(t, req, cost, sampled) ==
    \A id \in Ids(t.nodes), now \in Nat :
        now + cost[id] = now + sampled[id].m["latency"] + req.penalty * Cardinality(InEdges(t, id))
IsOrder(t, order) ==
    /\ Len(order) \in Nat
    /\ \A k \in 1 .. Len(order) : order[k] \in Ids(t.nodes)
    /\ \A j, k \in 1 .. Len(order) : j # k => order[j] # order[k]
    /\ \A id \in Ids(t.nodes) : \E k \in 1 .. Len(order) : order[k] = id

\* A turn's start, after the first k nodes of the array
Starting(t, req, cost, order, s, r, k) ==
    /\ RunOK(t, req, cost, r) /\ r.done = s.done /\ r.now = s.now
    /\ s.active \subseteq r.active
    /\ ActiveNodes(r) \subseteq ActiveNodes(s) \cup {order[i] : i \in 1 .. k}
    /\ \A i \in 1 .. k : order[i] \in ReadyNodes(t, s) => r.active # {}

\* The next node of the array keeps it.
LEMMA TryStartKeepsRun ==
  ASSUME NEW t, NEW req, NEW cost, IsInput(t, req, cost), NEW sampled,
         IsSampled(t, req, cost, sampled), NEW order, IsOrder(t, order),
         NEW s, NEW k \in 1 .. Len(order), NEW before,
         Starting(t, req, cost, order, s, before, k - 1),
         NEW r, r = TryStart(t, req, order, sampled, s, before, k)
  PROVE  Starting(t, req, cost, order, s, r, k)
<1> DEFINE I == {order[i] : i \in 1 .. k - 1}
           J == {order[i] : i \in 1 .. k}
<1>0. Len(order) \in Nat /\ order[k] \in Ids(t.nodes)
  BY DEF IsOrder
<1>1. /\ RunOK(t, req, cost, before) /\ before.done = s.done /\ before.now = s.now
      /\ s.active \subseteq before.active /\ ActiveNodes(before) \subseteq ActiveNodes(s) \cup I
      /\ \A i \in 1 .. k - 1 : order[i] \in ReadyNodes(t, s) => before.active # {}
  BY DEF Starting
<1>2. I \subseteq J /\ order[k] \in J
  BY <1>0
<1>3. order[k] \notin I
  BY <1>0 DEF IsOrder
<1>4. \A i \in 1 .. k : i = k \/ i \in 1 .. k - 1
  BY <1>0
<1>5. CASE order[k] \notin ReadyNodes(t, s)
  <2>1. r = before
    BY <1>5 DEF TryStart
  <2>2. ActiveNodes(r) \subseteq ActiveNodes(s) \cup J
    BY <1>1, <1>2, <2>1
  <2>3. \A i \in 1 .. k : order[i] \in ReadyNodes(t, s) => r.active # {}
    BY <1>1, <1>4, <1>5, <2>1
  <2> QED BY <1>1, <2>1, <2>2, <2>3 DEF Starting
<1>6. CASE order[k] \in ReadyNodes(t, s)
  <2> PICK id : id = order[k]
    OBVIOUS
  <2>1. /\ id \in Ids(t.nodes) \ (s.done \cup ActiveNodes(s))
        /\ \A e \in InEdges(t, id) : e.from \in s.done
    BY <1>6 DEF ReadyNodes, ActiveNodes
  <2>2. r = StartNode(t, req, sampled, before, id)
    BY <1>6 DEF TryStart
  <2>3. id \notin ActiveNodes(before)
    <3> HIDE DEF I
    <3> QED BY <1>1, <1>3, <2>1
  <2>4. before.now \in Nat
    BY <1>1 DEF RunOK, InTime
  <2>5. before.now + cost[id] = before.now + sampled[id].m["latency"]
                                + req.penalty * Cardinality(InEdges(t, id))
    BY <2>1, <2>4 DEF IsSampled
  <2>6. /\ RunOK(t, req, cost, r) /\ r.done = before.done /\ r.now = before.now
        /\ ActiveNodes(r) \subseteq ActiveNodes(before) \cup {id}
        /\ before.active \subseteq r.active /\ r.active # {}
    BY <1>1, <2>1, <2>2, <2>3, <2>5, StartNodeKeepsRun
  <2>7. ActiveNodes(r) \subseteq ActiveNodes(s) \cup J
    <3> HIDE DEF I, J
    <3> QED BY <1>1, <1>2, <2>6
  <2> QED BY <1>1, <2>6, <2>7 DEF Starting
<1> QED BY <1>5, <1>6

\* After a turn's start some node is active.
LEMMA StartReadyKeepsRun ==
  ASSUME NEW t, NEW req, NEW cost, IsInput(t, req, cost), Acyclic(t), NEW sampled,
         IsSampled(t, req, cost, sampled), NEW order, IsOrder(t, order),
         NEW s, RunOK(t, req, cost, s), s.done # Ids(t.nodes),
         NEW r, r = StartReady(t, req, order, sampled, s)
  PROVE  RunOK(t, req, cost, r) /\ r.done = s.done /\ r.active # {}
<1> PICK n \in Nat : n = Len(order)
  BY DEF IsOrder
<1>1. PICK f : /\ f[0] = s /\ r = f[n]
               /\ \A k \in 1 .. n : f[k] = TryStart(t, req, order, sampled, s, f[k - 1], k)
  BY StartingSteps
<1> DEFINE K == {k \in 0 .. n : Starting(t, req, cost, order, s, f[k], k)}
<1>2. 0 \in K
  BY <1>1 DEF Starting
<1>3. ASSUME NEW k \in 1 .. n, k - 1 \in K PROVE k \in K
  BY <1>1, <1>3, TryStartKeepsRun
<1>4. n \in K
  <2>1. \A k \in 1 .. n : k - 1 \in K => k \in K
    BY <1>3
  <2> HIDE DEF K
  <2>2. \A k \in 0 .. n : k \in K
    BY <1>2, <2>1, TurnByTurn
  <2> QED BY <2>2
<1>5. Starting(t, req, cost, order, s, r, n)
  BY <1>1, <1>4
<1>6. r.active # {}
  <2>1. CASE s.active # {}
    BY <1>5, <2>1 DEF Starting
  <2>2. CASE s.active = {}
    <3>1. s.done \in SUBSET Ids(t.nodes) /\ IsFiniteSet(t.nodes)
      BY DEF RunOK, InOrder, IsInput
    <3>2. PICK id \in Ids(t.nodes) \ s.done : \A e \in InEdges(t, id) : e.from \in s.done
      BY <3>1, SomeNodeIsNext
    <3>3. id \in ReadyNodes(t, s)
      BY <2>2, <3>2 DEF ReadyNodes
    <3>4. PICK i \in 1 .. n : order[i] = id
      BY DEF IsOrder
    <3> QED BY <1>5, <3>3, <3>4 DEF Starting
  <2> QED BY <2>1, <2>2
<1> QED BY <1>5, <1>6 DEF Starting

\* Every turn of the loop completes a node, and none is left when it ends.
LEMMA RunFinishes ==
  ASSUME NEW t, NEW req, NEW cost, IsInput(t, req, cost), Acyclic(t), NEW sampled,
         IsSampled(t, req, cost, sampled), NEW order, IsOrder(t, order),
         NEW s, s = Run(t, req, order, sampled)
  PROVE  RunOK(t, req, cost, s) /\ s.done = Ids(t.nodes)
<1>1. IsFiniteSet(t.nodes) /\ IsFiniteSet(Ids(t.nodes))
  BY DEF IsInput
<1> PICK n \in Nat : n = Cardinality(t.nodes)
  BY <1>1, FS_CardinalityType
<1>2. PICK f : /\ f[0] = RunStart /\ s = f[n]
               /\ \A k \in 1 .. n : f[k] = RunTurn(t, req, order, sampled, f[k - 1])
  BY <1>1, RunSteps
<1> DEFINE K == {k \in 0 .. n : /\ RunOK(t, req, cost, f[k])
                                /\ f[k].done = Ids(t.nodes) \/ Cardinality(f[k].done) >= k}
<1>3. 0 \in K
  <2> PICK z : z = RunStart
    OBVIOUS
  <2>1. /\ DOMAIN z = {"active", "done", "now", "width", "waits"}
        /\ z.active = {} /\ z.done = {} /\ z.now = 0 /\ z.width = 0
    BY DEF RunStart
  <2>2. Cardinality({}) = 0 /\ IsFiniteSet({})
    BY FS_EmptySet
  <2>3. {} \in Antichains(t)
    BY DEF Antichains
  <2>4. \A S \in Chains(t) : S \subseteq {} => SumOver(cost, S) <= 0
    <3> SUFFICES SumOver(cost, {}) <= 0
      OBVIOUS
    <3>1. {} \in SUBSET Ids(t.nodes)
      OBVIOUS
    <3> QED BY <3>1, NodeSums
  <2>5. SumOver(cost, {}) = 0
    <3>1. {} \in SUBSET Ids(t.nodes)
      OBVIOUS
    <3> QED BY <3>1, NodeSums
  <2>6. InOrder(t, z)
    BY <2>1 DEF InOrder, ActiveNodes
  <2>7. InTime(t, cost, z)
    BY <2>1, <2>4, <2>5 DEF InTime
  <2>8. InWidth(t, req, z)
    BY <2>1, <2>2, <2>3 DEF InWidth, IsInput
  <2>9. Cardinality(z.done) >= 0
    BY <2>1, <2>2
  <2> QED BY <1>2, <2>6, <2>7, <2>8, <2>9 DEF RunOK
<1>4. ASSUME NEW k \in 1 .. n, k - 1 \in K PROVE k \in K
  <2> PICK b, r : b = f[k - 1] /\ r = f[k]
    OBVIOUS
  <2>1. /\ RunOK(t, req, cost, b) /\ r = RunTurn(t, req, order, sampled, b)
        /\ b.done = Ids(t.nodes) \/ Cardinality(b.done) >= k - 1
    BY <1>2, <1>4
  <2>2. CASE b.done = Ids(t.nodes)
    <3>1. r = b
      BY <2>1, <2>2 DEF RunTurn
    <3>2. RunOK(t, req, cost, f[k]) /\ f[k].done = Ids(t.nodes)
      BY <2>1, <2>2, <3>1
    <3> QED BY <3>2
  <2>3. CASE b.done # Ids(t.nodes)
    <3> PICK q : q = StartReady(t, req, order, sampled, b)
      OBVIOUS
    <3>1. RunOK(t, req, cost, q) /\ q.done = b.done /\ q.active # {}
      BY <2>1, <2>3, StartReadyKeepsRun
    <3>2. r = FinishNext(q)
      BY <2>1, <2>3 DEF RunTurn
    <3>3. RunOK(t, req, cost, r) /\ b.done \subseteq r.done /\ b.done # r.done
      BY <3>1, <3>2, FinishNextKeepsRun
    <3> PICK B, R : B = b.done /\ R = r.done
      OBVIOUS
    <3>4. R \in SUBSET Ids(t.nodes) /\ B \in SUBSET R
      BY <3>3 DEF RunOK, InOrder
    <3>5. IsFiniteSet(R) /\ IsFiniteSet(B)
      BY <1>1, <3>4, FS_Subset
    <3>6. Cardinality(B) <= Cardinality(R) /\ Cardinality(B) # Cardinality(R)
      BY <3>3, <3>4, <3>5, FS_Subset
    <3>7. Cardinality(B) \in Nat /\ Cardinality(R) \in Nat
      BY <3>5, FS_CardinalityType
    <3>8. Cardinality(R) >= k
      BY <2>1, <2>3, <3>6, <3>7
    <3> QED BY <3>3, <3>8
  <2> QED BY <2>2, <2>3
<1>5. n \in K
  <2>1. \A k \in 1 .. n : k - 1 \in K => k \in K
    BY <1>4
  <2> HIDE DEF K
  <2>2. \A k \in 0 .. n : k \in K
    BY <1>3, <2>1, TurnByTurn
  <2> QED BY <2>2
<1>6. RunOK(t, req, cost, s) /\ (s.done = Ids(t.nodes) \/ Cardinality(s.done) >= n)
  BY <1>2, <1>5
<1>7. ASSUME Cardinality(s.done) >= n PROVE s.done = Ids(t.nodes)
  <2> PICK D, I : D = s.done /\ I = Ids(t.nodes)
    OBVIOUS
  <2>1. D \in SUBSET I /\ IsFiniteSet(I)
    BY <1>1, <1>6 DEF RunOK, InOrder
  <2>2. Cardinality(I) <= n
    <3> DEFINE g == [z \in t.nodes |-> z.id]
    <3>1. g \in Surjection(t.nodes, I)
      BY DEF Surjection, Ids
    <3> HIDE DEF g
    <3> QED BY <1>1, <3>1, FS_Surjection
  <2>3. Cardinality(D) <= Cardinality(I) /\ Cardinality(D) \in Nat /\ Cardinality(I) \in Nat
    BY <2>1, FS_Subset, FS_CardinalityType
  <2>4. Cardinality(D) = Cardinality(I)
    BY <1>7, <2>2, <2>3
  <2> QED BY <2>1, <2>4, FS_Subset
<1> QED BY <1>6, <1>7

-----------------------------------------------------------------------------
(* Requests and samples *)

\* A request without findings has a limit, attempts and iterations, and capacities.
LEMMA CheckedRequest ==
  ASSUME NEW req, RequestFindings(req) = {}
  PROVE  /\ req.iterations \in 1 .. MaxIterations /\ req.parallel # 0
         /\ req.attempts \in 1 .. MaxAttempts /\ 0 \notin Range(req.capacity)
<1> DEFINE f == [iterations_out_of_bounds |-> req.iterations \notin 1..MaxIterations,
           zero_parallelism |-> req.parallel = 0,
           retry_attempts_out_of_bounds |-> req.attempts \notin 1..MaxAttempts,
           invalid_resource_capacity |-> 0 \in Range(req.capacity),
           ambiguous_calibration_selector |->
              \E c \in req.calib : (c.node = None) = (c.class = None),
           duplicate_calibration_selector |->
              \E c, d \in req.calib : c # d /\ c.node = d.node /\ c.class = d.class,
           invalid_failure_probability |-> \E c \in req.calib : c.fail \notin 0..10000 \cup {None},
           duplicate_route_id |-> ~UniqueIds(req.routes),
           invalid_range |->
              \/ \E r \in Range(req.bounds) : BadRange(r)
              \/ \E c \in req.calib, m \in Metrics : BadRange(c.m[m])
              \/ \E r \in req.routes, m \in {"latency", "cost"} : BadRange(r.m[m])]
<1>1. Codes(f) = {}
  BY DEF RequestFindings
<1>2. {"iterations_out_of_bounds", "zero_parallelism", "retry_attempts_out_of_bounds",
       "invalid_resource_capacity"} \subseteq DOMAIN f
  OBVIOUS
<1>3. /\ f["iterations_out_of_bounds"] = (req.iterations \notin 1..MaxIterations)
      /\ f["zero_parallelism"] = (req.parallel = 0)
      /\ f["retry_attempts_out_of_bounds"] = (req.attempts \notin 1..MaxAttempts)
      /\ f["invalid_resource_capacity"] = (0 \in Range(req.capacity))
  OBVIOUS
<1> HIDE DEF f
<1>4. /\ ~f["iterations_out_of_bounds"] /\ ~f["zero_parallelism"]
      /\ ~f["retry_attempts_out_of_bounds"] /\ ~f["invalid_resource_capacity"]
  BY <1>1, <1>2 DEF Codes
<1> QED BY <1>3, <1>4

\* Whatever is drawn from a range of counts is a count.
LEMMA SamplesOfRange ==
  ASSUME NEW r, IsRange(r), NEW x \in Sample(r)
  PROVE  x \in Nat
BY DEF IsRange, Sample

\* The range a node's latency is drawn from is one.
LEMMA ResolvedIsRange ==
  ASSUME NEW req \in SimulationRequests, NEW n \in req.topology.nodes
  PROVE  IsRange(Resolved(req, n, "latency"))
<1> DEFINE own == {c \in OwnCalibration(req, n) : c.m["latency"] # None}
           class == {c \in ClassCalibration(req, n) : c.m["latency"] # None}
           res == Resolved(req, n, "latency")
<1>1. \A c \in own \cup class : IsRange(c.m["latency"])
  BY SimulationsAreCounts DEF OwnCalibration, ClassCalibration, Metrics
<1>2. n.dur # None => n.dur \in Nat
  BY SimulationsAreCounts
<1>3. res = CASE own # {} -> (CHOOSE c \in own : TRUE).m["latency"]
              [] own = {} /\ class # {} -> (CHOOSE c \in class : TRUE).m["latency"]
              [] own = {} /\ class = {} /\ "latency" = "latency" /\ n.dur # None -> <<n.dur, n.dur>>
              [] OTHER -> None
  BY DEF Resolved
<1> HIDE DEF own, class, res
<1>4. CASE own # {}
  <2>1. res = (CHOOSE c \in own : TRUE).m["latency"] /\ (CHOOSE c \in own : TRUE) \in own
    BY <1>3, <1>4
  <2> QED BY <1>1, <2>1 DEF res
<1>5. CASE own = {} /\ class # {}
  <2>1. res = (CHOOSE c \in class : TRUE).m["latency"] /\ (CHOOSE c \in class : TRUE) \in class
    BY <1>3, <1>5
  <2> QED BY <1>1, <2>1 DEF res
<1>6. CASE own = {} /\ class = {} /\ n.dur # None
  <2>1. res = <<n.dur, n.dur>>
    BY <1>3, <1>6
  <2> QED BY <1>2, <1>6, <2>1 DEF res, IsRange
<1>7. CASE own = {} /\ class = {} /\ n.dur = None
  <2>1. res = None
    BY <1>3, <1>7
  <2> QED BY <2>1 DEF res, IsRange
<1> QED BY <1>4, <1>5, <1>6, <1>7

\* What one iteration samples for a node is a count.
LEMMA SampledLatency ==
  ASSUME NEW req \in SimulationRequests, req.attempts \in Nat,
         NEW n \in req.topology.nodes, NEW x \in SampledNodes(req, n)
  PROVE  x.m["latency"] \in Nat
<1> DEFINE values == {f \in [Metrics -> UNION {Sample(Resolved(req, n, m)) : m \in Metrics}] :
                         \A m \in Metrics : f[m] \in Sample(Resolved(req, n, m))}
           drawn == [tried : Attempts(req, n), times : Expansions(req, n), value : values]
<1>0. PICK d \in drawn :
         x = [failed |-> d.tried.failed,
              m |-> [metric \in Metrics |-> d.value[metric] * d.tried.attempts * d.times]]
  BY DEF SampledNodes
<1>1. x.m = [metric \in Metrics |-> d.value[metric] * d.tried.attempts * d.times]
  BY <1>0
<1>2. d.tried \in Attempts(req, n) /\ d.times \in Expansions(req, n) /\ d.value \in values
  OBVIOUS
<1>3. "latency" \in Metrics
  BY DEF Metrics
<1>4. d.value["latency"] \in Nat
  <2>1. d.value["latency"] \in Sample(Resolved(req, n, "latency"))
    BY <1>2, <1>3
  <2> QED BY <2>1, ResolvedIsRange, SamplesOfRange
<1>5. d.tried.attempts \in Nat
  BY <1>2 DEF Attempts
<1>6. d.times \in Nat
  <2> PICK p : p = n.pol["expansion"]
    OBVIOUS
  <2>1. CASE p \notin DOMAIN req.bounds
    BY <1>2, <2>1 DEF Expansions
  <2>2. CASE p \in DOMAIN req.bounds
    <3>1. PICK e \in Sample(req.bounds[p]) : d.times = Max({1, e})
      BY <1>2, <2>2 DEF Expansions
    <3>2. e \in Nat
      BY <2>2, SimulationsAreCounts, SamplesOfRange
    <3> QED BY <3>1, <3>2, LargerOfTwo
  <2> QED BY <2>1, <2>2
<1>7. x.m["latency"] = d.value["latency"] * d.tried.attempts * d.times
  BY <1>1, <1>3
<1> HIDE DEF drawn, values
<1>8. ASSUME NEW i \in Nat, NEW j \in Nat, NEW k \in Nat PROVE i * j * k \in Nat
  OBVIOUS
<1> QED BY <1>4, <1>5, <1>6, <1>7, <1>8

\* An order of the node array names every node once.
LEMMA OrdersNameNodes ==
  ASSUME NEW t, IsFiniteSet(Ids(t.nodes)), NEW order \in SetToSeqs(Ids(t.nodes))
  PROVE  IsOrder(t, order)
<1> PICK S : S = Ids(t.nodes)
  OBVIOUS
<1> PICK n \in Nat : n = Cardinality(S)
  BY FS_CardinalityType
<1>1. order \in [1 .. n -> S] /\ \A i, j \in 1 .. n : i # j => order[i] # order[j]
  BY DEF SetToSeqs
<1>2. Len(order) = n
  BY <1>1
<1>3. order \in Injection(1 .. n, S)
  BY <1>1 DEF Injection, IsInjective
<1>4. Cardinality(1 .. n) = n
  <2>1. 1 \in Int /\ n \in Int
    OBVIOUS
  <2>2. Cardinality(1 .. n) = IF 1 > n THEN 0 ELSE n - 1 + 1
    BY <2>1, FS_Interval
  <2> QED BY <2>2
<1>5. order \in Surjection(1 .. n, S)
  BY <1>3, <1>4, FS_Injection
<1>6. \A id \in S : \E k \in 1 .. n : order[k] = id
  BY <1>5 DEF Surjection
<1> QED BY <1>1, <1>2, <1>6 DEF IsOrder

-----------------------------------------------------------------------------
(* Summaries *)

\* Numbers below a bound have a largest one.
LEMMA LargestOne ==
  ASSUME NEW S, S \subseteq Nat, S # {}, NEW b \in Nat, \A i \in S : i <= b
  PROVE  Max(S) \in S /\ \A i \in S : i <= Max(S)
<1>1. S \subseteq 0 .. b
  OBVIOUS
<1> QED BY <1>1, LastPosition

\* As many numbers as are counted have a bound.
LEMMA ListsAreBounded ==
  ASSUME NEW n \in Nat, NEW f, \A i \in 1 .. n : f[i] \in Nat
  PROVE  \E b \in Nat : \A i \in 1 .. n : f[i] <= b
<1> DEFINE K == {k \in 0 .. n : \E b \in Nat : \A i \in 1 .. k : f[i] <= b}
<1>1. 0 \in K
  OBVIOUS
<1>2. ASSUME NEW k \in 1 .. n, k - 1 \in K PROVE k \in K
  <2>1. PICK b \in Nat : \A i \in 1 .. k - 1 : f[i] <= b
    BY <1>2
  <2>2. f[k] \in Nat /\ b + f[k] \in Nat
    OBVIOUS
  <2>3. \A i \in 1 .. k : f[i] <= b + f[k]
    <3> TAKE i \in 1 .. k
    <3>1. i \in 1 .. n /\ f[i] \in Nat
      OBVIOUS
    <3>2. CASE i = k
      BY <2>2, <3>2
    <3>3. CASE i # k
      <4>1. i \in 1 .. k - 1
        BY <3>3
      <4>2. f[i] <= b
        BY <2>1, <4>1
      <4> QED BY <2>2, <3>1, <4>2
    <3> QED BY <3>2, <3>3
  <2> QED BY <2>2, <2>3
<1>3. \A k \in 1 .. n : k - 1 \in K => k \in K
  BY <1>2
<1>4. n \in K
  <2> HIDE DEF K
  <2>1. \A k \in 0 .. n : k \in K
    BY <1>1, <1>3, TurnByTurn
  <2> QED BY <2>1
<1> QED BY <1>4

\* One position less
LEMMA OneLess ==
  ASSUME NEW n \in Nat, NEW i \in 1 .. n
  PROVE  IsFiniteSet((1 .. n) \ {i}) /\ Cardinality((1 .. n) \ {i}) = n - 1
<1>1. IsFiniteSet(1 .. n) /\ Cardinality(1 .. n) = n
  <2>1. 1 \in Int /\ n \in Int
    OBVIOUS
  <2>2. IsFiniteSet(1 .. n) /\ Cardinality(1 .. n) = IF 1 > n THEN 0 ELSE n - 1 + 1
    BY <2>1, FS_Interval
  <2> QED BY <2>2
<1> PICK N : N = 1 .. n
  OBVIOUS
<1>2. IsFiniteSet(N) /\ Cardinality(N) = n /\ i \in N
  BY <1>1
<1>3. IsFiniteSet(N \ {i}) /\ Cardinality(N \ {i}) = Cardinality(N) - 1
  BY <1>2, FS_RemoveElement
<1> QED BY <1>2, <1>3

\* The first and the last of the samples in their order are samples, and none is
\* above the last.
LEMMA RankedSamples ==
  ASSUME NEW n \in Nat \ {0}, NEW f \in [1 .. n -> Nat]
  PROVE  /\ Ranked(f, 1) \in Range(f) /\ Ranked(f, n) \in Range(f)
         /\ \A i \in 1 .. n : f[i] <= Ranked(f, n)
<1> DEFINE Below(v) == {i \in 1 .. n : f[i] < v}
           UpToV(v) == {i \in 1 .. n : f[i] <= v}
           IsRank(v, k) == Cardinality(Below(v)) < k /\ k <= Cardinality(UpToV(v))
<1>1. Range(f) \subseteq Nat /\ Range(f) # {} /\ \A v \in Range(f) : \E i \in 1 .. n : f[i] = v
  <2>1. f[1] \in Range(f)
    BY DEF Range
  <2> QED BY <2>1 DEF Range
<1>2. \A i \in 1 .. n : f[i] \in Range(f)
  BY DEF Range
<1>3. \A k : Ranked(f, k) = CHOOSE v \in Range(f) : IsRank(v, k)
  BY DEF Ranked
<1>4. IsFiniteSet(1 .. n) /\ Cardinality(1 .. n) = n
  <2>1. 1 \in Int /\ n \in Int
    OBVIOUS
  <2>2. IsFiniteSet(1 .. n) /\ Cardinality(1 .. n) = IF 1 > n THEN 0 ELSE n - 1 + 1
    BY <2>1, FS_Interval
  <2> QED BY <2>2
<1>5. \E v \in Range(f) : IsRank(v, 1)
  <2> PICK v : v = Min(Range(f))
    OBVIOUS
  <2>1. v \in Range(f) /\ \A w \in Range(f) : v <= w
    BY <1>1, LeastOne
  <2>2. Below(v) = {}
    BY <1>1, <1>2, <2>1
  <2>3. PICK i \in 1 .. n : f[i] = v
    BY <1>1, <2>1
  <2>4. i \in UpToV(v) /\ UpToV(v) \in SUBSET (1 .. n)
    BY <1>1, <2>1, <2>3
  <2>5. Cardinality(Below(v)) = 0
    BY <2>2, FS_EmptySet
  <2>6. 1 <= Cardinality(UpToV(v))
    <3> PICK U : U = UpToV(v)
      OBVIOUS
    <3>1. IsFiniteSet(U) /\ U # {}
      BY <1>4, <2>4, FS_Subset
    <3>2. Cardinality(U) \in Nat /\ Cardinality(U) # 0
      BY <3>1, FS_CardinalityType, FS_EmptySet
    <3> QED BY <3>2
  <2> HIDE DEF Below, UpToV
  <2> QED BY <2>1, <2>5, <2>6
<1>6. \E v \in Range(f) : IsRank(v, n)
  <2>1. PICK b \in Nat : \A i \in 1 .. n : f[i] <= b
    BY ListsAreBounded
  <2> PICK v : v = Max(Range(f))
    OBVIOUS
  <2>2. \A w \in Range(f) : w <= b
    BY <1>1, <2>1
  <2>3. v \in Range(f) /\ \A w \in Range(f) : w <= v
    BY <1>1, <2>2, LargestOne
  <2>4. UpToV(v) = 1 .. n
    BY <1>2, <2>3
  <2>5. PICK i \in 1 .. n : f[i] = v
    BY <1>1, <2>3
  <2>6. Below(v) \in SUBSET ((1 .. n) \ {i})
    BY <1>1, <2>3, <2>5
  <2>7. Cardinality(Below(v)) < n
    <3> PICK B, N : B = Below(v) /\ N = 1 .. n
      OBVIOUS
    <3>1. IsFiniteSet(N \ {i}) /\ Cardinality(N \ {i}) = n - 1
      BY OneLess
    <3>2. B \in SUBSET (N \ {i})
      BY <2>6
    <3>3. IsFiniteSet(B) /\ Cardinality(B) <= n - 1
      BY <3>1, <3>2, FS_Subset
    <3>4. Cardinality(B) \in Nat
      BY <3>3, FS_CardinalityType
    <3> QED BY <3>3, <3>4
  <2>8. n <= Cardinality(UpToV(v))
    <3>1. Cardinality(UpToV(v)) = n
      BY <1>4, <2>4
    <3> HIDE DEF UpToV
    <3> QED BY <3>1
  <2> HIDE DEF Below, UpToV
  <2> QED BY <2>3, <2>7, <2>8
<1> HIDE DEF IsRank
<1>7. Ranked(f, 1) \in Range(f)
  BY <1>3, <1>5
<1>8. Ranked(f, n) \in Range(f) /\ IsRank(Ranked(f, n), n)
  BY <1>3, <1>6
<1>9. ASSUME NEW i \in 1 .. n PROVE f[i] <= Ranked(f, n)
  <2> PICK U, N : U = UpToV(Ranked(f, n)) /\ N = 1 .. n
    OBVIOUS
  <2>1. U \in SUBSET N /\ n <= Cardinality(U)
    BY <1>8 DEF IsRank
  <2>2. IsFiniteSet(U) /\ Cardinality(U) <= n /\ (Cardinality(N) = Cardinality(U) => N = U)
    <3>1. IsFiniteSet(N) /\ Cardinality(N) = n
      BY <1>4
    <3>2. IsFiniteSet(U) /\ Cardinality(U) <= Cardinality(N)
          /\ (Cardinality(N) = Cardinality(U) => N = U)
      BY <2>1, <3>1, FS_Subset
    <3> QED BY <3>1, <3>2
  <2>3. Cardinality(U) \in Nat
    BY <2>2, FS_CardinalityType
  <2>4. Cardinality(U) = Cardinality(N)
    BY <1>4, <2>1, <2>2, <2>3
  <2>5. i \in U
    BY <2>2, <2>4
  <2> QED BY <2>5
<1> QED BY <1>7, <1>8, <1>9

-----------------------------------------------------------------------------
(* The report of a simulation *)

\* One run, between its longest chain and the sum of all its nodes
RunFits(t, req, cost, s) ==
    LET chain == Max({SumOver(cost, S) : S \in Chains(t)})
    IN  /\ s.now \in Nat /\ chain \in Nat /\ chain <= s.now
        /\ SumOver(cost, Ids(t.nodes)) \in Nat /\ s.now <= SumOver(cost, Ids(t.nodes))
        /\ s.width \in Nat /\ s.width <= req.parallel
        /\ \E A \in Antichains(t) : Cardinality(A) = s.width

\* Every run of a checked request on a linted topology fits.
LEMMA SimulatedRunFits ==
  ASSUME NEW req \in SimulationRequests, NEW t, t = req.topology,
         SimulationFindings(t, req) = {}, NEW sampled \in IterationSamples(t, req),
         NEW order \in SetToSeqs(Ids(t.nodes))
  PROVE  RunFits(t, req, CostOf(t, req, sampled), Run(t, req, order, sampled))
<1> PICK cost : cost = CostOf(t, req, sampled)
  OBVIOUS
<1> PICK s : s = Run(t, req, order, sampled)
  OBVIOUS
<1>1. RequestFindings(req) = {} /\ LintErrors(t) = {}
  BY DEF SimulationFindings
<1>2. UniqueIds(t.nodes) /\ Acyclic(t)
  BY <1>1, LintedTopology
<1>3. IsFiniteSet(t.nodes) /\ IsFiniteSet(t.edges) /\ req.penalty \in Nat /\ req.parallel \in Nat
  BY SimulationsAreCounts
<1>4. req.attempts \in Nat /\ req.parallel # 0 /\ 0 \notin Range(req.capacity)
  BY <1>1, CheckedRequest DEF MaxAttempts
<1>5. IsFiniteSet(Ids(t.nodes))
  <2> DEFINE g == [z \in t.nodes |-> z.id]
  <2>1. g \in Surjection(t.nodes, Ids(t.nodes))
    BY DEF Surjection, Ids
  <2> HIDE DEF g
  <2> QED BY <1>3, <2>1, FS_Surjection
<1>6. ASSUME NEW id \in Ids(t.nodes)
      PROVE  /\ sampled[id].m["latency"] \in Nat
             /\ req.penalty * Cardinality(InEdges(t, id)) \in Nat
  <2>1. NodeOf(t, id) \in t.nodes
    BY DEF NodeOf, Ids
  <2>2. sampled[id] \in SampledNodes(req, NodeOf(t, id))
    BY DEF IterationSamples
  <2>3. sampled[id].m["latency"] \in Nat
    BY <1>4, <2>1, <2>2, SampledLatency
  <2>4. InEdges(t, id) \in SUBSET t.edges
    BY DEF InEdges, Joined
  <2>5. PICK c \in Nat : c = Cardinality(InEdges(t, id))
    BY <1>3, <2>4, FS_Subset, FS_CardinalityType
  <2>6. req.penalty * c \in Nat
    BY <1>3
  <2> QED BY <2>3, <2>5, <2>6
<1>7. \A id \in Ids(t.nodes) :
         cost[id] = sampled[id].m["latency"] + req.penalty * Cardinality(InEdges(t, id))
  BY DEF CostOf
<1>8. cost \in [Ids(t.nodes) -> Nat]
  <2>1. \A id \in Ids(t.nodes) : cost[id] \in Nat
    BY <1>6, <1>7
  <2>2. cost = [id \in Ids(t.nodes) |-> cost[id]]
    BY DEF CostOf
  <2> QED BY <2>1, <2>2
<1>9. IsSampled(t, req, cost, sampled)
  <2> SUFFICES ASSUME NEW id \in Ids(t.nodes), NEW now \in Nat
               PROVE  now + cost[id] = now + sampled[id].m["latency"]
                                       + req.penalty * Cardinality(InEdges(t, id))
    BY DEF IsSampled
  <2> PICK x \in Nat : x = sampled[id].m["latency"]
    BY <1>6
  <2> PICK y \in Nat : y = req.penalty * Cardinality(InEdges(t, id))
    BY <1>6
  <2>1. cost[id] = x + y
    BY <1>7
  <2> QED BY <2>1
<1>10. IsInput(t, req, cost)
  <2>1. \A key \in DOMAIN req.capacity : req.capacity[key] \in Nat \ {0}
    BY <1>4, SimulationsAreCounts DEF Range
  <2> QED BY <1>3, <1>4, <1>5, <1>8, <2>1 DEF IsInput
<1>11. IsOrder(t, order)
  BY <1>5, OrdersNameNodes
<1>12. RunOK(t, req, cost, s) /\ s.done = Ids(t.nodes)
  BY <1>2, <1>9, <1>10, <1>11, RunFinishes
<1>13. InTime(t, cost, s) /\ InWidth(t, req, s)
  BY <1>12 DEF RunOK
<1> DEFINE C == {SumOver(cost, S) : S \in Chains(t)}
<1>14. /\ s.now \in Nat /\ s.now <= SumOver(cost, Ids(t.nodes))
       /\ \A S \in Chains(t) : SumOver(cost, S) <= s.now
  BY <1>12, <1>13 DEF InTime, Chains
<1>15. SumOver(cost, Ids(t.nodes)) \in Nat /\ \A S \in Chains(t) : SumOver(cost, S) \in Nat
  <2>1. Ids(t.nodes) \in SUBSET Ids(t.nodes) /\ \A S \in Chains(t) : S \in SUBSET Ids(t.nodes)
    BY DEF Chains
  <2> QED BY <1>10, <2>1, NodeSums
<1>16. C \subseteq Nat /\ C # {} /\ \A i \in C : i <= s.now
  <2>1. {} \in Chains(t)
    BY DEF Chains
  <2> QED BY <1>14, <1>15, <2>1
<1>17. Max(C) \in Nat /\ Max(C) <= s.now
  <2> HIDE DEF C
  <2>1. Max(C) \in C
    BY <1>14, <1>16, LargestOne
  <2> QED BY <1>16, <2>1
<1>18. s.width \in Nat /\ s.width <= req.parallel /\ \E A \in Antichains(t) : Cardinality(A) = s.width
  BY <1>13 DEF InWidth
<1>19. RunFits(t, req, cost, s)
  BY <1>14, <1>15, <1>17, <1>18 DEF RunFits
<1> QED BY <1>19

\* What the report says of the clock and of the width
Clocks(t, req, order, samples) == [i \in DOMAIN samples |-> Run(t, req, order, samples[i]).now]
Widths(t, req, order, samples) == {Run(t, req, order, samples[i]).width : i \in DOMAIN samples}
\* SimulationReport is made of them.
LEMMA ReportSays ==
  ASSUME NEW t, NEW req, NEW order, NEW samples,
         NEW report, report = SimulationReport(t, req, order, samples)
  PROVE  /\ report.topology = t
         /\ report.summary["latency"]
               = Summarize(IF ~Known(t, req, "latency") THEN <<>> ELSE Clocks(t, req, order, samples))
         /\ report.parallelism
               = IF Known(t, req, "latency") THEN Max(Widths(t, req, order, samples)) ELSE 0
<1> DEFINE runs == [i \in DOMAIN samples |-> Run(t, req, order, samples[i])]
           nows == Clocks(t, req, order, samples)
           widths == Widths(t, req, order, samples)
<1>1. DOMAIN runs = DOMAIN samples /\ \A i \in DOMAIN samples : runs[i] = Run(t, req, order, samples[i])
  OBVIOUS
<1>2. "latency" \in Metrics
  BY DEF Metrics
<1>3. report.topology = t
  BY DEF SimulationReport
<1>4. report.summary["latency"]
         = Summarize(IF ~Known(t, req, "latency") THEN <<>> ELSE [i \in DOMAIN samples |-> runs[i].now])
  BY <1>2 DEF SimulationReport
<1>5. report.parallelism = IF Known(t, req, "latency")
                           THEN Max({runs[i].width : i \in DOMAIN runs}) ELSE 0
  BY DEF SimulationReport
<1>6. [i \in DOMAIN samples |-> runs[i].now] = nows /\ {runs[i].width : i \in DOMAIN runs} = widths
  BY DEF Clocks, Widths
<1> HIDE DEF runs
<1>7. /\ report.summary["latency"] = Summarize(IF ~Known(t, req, "latency") THEN <<>> ELSE nows)
      /\ report.parallelism = IF Known(t, req, "latency") THEN Max(widths) ELSE 0
  BY <1>4, <1>5, <1>6
<1> QED BY <1>3, <1>7

\* The longest chain of a run, and all its nodes
ChainOf(t, req, sampled) == Max({SumOver(CostOf(t, req, sampled), S) : S \in Chains(t)})
AllOf(t, req, sampled) == SumOver(CostOf(t, req, sampled), Ids(t.nodes))

\* What is reported about the runs of a simulation, for each of which RunFits holds
LEMMA SimulationFits ==
  ASSUME Simulation
  PROVE  SimulationFitsTheGraph'
<1>1. PICK req \in SimulationRequests : SimulateExecutionTopology(req.topology, req)
  BY DEF Simulation
<1> PICK t : t = req.topology
  OBVIOUS
<1>2. PICK samples \in [1 .. req.iterations -> IterationSamples(t, req)],
           order \in SetToSeqs(Ids(t.nodes)) :
        reply' = Reply("simulation", [request |-> req, samples |-> samples,
                                      report |-> SimulationReport(t, req, order, samples)])
  BY <1>1 DEF SimulateExecutionTopology
<1>3. SimulationFindings(t, req) = {}
  BY <1>1 DEF SimulateExecutionTopology
<1>4. PICK n \in Nat \ {0} : n = req.iterations
  <2>1. RequestFindings(req) = {}
    BY <1>3 DEF SimulationFindings
  <2>2. req.iterations \in 1 .. MaxIterations
    BY <2>1, CheckedRequest
  <2>3. PICK k \in Nat : k = MaxIterations
    BY DEF MaxIterations
  <2>4. req.iterations \in 1 .. k
    BY <2>2, <2>3
  <2>5. req.iterations \in Nat \ {0}
    BY <2>4
  <2> QED BY <2>5
<1> PICK v : v = reply'.value
  OBVIOUS
<1>5. v.request = req /\ v.samples = samples /\ v.report = SimulationReport(t, req, order, samples)
  BY <1>2 DEF Reply
<1> PICK report : report = v.report
  OBVIOUS
<1> PICK f : f = [i \in 1 .. n |-> Run(t, req, order, samples[i])]
  OBVIOUS
<1> PICK chain, all : /\ chain = [i \in 1 .. n |-> ChainOf(t, req, samples[i])]
                      /\ all = [i \in 1 .. n |-> AllOf(t, req, samples[i])]
  OBVIOUS
<1>6. DOMAIN samples = 1 .. n /\ \A i \in 1 .. n : samples[i] \in IterationSamples(t, req)
  BY <1>4
<1>7. ASSUME NEW i \in 1 .. n
      PROVE  /\ f[i].now \in Nat /\ chain[i] \in Nat /\ all[i] \in Nat
             /\ chain[i] <= f[i].now /\ f[i].now <= all[i]
             /\ f[i].width \in Nat /\ f[i].width <= req.parallel
             /\ \E A \in Antichains(t) : Cardinality(A) = f[i].width
  <2>1. RunFits(t, req, CostOf(t, req, samples[i]), Run(t, req, order, samples[i]))
    BY <1>3, <1>6, SimulatedRunFits
  <2>2. chain[i] = ChainOf(t, req, samples[i]) /\ all[i] = AllOf(t, req, samples[i])
        /\ f[i] = Run(t, req, order, samples[i])
    OBVIOUS
  <2> QED BY <2>1, <2>2 DEF RunFits, ChainOf, AllOf
<1> PICK nows, widths : nows = [i \in 1 .. n |-> f[i].now] /\ widths = {f[i].width : i \in 1 .. n}
  OBVIOUS
<1>8. /\ report.topology = t
      /\ report.summary["latency"] = Summarize(IF ~Known(t, req, "latency") THEN <<>> ELSE nows)
      /\ report.parallelism = IF Known(t, req, "latency") THEN Max(widths) ELSE 0
  <2>1. nows = [i \in 1 .. n |-> Run(t, req, order, samples[i]).now]
        /\ widths = {Run(t, req, order, samples[i]).width : i \in 1 .. n}
    OBVIOUS
  <2>2. nows = Clocks(t, req, order, samples) /\ widths = Widths(t, req, order, samples)
    BY <1>6, <2>1 DEF Clocks, Widths
  <2>3. report = SimulationReport(t, req, order, samples)
    BY <1>5
  <2>4. /\ report.topology = t
        /\ report.summary["latency"]
              = Summarize(IF ~Known(t, req, "latency") THEN <<>> ELSE Clocks(t, req, order, samples))
        /\ report.parallelism
              = IF Known(t, req, "latency") THEN Max(Widths(t, req, order, samples)) ELSE 0
    BY <2>3, ReportSays
  <2> QED BY <2>2, <2>4
<1>9. nows \in [1 .. n -> Nat]
  BY <1>7
\* the clock
<1>10. ASSUME report.summary["latency"] # None
       PROVE  /\ report.summary["latency"].maximum >= Max({chain[i] : i \in 1 .. n})
              /\ report.summary["latency"].minimum >= Min({chain[i] : i \in 1 .. n})
              /\ report.summary["latency"].maximum <= Max({all[i] : i \in 1 .. n})
  <2>1. report.summary["latency"] = Summarize(nows) /\ nows # <<>>
    BY <1>8, <1>10 DEF Summarize
  <2>2. Len(nows) = n
    BY <1>9
  <2> PICK hi, lo : hi = Ranked(nows, n) /\ lo = Ranked(nows, 1)
    OBVIOUS
  <2>3. report.summary["latency"].maximum = hi /\ report.summary["latency"].minimum = lo
    <3> PICK sum : sum = Summarize(nows)
      OBVIOUS
    <3>1. sum = [minimum |-> lo, p50 |-> Ranked(nows, (Len(nows) - 1) \div 2 + 1), maximum |-> hi]
      BY <2>1, <2>2 DEF Summarize
    <3>2. sum.maximum = hi /\ sum.minimum = lo
      BY <3>1
    <3> QED BY <2>1, <3>2
  <2>4. lo \in Range(nows) /\ hi \in Range(nows) /\ \A i \in 1 .. n : nows[i] <= hi
    BY <1>9, RankedSamples
  <2>5. PICK j \in 1 .. n : hi = nows[j]
    BY <1>9, <2>4 DEF Range
  <2>6. PICK k \in 1 .. n : lo = nows[k]
    BY <1>9, <2>4 DEF Range
  <2>7. hi \in Nat /\ lo \in Nat
    BY <1>9, <2>5, <2>6
  <2> PICK C, L : C = {chain[i] : i \in 1 .. n} /\ L = {all[i] : i \in 1 .. n}
    OBVIOUS
  <2>8. C \subseteq Nat /\ L \subseteq Nat /\ C # {} /\ chain[k] \in C /\ all[j] \in L
    <3>1. \A i \in 1 .. n : chain[i] \in Nat /\ all[i] \in Nat
      BY <1>7
    <3>2. C \subseteq Nat /\ L \subseteq Nat
      BY <3>1
    <3>3. chain[k] \in C /\ all[j] \in L
      OBVIOUS
    <3> QED BY <3>2, <3>3
  <2>9. \A i \in C : i <= hi
    <3> SUFFICES ASSUME NEW i \in 1 .. n PROVE chain[i] <= hi
      OBVIOUS
    <3>1. chain[i] <= nows[i] /\ nows[i] <= hi /\ nows[i] \in Nat /\ chain[i] \in Nat
      BY <1>7, <1>9, <2>4
    <3> QED BY <2>7, <3>1
  <2>10. Max(C) \in Nat /\ Max(C) <= hi
    <3>1. Max(C) \in C
      BY <2>7, <2>8, <2>9, LargestOne
    <3> QED BY <2>8, <2>9, <3>1
  <2>11. Min(C) \in Nat /\ Min(C) <= lo
    <3>1. Min(C) \in C /\ Min(C) <= chain[k]
      BY <2>8, LeastOne
    <3>2. chain[k] <= lo /\ chain[k] \in Nat
      BY <1>7, <1>9, <2>6
    <3>3. PICK least \in Nat : least = Min(C)
      BY <2>8, <3>1
    <3> QED BY <2>7, <3>1, <3>2, <3>3
  <2>12. Max(L) \in Nat /\ hi <= Max(L)
    <3>1. PICK b \in Nat : \A i \in 1 .. n : all[i] <= b
      <4>1. \A i \in 1 .. n : all[i] \in Nat
        BY <1>7
      <4> QED BY <4>1, ListsAreBounded
    <3>2. Max(L) \in L /\ all[j] <= Max(L)
      <4>1. \A i \in L : i <= b
        BY <3>1
      <4>2. L # {}
        BY <2>8
      <4> QED BY <2>8, <4>1, <4>2, LargestOne
    <3>3. hi <= all[j] /\ all[j] \in Nat
      BY <1>7, <1>9, <2>5
    <3>4. PICK most \in Nat : most = Max(L)
      BY <2>8, <3>2
    <3> QED BY <2>7, <3>2, <3>3, <3>4
  <2> QED BY <2>3, <2>7, <2>10, <2>11, <2>12
\* the width
<1> PICK P, W : P = report.parallelism /\ W = {Cardinality(S) : S \in Antichains(t)}
  OBVIOUS
<1>11. req.parallel \in Nat /\ IsFiniteSet(t.nodes)
  BY SimulationsAreCounts
<1>12. IsFiniteSet(Ids(t.nodes))
  <2> DEFINE g == [z \in t.nodes |-> z.id]
  <2>1. g \in Surjection(t.nodes, Ids(t.nodes))
    BY DEF Surjection, Ids
  <2> HIDE DEF g
  <2> QED BY <1>11, <2>1, FS_Surjection
<1>13. P \in Nat /\ P <= req.parallel /\ P \in W
  <2>1. CASE ~Known(t, req, "latency")
    <3>1. P = 0
      BY <1>8, <2>1
    <3>2. {} \in Antichains(t) /\ Cardinality({}) = 0
      BY FS_EmptySet DEF Antichains
    <3> QED BY <1>11, <3>1, <3>2
  <2>2. CASE Known(t, req, "latency")
    <3>1. P = Max(widths)
      BY <1>8, <2>2
    <3>2. widths \subseteq Nat /\ widths # {} /\ \A w \in widths : w <= req.parallel
      <4>1. 1 \in 1 .. n
        OBVIOUS
      <4> QED BY <1>7, <4>1
    <3>3. P \in widths
      BY <1>11, <3>1, <3>2, LargestOne
    <3>4. PICK i \in 1 .. n : P = f[i].width
      BY <3>3
    <3> QED BY <1>7, <3>4
  <2> QED BY <2>1, <2>2
<1>14. P <= Max(W)
  <2> PICK I : I = Ids(t.nodes)
    OBVIOUS
  <2>1. \A S \in Antichains(t) : S \in SUBSET I
    BY DEF Antichains
  <2>2. Cardinality(I) \in Nat /\ \A S \in Antichains(t) :
            Cardinality(S) \in Nat /\ Cardinality(S) <= Cardinality(I)
    BY <1>12, <2>1, FS_Subset, FS_CardinalityType
  <2>3. W \subseteq Nat /\ W # {} /\ \A w \in W : w <= Cardinality(I)
    BY <1>13, <2>2
  <2> QED BY <1>13, <2>2, <2>3, LargestOne
<1>15. reply'.value.report.topology = t /\ DOMAIN reply'.value.samples = 1 .. n
       /\ reply'.value.request = req /\ reply'.value.samples = samples
  BY <1>5, <1>6, <1>8
<1>16. /\ {ChainOf(reply'.value.report.topology, reply'.value.request, reply'.value.samples[i]) :
               i \in DOMAIN reply'.value.samples} = {chain[i] : i \in 1 .. n}
       /\ {AllOf(reply'.value.report.topology, reply'.value.request, reply'.value.samples[i]) :
               i \in DOMAIN reply'.value.samples} = {all[i] : i \in 1 .. n}
  BY <1>15
<1>17. reply'.value.report = report
  OBVIOUS
<1>18. /\ reply'.value.report.summary["latency"] # None =>
            /\ reply'.value.report.summary["latency"].maximum
                 >= Max({ChainOf(reply'.value.report.topology, reply'.value.request,
                                 reply'.value.samples[i]) : i \in DOMAIN reply'.value.samples})
            /\ reply'.value.report.summary["latency"].minimum
                 >= Min({ChainOf(reply'.value.report.topology, reply'.value.request,
                                 reply'.value.samples[i]) : i \in DOMAIN reply'.value.samples})
            /\ reply'.value.report.summary["latency"].maximum
                 <= Max({AllOf(reply'.value.report.topology, reply'.value.request,
                               reply'.value.samples[i]) : i \in DOMAIN reply'.value.samples})
       /\ reply'.value.report.parallelism <= reply'.value.request.parallel
       /\ reply'.value.report.parallelism
            <= Max({Cardinality(S) : S \in Antichains(reply'.value.report.topology)})
  BY <1>10, <1>13, <1>14, <1>15, <1>16, <1>17
<1> QED BY <1>18 DEF SimulationFitsTheGraph, ChainOf, AllOf

\* A simulated run finishes every node, no sooner than its longest chain and no
\* later than all nodes one after the other, and is never wider than the request
\* or an antichain of the graph, for any topology that lints clean, any request,
\* any samples and any order of the node array: the event loop always makes
\* progress (SimulationGraph::simulate).
THEOREM SimulationFitsTheGraphHolds == Spec => []SimulationFitsTheGraph
<1>1. Init => SimulationFitsTheGraph
  BY DEF Init, SimulationFitsTheGraph, NoReply, Reply
<1>2. ASSUME SimulationFitsTheGraph, [Next]_vars PROVE SimulationFitsTheGraph'
  <2>1. CASE Simulation
    BY <2>1, SimulationFits
  <2>2. CASE Next /\ ~Simulation
    BY <2>2, RepliesByStep DEF SimulationFitsTheGraph
  <2>3. CASE UNCHANGED vars
    <3>1. reply' = reply
      BY <2>3 DEF vars
    <3> QED BY <1>2, <3>1 DEF SimulationFitsTheGraph
  <2> QED BY <1>2, <2>1, <2>2, <2>3
<1> QED BY <1>1, <1>2, PTL DEF Spec
=============================================================================
