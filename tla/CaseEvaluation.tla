-------------------------- MODULE CaseEvaluation --------------------------
(***************************************************************************)
(* What a case space says at one revision: which evidence is trusted, what *)
(* it covers, which cells are ready, what obstructs the others, which      *)
(* review gaps are open, whether the case may be closed, and why a plan    *)
(* over it has halted.  Everything here is derived; nothing is stored.     *)
(*                                                                         *)
(* A case space cs is a record                                             *)
(*   cells  function from cell ids to cells                                *)
(*          [type, life, review, boundary, source, structure]:             *)
(*          review is provenance.review_status, source tells whether       *)
(*          source_ids is non-empty, structure is structure_ids            *)
(*   rels   set of relations [id, type, hard, from, to]                    *)
(*   log    sequence of entries [type, kind, target, action, canonical,    *)
(*          status, added, addedRels, actor, base]; its first entry is     *)
(*          the genesis, and a revision is a length of the log             *)
(* Ids of different kinds are never equal.  A review target is a tuple     *)
(* that starts with what it names: "cell", "relation", "morphism",         *)
(* "obstruction", "candidate", "plan".                                     *)
(***************************************************************************)
EXTENDS Naturals, Sequences, FiniteSets, FiniteSetsExt, TLC

CompleteLives == {"resolved", "accepted", "retired", "superseded"}
EndedLives == CompleteLives \cup {"rejected"}

CanTransition(from, to) ==
    \/ from = to
    \/ <<from, to>> \in
         {<<"proposed", "active">>, <<"proposed", "rejected">>, <<"proposed", "retired">>,
          <<"active", "waiting">>, <<"active", "resolved">>, <<"active", "retired">>,
          <<"active", "superseded">>, <<"waiting", "active">>, <<"waiting", "retired">>,
          <<"resolved", "accepted">>, <<"resolved", "active">>, <<"resolved", "retired">>,
          <<"accepted", "superseded">>, <<"accepted", "retired">>,
          <<"rejected", "retired">>, <<"superseded", "retired">>}

CellsOf(cs, type) == {c \in DOMAIN cs.cells : cs.cells[c].type = type}

---------------------------------------------------------------------------
(* Reviews in the log.                                                     *)

OutcomeOf(action) ==
    CASE action \in {"accept", "waive"}     -> "accepted"
      [] action = "reject"                  -> "rejected"
      [] action = "reopen"                  -> "unreviewed"
      [] action \in {"defer", "supersede"}  -> "reviewed"

\* Only the review commands write the schema version that makes a review canonical.
IsCanonicalReview(entry) ==
    entry.type = "review" /\ entry.status = "accepted" /\ entry.canonical

CanonicalReviewsOf(cs, target) ==
    {i \in DOMAIN cs.log : IsCanonicalReview(cs.log[i]) /\ cs.log[i].target = target}

\* Variant: any review counts, also one that a later review took back.
TargetEverHadAction(cs, target, actions) ==
    \E i \in CanonicalReviewsOf(cs, target) : cs.log[i].action \in actions

TargetHasAction(cs, target, actions) ==
    LET reviews == CanonicalReviewsOf(cs, target)
    IN  /\ reviews # {}
        /\ LET latest == cs.log[Max(reviews)]
           IN latest.action \in actions /\ OutcomeOf(latest.action) # "unreviewed"

EvidenceReviews(cs, e) ==
    {i \in DOMAIN cs.log : cs.log[i].kind = "evidence" /\ cs.log[i].target = <<"cell", e>>}

\* "none" when the log holds no review; anything but an accept counts as a rejection.
LatestEvidenceReviewStatus(cs, e) ==
    IF EvidenceReviews(cs, e) = {}
      THEN "none"
      ELSE LET latest == cs.log[Max(EvidenceReviews(cs, e))]
           IN IF IsCanonicalReview(latest) /\ latest.action = "accept"
                THEN "accepted" ELSE "rejected"

EffectiveReviewStatus(cs, e) ==
    IF LatestEvidenceReviewStatus(cs, e) = "none"
      THEN cs.cells[e].review ELSE LatestEvidenceReviewStatus(cs, e)

---------------------------------------------------------------------------
(* Trust and coverage.                                                     *)

EvidenceIsAcceptable(cell, latest) ==
    /\ cell.source
    /\ cell.review # "rejected"
    /\ latest # "rejected"
    /\ \/ cell.boundary = "source_backed"
       \/ cell.boundary = "review_promoted" /\ "accepted" \in {cell.review, latest}
       \/ cell.boundary \in {"inferred", "worker_output"} /\ latest = "accepted"

TrustedEvidence(cs) ==
    {e \in CellsOf(cs, "evidence") :
        EvidenceIsAcceptable(cs.cells[e], LatestEvidenceReviewStatus(cs, e))}

CoveringTypes == {"satisfies_evidence_requirement", "verifies", "accepts"}

\* Variant: coverage as the graph shows it now.
CanonicalCoverageFromGraph(cs) ==
    {<<r.from, r.to>> : r \in {q \in cs.rels : q.type \in CoveringTypes}}

\* Variant: only the genesis mints coverage.
CanonicalCoverageOfGenesis(cs) ==
    {<<r.from, r.to>> : r \in {q \in cs.log[1].addedRels : q.type \in CoveringTypes}}

\* Only the genesis and evidence attachments mint coverage.  The genesis may also
\* name what its evidence covers in structure_ids, if it added that cell itself.
CanonicalCoverage(cs) ==
    (UNION {{<<r.from, r.to>> : r \in {q \in cs.log[i].addedRels : q.type \in CoveringTypes}} :
               i \in {j \in DOMAIN cs.log : j = 1 \/ cs.log[j].type = "evidence_attach"}})
    \cup {p \in {c \in cs.log[1].added : cs.cells[c].type = "evidence"} \X cs.log[1].added :
              p[2] \in cs.cells[p[1]].structure}

\* The part of the evaluation context that everything else reads.
Context(cs) ==
    LET trusted == TrustedEvidence(cs)
    IN  [cells |-> cs.cells, rels |-> cs.rels, log |-> cs.log, trusted |-> trusted,
         covered |-> {p[2] : p \in {q \in CanonicalCoverage(cs) : q[1] \in trusted}}]

\* What an acceptance of evidence e brings into effect.
RecordedCoverageTargets(cs, e) == {p[2] : p \in {q \in CanonicalCoverage(cs) : q[1] = e}}

---------------------------------------------------------------------------
(* Readiness.  cx is a Context.                                            *)

DirectTargets(cx, c, type) ==
    {r.to : r \in {q \in cx.rels : q.from = c /\ q.hard /\ q.type = type}}

ReadinessSubject(cell) ==
    /\ cell.type \notin {"evidence", "review", "projection", "revision", "morphism", "external_ref"}
    /\ cell.life \notin EndedLives

Subjects(cx) == {c \in DOMAIN cx.cells : ReadinessSubject(cx.cells[c])}

CompleteCell(cx, c) ==
    c \in DOMAIN cx.cells /\ (cx.cells[c].life \in CompleteLives \/ cx.cells[c].review = "accepted")

TrustedEvidenceExists(cx, requirement, c) ==
    requirement \in cx.trusted \cup cx.covered \/ c \in cx.covered

WaitSatisfied(cx, w) == CompleteCell(cx, w) \/ TrustedEvidenceExists(cx, w, w)

EvidenceRequirementSatisfied(cx, c, requirement) == TrustedEvidenceExists(cx, requirement, c)

ProofRequirementSatisfied(cx, c, p) ==
    \/ p \in DOMAIN cx.cells /\ cx.cells[p].type = "proof" /\ CompleteCell(cx, p)
    \/ TrustedEvidenceExists(cx, p, c)

ContradictionRelations(cx, c) ==
    {r \in cx.rels : r.hard /\ c \in {r.from, r.to}
                     /\ r.type \in {"contradicts", "invalidates", "blocks"}}

ReviewSatisfied(cx, v) ==
    /\ v \in DOMAIN cx.cells
    /\ cx.cells[v].type = "review"
    /\ cx.cells[v].life = "accepted" \/ cx.cells[v].review = "accepted"

Obstruction(type, c, witness) == <<"obstruction", type, c, witness>>
TypeOf(o) == o[2]
AffectedOf(o) == o[3]
WitnessOf(o) == o[4]

DependencyObstructions(cx, c) ==
    {Obstruction("unresolved_dependency", c, d) :
        d \in {t \in DirectTargets(cx, c, "depends_on") : ~CompleteCell(cx, t)}}
WaitObstructions(cx, c) ==
    {Obstruction("external_wait", c, w) :
        w \in {t \in DirectTargets(cx, c, "waits_for") : ~WaitSatisfied(cx, t)}}
EvidenceObstructions(cx, c) ==
    {Obstruction("missing_evidence", c, q) :
        q \in {t \in DirectTargets(cx, c, "requires_evidence") :
                  ~EvidenceRequirementSatisfied(cx, c, t)}}
ProofObstructions(cx, c) ==
    {Obstruction("missing_proof", c, p) :
        p \in {t \in DirectTargets(cx, c, "requires_proof") : ~ProofRequirementSatisfied(cx, c, t)}}
ContradictionObstructions(cx, c) ==
    {Obstruction("contradiction", c, r.id) : r \in ContradictionRelations(cx, c)}
ReviewObstructions(cx, c) ==
    {Obstruction("review_required", c, v) :
        v \in {t \in DirectTargets(cx, c, "accepts") \cup DirectTargets(cx, c, "rejects") :
                  ~ReviewSatisfied(cx, t)}}

\* Every obstruction blocks.
ObstructionsOf(cx, c) ==
    DependencyObstructions(cx, c) \cup WaitObstructions(cx, c) \cup EvidenceObstructions(cx, c)
    \cup ProofObstructions(cx, c) \cup ContradictionObstructions(cx, c) \cup ReviewObstructions(cx, c)

Obstructions(cx) == UNION {ObstructionsOf(cx, c) : c \in Subjects(cx)}

ReadyCells(cx) == {c \in Subjects(cx) : ObstructionsOf(cx, c) = {}}

\* Waiting only if nothing but waits blocks the cell.
WaitingCells(cx) ==
    {c \in Subjects(cx) : /\ ObstructionsOf(cx, c) # {}
                          /\ \A o \in ObstructionsOf(cx, c) : TypeOf(o) = "external_wait"}

CompletedTargets(cx) ==
    {r.to : r \in {q \in cx.rels : q.hard /\ q.type \in {"completes", "supersedes"}}}

FrontierCells(cx) == ReadyCells(cx) \ CompletedTargets(cx)

\* Requirements that some cell holds and that are satisfied for every holder.
SatisfiedRequirements(cx) ==
    {q \in UNION {DirectTargets(cx, c, "requires_evidence") : c \in Subjects(cx)} :
        \A c \in Subjects(cx) : q \in DirectTargets(cx, c, "requires_evidence")
                                => EvidenceRequirementSatisfied(cx, c, q)}

Progress(cx) ==
    CASE Obstructions(cx) # {} -> "blocked"
      [] Obstructions(cx) = {} /\ DOMAIN cx.cells # {} /\ Subjects(cx) = {} -> "complete"
      [] OTHER -> "active"

---------------------------------------------------------------------------
(* Findings and gaps.                                                      *)

AcceptedEvidence(cx) ==
    {e \in CellsOf(cx, "evidence") :
        EffectiveReviewStatus(cx, e) = "accepted" \/ cx.cells[e].boundary = "review_promoted"}

UnreviewedInferences(cx) ==
    {e \in CellsOf(cx, "evidence") :
        cx.cells[e].boundary = "inferred" /\ EffectiveReviewStatus(cx, e) = "unreviewed"}

BoundaryViolations(cx) ==
    {<<"missing_source", e>> :
        e \in {x \in CellsOf(cx, "evidence") :
                  ~cx.cells[x].source /\ cx.cells[x].boundary \in {"source_backed", "review_promoted"}}}
    \cup
    {<<"rejected_evidence_used", e>> :
        e \in {x \in CellsOf(cx, "evidence") :
                  EffectiveReviewStatus(cx, x) = "rejected" \/ cx.cells[x].boundary = "rejected"}}

OpenCompletionCells(cx) ==
    {<<"cell", c>> : c \in {x \in CellsOf(cx, "completion") :
                              cx.cells[x].review = "unreviewed"
                              /\ cx.cells[x].life \notin {"accepted", "rejected"}}}

\* A candidate for every open completion cell, and one for every obstruction.
CompletionCandidates(cx) ==
    OpenCompletionCells(cx) \cup {<<"candidate", o>> : o \in Obstructions(cx)}

UnreviewedMorphisms(cx) == {i \in DOMAIN cx.log : cx.log[i].status = "unreviewed"}

\* The gap of an inference remembers whether it only stands for a requirement that is met.
ReviewGaps(cx) ==
    {[type |-> "completion", target |-> t, satisfied |-> FALSE] : t \in CompletionCandidates(cx)}
    \cup {[type |-> "inference", target |-> <<"cell", e>>, satisfied |-> e \in SatisfiedRequirements(cx)] :
            e \in UnreviewedInferences(cx)}
    \cup {[type |-> "morphism", target |-> <<"morphism", i>>, satisfied |-> FALSE] :
            i \in UnreviewedMorphisms(cx)}

Assurance(cx) ==
    IF \E v \in BoundaryViolations(cx) : v[1] = "rejected_evidence_used" THEN "rejected"
    ELSE IF \/ \E g \in ReviewGaps(cx) : ~g.satisfied
            \/ BoundaryViolations(cx) # {}
            \/ \E o \in Obstructions(cx) : TypeOf(o) = "review_required"
           THEN "review_required"
    ELSE IF AcceptedEvidence(cx) # {} THEN "accepted" ELSE "unreviewed"

---------------------------------------------------------------------------
(* The close check.                                                        *)

HighSeverity(o) == TypeOf(o) \in {"unresolved_dependency", "contradiction"}

OpenHardObstructions(cx) ==
    {o \in Obstructions(cx) : HighSeverity(o) /\ ~TargetHasAction(cx, o, {"waive", "defer"})}

OpenCompletions(cx) ==
    {t \in CompletionCandidates(cx) : ~TargetHasAction(cx, t, {"accept", "reject", "defer"})}

OpenMorphisms(cx) ==
    {i \in UnreviewedMorphisms(cx) :
        ~TargetHasAction(cx, <<"morphism", i>>, {"accept", "reject", "defer"})}

\* Requirements of any strength, of any holder, neither met nor waived.
EvidenceRequirementBlockers(cx) ==
    {r.to : r \in {q \in cx.rels : /\ q.type = "requires_evidence"
                                   /\ ~TargetHasAction(cx, <<"relation", q.id>>, {"waive"})
                                   /\ ~TargetHasAction(cx, <<"cell", q.to>>, {"waive"})
                                   /\ ~TrustedEvidenceExists(cx, q.to, q.from)}}

\* A request [base, validation, gate]: the revision closed, the validation evidence it
\* names (also its source ids), and whether its operation gate holds under a close policy.
BaseRevisionHolds(cx, request) == request.base = Len(cx.log)
PolicyGateHolds(request) == request.gate
ValidationEvidenceHolds(cx, request) ==
    request.validation # {} /\ request.validation \subseteq CellsOf(cx, "evidence")

\* The case declares its source boundary and no projection loses anything undeclared, so
\* that the two invariants about them hold.
Closeable(cx, request) ==
    /\ BaseRevisionHolds(cx, request)
    /\ OpenHardObstructions(cx) = {}
    /\ OpenCompletions(cx) = {}
    /\ OpenMorphisms(cx) = {}
    /\ EvidenceRequirementBlockers(cx) = {}
    /\ PolicyGateHolds(request)
    /\ ValidationEvidenceHolds(cx, request)

---------------------------------------------------------------------------
(* Why a plan over the work cells `work' has halted.                       *)

\* The cells whose obstructions the plan must wait for: its own, and what they depend on.
BlockingCells(cx, work) ==
    LET reach[n \in 0 .. Cardinality(DOMAIN cx.cells)] ==
            IF n = 0 THEN work
            ELSE reach[n - 1] \cup
                 {WitnessOf(o) : o \in {p \in Obstructions(cx) :
                     /\ AffectedOf(p) \in reach[n - 1]
                     /\ TypeOf(p) \in {"unresolved_dependency", "contradiction"}}}
    IN  reach[Cardinality(DOMAIN cx.cells)]

BlockedObstructions(cx, work) ==
    {o \in Obstructions(cx) : AffectedOf(o) \in BlockingCells(cx, work)}

ClaimReviewTargets(cx) ==
    {g.target[2] : g \in {h \in ReviewGaps(cx) : h.type = "inference" /\ ~h.satisfied}}

BlockedTargets(cx, work, types) ==
    {WitnessOf(o) : o \in {p \in BlockedObstructions(cx, work) : TypeOf(p) \in types}}

GateReviewTargets(cx, work) == BlockedTargets(cx, work, {"review_required"})
EvidenceTargets(cx, work) == BlockedTargets(cx, work, {"missing_evidence", "missing_proof"})
WaitingTargets(cx, work) == WaitingCells(cx) \cap work

NeedsReview(cx, work) == ClaimReviewTargets(cx) # {} \/ GateReviewTargets(cx, work) # {}

\* The halts that the case space itself explains.
CaseHalts(cx, work) ==
    {h \in {"needs_review", "needs_evidence", "needs_external"} :
        CASE h = "needs_review"   -> NeedsReview(cx, work)
          [] h = "needs_evidence" -> EvidenceTargets(cx, work) # {}
          [] h = "needs_external" -> WaitingTargets(cx, work) # {}}

\* The same halts with the operations they name.
NamedOperations(cx, work) ==
    {[halt |-> "needs_review", op |-> "review accept", target |-> t] : t \in ClaimReviewTargets(cx)}
    \cup {[halt |-> "needs_review", op |-> "cell transition", target |-> t] :
            t \in GateReviewTargets(cx, work)}
    \cup {[halt |-> "needs_evidence", op |-> "evidence attach", target |-> t] :
            t \in EvidenceTargets(cx, work)}
    \cup {[halt |-> "needs_external", op |-> "review accept", target |-> t] :
            t \in WaitingTargets(cx, work)}
===========================================================================
