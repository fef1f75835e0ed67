-------------------------- MODULE CaseLifecycle --------------------------
(***************************************************************************)
(* The gated commands that move a case space: evidence attach, packet      *)
(* apply and resume, the review commands, cell transition, morphism        *)
(* propose, apply and reject, plan propose and review.  Every command      *)
(* names the revision it was prepared for; the store refuses it if that is *)
(* no longer the last one (module CaseStore), so an accepted command is    *)
(* one step here.  The exception is a plan review: it appends to the log   *)
(* and then rewrites the plan file, and can die in between.                *)
(*                                                                         *)
(* A change, the content of a morphism, is a record                        *)
(*   type        create, update, review, evidence_attach, ...              *)
(*   adds        function from new cell ids to cells                       *)
(*   rels        set of new relations                                      *)
(*   sets        set of <<cell, field, value>>: the fields of updated      *)
(*               cells that differ from the current ones                   *)
(*   relSets     set of relations that replace those with the same id      *)
(*   retires     set of cell ids                                           *)
(*   drops       set of ids of relations that are retired                  *)
(***************************************************************************)
EXTENDS CaseEvaluation

CONSTANTS
    Cases,       \* the cases [genesis, batches, packets, changes, plans, scope]: see origin
    Grants,      \* capability cell -> set of <<actor, operation>>
    Actors,      \* the actors that run commands
    Inputs,      \* claim id -> evidence cell, as its author wrote it
    Artifacts,   \* content-addressed ids of the files that can be cited
    Lives,       \* lifecycles asked for by cell transitions
    MaxLog,      \* bound on the length of the log
    MaxProposals \* bound on the proposals made for one revision

\* A cell, wherever it comes from, is complete; an attachment names a claim that was written.
CellFields == {"type", "life", "review", "boundary", "source", "structure"}
ASSUME CellsAreComplete ==
    /\ \A c \in DOMAIN Inputs : CellFields \subseteq DOMAIN Inputs[c]
    /\ \A o \in Cases :
          /\ \A c \in DOMAIN o.genesis.cells : CellFields \subseteq DOMAIN o.genesis.cells[c]
          /\ \A m \in o.changes : \A c \in DOMAIN m.change.adds : CellFields \subseteq DOMAIN m.change.adds[c]
          /\ \A batch \in o.batches : \A a \in batch : a.claim \in DOMAIN Inputs
          /\ \A p \in o.packets : p.claim \in DOMAIN Inputs

\* The import takes one entry, a creation, from which the whole case space can be rebuilt.
ASSUME GenesisIsWhole ==
    \A o \in Cases :
        LET entry == o.genesis.log[1]
        IN  /\ o.genesis.log = <<entry>>
            /\ entry.type = "create" /\ entry.kind = "none" /\ entry.canonical = FALSE /\ entry.content = <<>>
            /\ entry.added = DOMAIN o.genesis.cells /\ entry.addedRels = o.genesis.rels
            /\ \A r \in o.genesis.rels : {r.from, r.to} \subseteq DOMAIN o.genesis.cells

VARIABLES
    origin,             \* the case at hand and what its actors are out to do:
                        \*   genesis  the case space as it was lifted or imported, one log entry
                        \*   batches  sets of attachments [claim, satisfies, artifacts]
                        \*   packets  evidence packets [claim, satisfies, artifacts, cell, life]
                        \*   changes  generic morphisms [id, change]
                        \*   plans    what a plan file can say: [work, requirements]
                        \*   scope    the targets that reviewers are interested in
    cells, rels, log,   \* the case space
    proposals,          \* proposed generic morphisms that name the current revision
    plan,               \* the plan file
    unwritten           \* the plan file a review is about to write

vars == <<origin, cells, rels, log, proposals, plan, unwritten>>
space == [cells |-> cells, rels |-> rels, log |-> log]

NoPlan == [status |-> "none"]
NoChange ==
    [type |-> "none", adds |-> <<>>, rels |-> {}, sets |-> {}, relSets |-> {}, retires |-> {}, drops |-> {}]

---------------------------------------------------------------------------
(* The reducer.                                                            *)

RelIds(s) == {r.id : r \in s}
SetCells(ch) == {s[1] : s \in ch.sets}

ChangedCells(ch) == DOMAIN ch.adds \cup SetCells(ch) \cup ch.retires
ChangedRels(ch) == RelIds(ch.rels) \cup RelIds(ch.relSets) \cup ch.drops

\* An id occurs in one list of a change at most.
DeclaredOnce(ch) ==
    /\ Cardinality(ChangedCells(ch))
         = Cardinality(DOMAIN ch.adds) + Cardinality(SetCells(ch)) + Cardinality(ch.retires)
    /\ Cardinality(ChangedRels(ch))
         = Cardinality(ch.rels) + Cardinality(ch.relSets) + Cardinality(ch.drops)

UpdatedCell(cs, ch, c) ==
    [f \in DOMAIN cs.cells[c] |->
        IF \E s \in ch.sets : s[1] = c /\ s[2] = f
          THEN (CHOOSE s \in ch.sets : s[1] = c /\ s[2] = f)[3]
          ELSE cs.cells[c][f]]

\* Capability cells are administered at lift and import only.
IsCapability(cell) == cell.type = "capability"

\* An artifact's id is a hash that only an attachment computes.
EntersByAttach(type, cell) == cell.type = "artifact" => type = "evidence_attach"

\* A cell that a morphism after the genesis may add.
AddableCell(type, cell) ==
    /\ ~IsCapability(cell)
    /\ cell.type = "evidence" => cell.boundary \in {"inferred", "worker_output"}
    /\ EntersByAttach(type, cell)

AddableRelation(cs, ch, r) ==
    LET target == IF r.to \in DOMAIN cs.cells THEN cs.cells[r.to].type
                  ELSE IF r.to \in DOMAIN ch.adds THEN ch.adds[r.to].type ELSE "none"
    IN  r.type = "derives_from" /\ target = "artifact" => ch.type = "evidence_attach"

UpdatableCell(old, new) ==
    /\ ~IsCapability(old) /\ ~IsCapability(new)
    /\ new.type = old.type
    /\ old.type # "artifact"
    /\ old.type = "evidence" => /\ new.review = old.review
                                /\ new.structure = old.structure
                                /\ new.boundary = old.boundary
    /\ CanTransition(old.life, new.life)

\* Variant: only artifacts are kept from retirement.
RetirableCellOrCapability(cell) == cell.type # "artifact" /\ CanTransition(cell.life, "retired")

RetirableCell(cell) ==
    cell.type \notin {"capability", "artifact"} /\ CanTransition(cell.life, "retired")

\* Type, strength and ends make an edge the edge it is: nothing the model keeps may change.
UpdatableRelation(cs, r) == r \in cs.rels

NextCells(cs, ch) ==
    [c \in DOMAIN cs.cells \cup DOMAIN ch.adds |->
        IF c \in DOMAIN ch.adds THEN ch.adds[c]
        ELSE IF c \in ch.retires THEN [cs.cells[c] EXCEPT !.life = "retired"]
        ELSE IF c \in SetCells(ch) THEN UpdatedCell(cs, ch, c)
        ELSE cs.cells[c]]

NextRels(cs, ch) == {r \in cs.rels \cup ch.rels : r.id \notin ch.drops}

\* The reducer of proposals and appends: rebuilds the space, then looks at every edge.
MorphismApplies(cs, ch) ==
    /\ DeclaredOnce(ch)
    /\ DOMAIN ch.adds \cap DOMAIN cs.cells = {} /\ RelIds(ch.rels) \cap RelIds(cs.rels) = {}
    /\ \A c \in DOMAIN ch.adds : AddableCell(ch.type, ch.adds[c])
    /\ \A r \in ch.rels : AddableRelation(cs, ch, r)
    /\ SetCells(ch) \subseteq DOMAIN cs.cells
    /\ \A c \in SetCells(ch) : UpdatableCell(cs.cells[c], UpdatedCell(cs, ch, c))
    /\ \A r \in ch.relSets : UpdatableRelation(cs, r)
    /\ ch.retires \subseteq DOMAIN cs.cells /\ ch.drops \subseteq RelIds(cs.rels)
    /\ \A c \in ch.retires : RetirableCell(cs.cells[c])
    /\ \A r \in NextRels(cs, ch) : {r.from, r.to} \subseteq DOMAIN NextCells(cs, ch)

\* Variant: the replay's reducer takes any retirement of a cell.
MorphismAppliesIndexedRetiring(cs, ch) ==
    /\ DeclaredOnce(ch)
    /\ \A c \in DOMAIN ch.adds :
          AddableCell(ch.type, ch.adds[c]) /\ c \notin DOMAIN cs.cells
    /\ \A r \in ch.rels :
          AddableRelation(cs, ch, r) /\ r.id \notin RelIds(cs.rels)
    /\ \A c \in SetCells(ch) :
          c \in DOMAIN cs.cells /\ UpdatableCell(cs.cells[c], UpdatedCell(cs, ch, c))
    /\ \A r \in ch.relSets : r.id \in RelIds(cs.rels) /\ UpdatableRelation(cs, r)
    /\ ch.retires \subseteq DOMAIN cs.cells /\ ch.drops \subseteq RelIds(cs.rels)
    /\ \A r \in ch.rels \cup ch.relSets : {r.from, r.to} \subseteq DOMAIN cs.cells \cup DOMAIN ch.adds

\* The reducer of replays: positions of known ids, and only the edges the morphism names.
MorphismAppliesIndexed(cs, ch) ==
    /\ DeclaredOnce(ch)
    /\ \A c \in DOMAIN ch.adds :
          AddableCell(ch.type, ch.adds[c]) /\ c \notin DOMAIN cs.cells
    /\ \A r \in ch.rels :
          AddableRelation(cs, ch, r) /\ r.id \notin RelIds(cs.rels)
    /\ \A c \in SetCells(ch) :
          c \in DOMAIN cs.cells /\ UpdatableCell(cs.cells[c], UpdatedCell(cs, ch, c))
    /\ \A r \in ch.relSets : r.id \in RelIds(cs.rels) /\ UpdatableRelation(cs, r)
    /\ \A c \in ch.retires : c \in DOMAIN cs.cells /\ RetirableCell(cs.cells[c])
    /\ ch.drops \subseteq RelIds(cs.rels)
    /\ \A r \in ch.rels \cup ch.relSets : {r.from, r.to} \subseteq DOMAIN cs.cells \cup DOMAIN ch.adds

\* What the loader asks of a case space: no edge and no log entry names a missing id.
IdsExist(cs) == \A r \in cs.rels : {r.from, r.to} \subseteq DOMAIN cs.cells
LogResolves(cs) ==
    \A i \in DOMAIN cs.log : /\ cs.log[i].cells \subseteq DOMAIN cs.cells
                             /\ cs.log[i].rels \subseteq RelIds(cs.rels)
Evaluable(cs) == IdsExist(cs) /\ LogResolves(cs)

---------------------------------------------------------------------------
(* Authority, and the one way into the log.                                *)

OperationGate(actor, operation) ==
    \E c \in DOMAIN cells : /\ cells[c].type = "capability"
                            /\ cells[c].life \in {"active", "accepted"}
                            /\ cells[c].review = "accepted"
                            /\ <<actor, operation>> \in Grants[c]

Entry(id, ch, actor) ==
    [id |-> id, type |-> ch.type, kind |-> "none", target |-> <<>>, action |-> "none",
     canonical |-> FALSE, status |-> "accepted", added |-> DOMAIN ch.adds, addedRels |-> ch.rels,
     cells |-> ChangedCells(ch), rels |-> ChangedRels(ch), actor |-> actor, content |-> <<>>]

ReviewEntry(id, kind, target, action, canonical, actor, content) ==
    [Entry(id, [NoChange EXCEPT !.type = "review"], actor)
        EXCEPT !.kind = kind, !.target = target, !.action = action,
               !.canonical = canonical, !.content = content]

AppendMorphism(ch, entry) ==
    /\ Len(log) < MaxLog
    /\ MorphismApplies(space, ch)
    /\ \A i \in DOMAIN log : log[i].id # entry.id
    /\ cells' = NextCells(space, ch)
    /\ rels' = NextRels(space, ch)
    /\ log' = Append(log, entry)
    /\ proposals' = {}   \* their files stay, and name a revision that is past
    /\ Evaluable([cells |-> cells', rels |-> rels', log |-> log'])

AppendReview(entry) == AppendMorphism([NoChange EXCEPT !.type = "review"], entry)

Generated(operation) == <<operation, Len(log) + 1>>

---------------------------------------------------------------------------
(* Evidence.                                                               *)

\* The attached cell: whatever boundary its author claims, it is inferred.
EvidenceCell(claim) == [Inputs[claim] EXCEPT !.boundary = "inferred"]

ArtifactCell(source) ==
    [type |-> "artifact", life |-> "resolved", review |-> "unreviewed", boundary |-> "none",
     source |-> source, structure |-> {}]

IsCoverageTarget(c) == c \in CellsOf(space, "evidence")

PreparableClaim(a) ==
    /\ Inputs[a.claim].type = "evidence" /\ Inputs[a.claim].review # "accepted"
    /\ a.claim \notin Artifacts
    /\ \A t \in a.satisfies : IsCoverageTarget(t)
    /\ \A f \in a.artifacts \cap DOMAIN cells : cells[f].type = "artifact"

ClaimRelations(a) ==
    {[id |-> <<"satisfies", a.claim, t>>, type |-> "satisfies_evidence_requirement",
      hard |-> FALSE, from |-> a.claim, to |-> t] : t \in a.satisfies}
    \cup {[id |-> <<"derives", a.claim, f>>, type |-> "derives_from", hard |-> FALSE,
           from |-> a.claim, to |-> f] : f \in a.artifacts}

FreshClaims(batch) ==
    /\ \A a \in batch : a.claim \notin DOMAIN cells
    /\ \A a, b \in batch : a.claim = b.claim => a = b

\* One morphism for the whole batch; a file cited twice becomes one artifact cell.
AttachChange(batch) ==
    LET claims == {a.claim : a \in batch}
        files == (UNION {a.artifacts : a \in batch}) \ DOMAIN cells
    IN  [NoChange EXCEPT
            !.type = "evidence_attach",
            !.rels = UNION {ClaimRelations(a) : a \in batch},
            !.adds = [x \in claims \cup files |->
                         IF x \in claims THEN EvidenceCell(x)
                         ELSE ArtifactCell(\E a \in batch : x \in a.artifacts /\ Inputs[a.claim].source)]]

EvidenceAttach(actor, batch) ==
    /\ OperationGate(actor, "evidence-attach")
    /\ \A a \in batch : PreparableClaim(a)
    /\ FreshClaims(batch)
    /\ LET ch == AttachChange(batch) IN AppendMorphism(ch, Entry(Generated("attach"), ch, actor))
    /\ UNCHANGED <<origin, plan, unwritten>>

CellTransition(actor, c, life) ==
    /\ OperationGate(actor, "cell-transition")
    /\ c \in DOMAIN cells
    /\ LET ch == [NoChange EXCEPT !.type = "update", !.sets = {<<c, "life", life>>}]
       IN AppendMorphism(ch, Entry(Generated("transition"), ch, actor))
    /\ UNCHANGED <<origin, plan, unwritten>>

PacketClaim(p) == [claim |-> p.claim, satisfies |-> p.satisfies, artifacts |-> p.artifacts]

PacketApply(actor, p) == EvidenceAttach(actor, {PacketClaim(p)})

\* Variant: the review status that the findings report.
ResumableClaimByFindings(p, through) ==
    /\ through \in DOMAIN log
    /\ p.claim \in CellsOf(space, "evidence")
    /\ log[through].type = "evidence_attach" /\ p.claim \in log[through].added
    /\ EffectiveReviewStatus(space, p.claim) # "rejected"

ResumableClaim(p, through) ==
    /\ through \in DOMAIN log
    /\ p.claim \in CellsOf(space, "evidence")
    /\ log[through].type = "evidence_attach" /\ p.claim \in log[through].added
    /\ LatestEvidenceReviewStatus(space, p.claim) = "accepted"

\* The packet is read again: its author decides which cell moves, and where to.
PacketResume(actor, p, through) ==
    /\ OperationGate(actor, "cell-transition")
    /\ ResumableClaim(p, through)
    /\ p.cell \in DOMAIN cells
    /\ LET ch == [NoChange EXCEPT !.type = "update", !.sets = {<<p.cell, "life", p.life>>}]
       IN AppendMorphism(ch, [Entry(Generated("transition"), ch, actor)
                                 EXCEPT !.content = <<"packet", p.claim, through>>])
    /\ UNCHANGED <<origin, plan, unwritten>>

---------------------------------------------------------------------------
(* Reviews.                                                                *)

\* Generated completion candidates have no kind: no command can review them.
ReviewTargetKind(target) ==
    CASE target[1] = "cell" /\ target[2] \in DOMAIN cells ->
           (CASE cells[target[2]].type = "artifact"   -> "refused"
              [] cells[target[2]].type = "completion" -> "completion"
              [] cells[target[2]].type = "evidence"   -> "evidence"
              [] OTHER                                -> "waiver")
      [] target[1] = "relation" /\ target[2] \in RelIds(rels) -> "waiver"
      [] target[1] = "morphism" /\ target[2] \in DOMAIN log -> "morphism"
      [] target[1] = "obstruction" /\ target \in Obstructions(Context(space)) -> "residual_risk"
      [] OTHER -> "refused"

ReviewTargets ==
    {<<"cell", c>> : c \in DOMAIN cells} \cup {<<"relation", r>> : r \in RelIds(rels)}
    \cup {<<"morphism", i>> : i \in DOMAIN log} \cup Obstructions(Context(space))

ReviewApply(actor, target, action) ==
    /\ OperationGate(actor, "review")
    /\ ReviewTargetKind(target) # "refused"
    /\ AppendReview(ReviewEntry(Generated("review"), ReviewTargetKind(target), target, action,
                                TRUE, actor, <<>>))
    /\ UNCHANGED <<origin, plan, unwritten>>

---------------------------------------------------------------------------
(* Generic morphisms.                                                      *)

ReservedTypes == {"review", "evidence_attach", "execution_trace_anchor"}

\* A relation leaves no tombstone, so its retirement could never be loaded again.
ProposableMorphism(m) ==
    /\ m.change.type \notin ReservedTypes
    /\ m.change.drops = {}
    /\ MorphismApplies(space, m.change)
    /\ IdsExist([cells |-> NextCells(space, m.change), rels |-> NextRels(space, m.change)])

MorphismPropose(m) ==
    /\ ProposableMorphism(m)
    /\ Len(log) < MaxLog /\ Cardinality(proposals) < MaxProposals
    /\ proposals' = proposals \cup {m.id}
    /\ UNCHANGED <<origin, cells, rels, log, plan, unwritten>>

MorphismApply(actor, m) ==
    /\ m.id \in proposals
    /\ ProposableMorphism(m)
    /\ OperationGate(actor, "morphism-apply")
    /\ AppendMorphism(m.change, Entry(m.id, m.change, actor))
    /\ UNCHANGED <<origin, plan, unwritten>>

\* A review entry, but not a canonical one; the proposal file stays.
MorphismReject(actor, m) ==
    /\ m.id \in proposals
    /\ ProposableMorphism(m)
    /\ OperationGate(actor, "morphism-reject")
    /\ AppendReview(ReviewEntry(Generated("reject"), "morphism", <<"proposal", m.id>>, "reject",
                                FALSE, actor, <<>>))
    /\ UNCHANGED <<origin, plan, unwritten>>

---------------------------------------------------------------------------
(* Plans.  There is one plan id; its file lives beside the log.            *)

ReferencesExist(content) == content.work \cup content.requirements \subseteq DOMAIN cells

PlanReviews == {i \in DOMAIN log : log[i].kind = "plan"}

\* Variant: the status alone is compared with the log.
VerifiedPlanReviewStatusUnhashed ==
    LET derived == IF PlanReviews = {} THEN "unreviewed" ELSE OutcomeOf(log[Max(PlanReviews)].action)
    IN  IF plan.status = derived THEN derived ELSE "store_integrity"

\* The status the log derives for the plan as the file now reads, or an integrity refusal.
VerifiedPlanReviewStatus ==
    IF PlanReviews = {}
      THEN IF plan.status = "unreviewed" THEN "unreviewed" ELSE "store_integrity"
      ELSE LET latest == log[Max(PlanReviews)]
           IN IF /\ IsCanonicalReview(latest)
                 /\ latest.content = plan.content
                 /\ OperationGate(latest.actor, "plan-review")
                 /\ plan.status = OutcomeOf(latest.action)
                THEN plan.status ELSE "store_integrity"

PlanPropose(content) ==
    /\ plan = NoPlan
    /\ ReferencesExist(content)
    /\ plan' = [content |-> content, base |-> Len(log), status |-> "unreviewed"]
    /\ UNCHANGED <<origin, cells, rels, log, proposals, unwritten>>

\* plan accept and plan reject, up to the append.  A plan that was reviewed before may be
\* reviewed again at any revision.
PlanReviewAppend(actor, action) ==
    /\ plan # NoPlan
    /\ unwritten = NoPlan
    /\ ReferencesExist(plan.content)
    /\ VerifiedPlanReviewStatus # "store_integrity"
    /\ VerifiedPlanReviewStatus = "unreviewed" => plan.base = Len(log)
    /\ OperationGate(actor, "plan-review")
    /\ AppendReview(ReviewEntry(Generated("plan-review"), "plan", <<"plan">>, action, TRUE,
                                actor, plan.content))
    /\ unwritten' = [plan EXCEPT !.status = OutcomeOf(action)]
    /\ UNCHANGED <<origin, plan>>

\* The file is written from the copy that was read before the append.
PlanReviewWrite ==
    /\ unwritten # NoPlan
    /\ plan' = unwritten
    /\ unwritten' = NoPlan
    /\ UNCHANGED <<origin, cells, rels, log, proposals>>

\* The reviewing process dies between its append and its write.
PlanReviewCrash ==
    /\ unwritten # NoPlan
    /\ unwritten' = NoPlan
    /\ UNCHANGED <<origin, cells, rels, log, proposals, plan>>

\* The plan file is an ordinary file: anyone may rewrite it.
EditPlanFile(content, status) ==
    /\ plan # NoPlan
    /\ plan' = [plan EXCEPT !.content = content, !.status = status]
    /\ UNCHANGED <<origin, cells, rels, log, proposals, unwritten>>

---------------------------------------------------------------------------
\* What the close check asks, for all the evidence there is.
CloseRequest(actor) ==
    [base |-> Len(log), validation |-> CellsOf(space, "evidence"),
     gate |-> OperationGate(actor, "close-check")]

Init ==
    /\ origin \in Cases
    /\ cells = origin.genesis.cells /\ rels = origin.genesis.rels /\ log = origin.genesis.log
    /\ proposals = {}
    /\ plan = NoPlan
    /\ unwritten = NoPlan

Next ==
    \/ \E actor \in Actors, batch \in origin.batches : EvidenceAttach(actor, batch)
    \/ \E actor \in Actors, p \in origin.packets : PacketApply(actor, p)
    \/ \E actor \in Actors, p \in origin.packets, i \in DOMAIN log : PacketResume(actor, p, i)
    \/ \E actor \in Actors, c \in DOMAIN cells, life \in Lives : CellTransition(actor, c, life)
    \/ \E actor \in Actors, t \in ReviewTargets \cap origin.scope, action \in {"accept", "reject", "reopen", "waive"} :
          ReviewApply(actor, t, action)
    \/ \E m \in origin.changes : MorphismPropose(m)
    \/ \E actor \in Actors, m \in origin.changes : MorphismApply(actor, m)
    \/ \E actor \in Actors, m \in origin.changes : MorphismReject(actor, m)
    \/ \E content \in origin.plans : PlanPropose(content)
    \/ \E actor \in Actors, action \in {"accept", "reject"} : PlanReviewAppend(actor, action)
    \/ PlanReviewWrite
    \/ PlanReviewCrash
    \/ \E content \in origin.plans, status \in {"unreviewed", "accepted", "rejected"} :
          EditPlanFile(content, status)

Spec == Init /\ [][Next]_vars

---------------------------------------------------------------------------
(* Properties.                                                             *)

\* Entry i is the last word on evidence e, and it is an acceptance.
StandingAccept(e, i) ==
    /\ i \in DOMAIN log
    /\ log[i].type = "review" /\ log[i].kind = "evidence" /\ log[i].target = <<"cell", e>>
    /\ log[i].action = "accept"
    /\ \A k \in DOMAIN log : k > i => ~(log[k].kind = "evidence" /\ log[k].target = <<"cell", e>>)

\* Entry j put on record that e covers t.
Recorded(e, t, j) ==
    /\ j \in DOMAIN log /\ e \in log[j].added
    /\ \/ \E r \in log[j].addedRels : r.from = e /\ r.to = t /\ r.type \in CoveringTypes
       \/ j = 1 /\ t \in log[1].added /\ t \in origin.genesis.cells[e].structure

\* Evidence for the requirement q of cell c is on record, and it is evidence of the genesis
\* that was never rejected or its last review is an acceptance that came after the record.
RestsOnReview(c, q) ==
    \E e \in DOMAIN cells, j \in DOMAIN log :
      /\ (e = q /\ e \in log[j].added) \/ Recorded(e, q, j) \/ Recorded(e, c, j)
      /\ \/ /\ e \in DOMAIN origin.genesis.cells
            /\ origin.genesis.cells[e].boundary \in {"source_backed", "review_promoted"}
            /\ \A i \in DOMAIN log : log[i].kind = "evidence" /\ log[i].target = <<"cell", e>>
                                     => \E k \in DOMAIN log : k >= i /\ StandingAccept(e, k)
         \/ \E i \in DOMAIN log : i > j /\ StandingAccept(e, i)

\* A hard evidence requirement that counts as met is met by evidence of the genesis that was
\* never rejected, or by evidence whose last review is an acceptance that came after the
\* coverage was put on record: no later edge, update or attachment widens what was accepted.
SatisfactionRestsOnReview ==
    LET cx == Context(space)
    IN  \A c \in Subjects(cx) : \A q \in DirectTargets(cx, c, "requires_evidence") :
          EvidenceRequirementSatisfied(cx, c, q) => RestsOnReview(c, q)

\* The last review command on target t was a waiver.
WaiverStands(t) ==
    \E i \in DOMAIN log :
      /\ log[i].canonical /\ log[i].target = t /\ log[i].action = "waive"
      /\ \A k \in DOMAIN log : k > i => ~(log[k].canonical /\ log[k].target = t)

\* A case that may be closed leaves no evidence requirement undecided, soft ones and those
\* of finished cells included: for each there is evidence under a standing review, or a
\* waiver of the relation or of the required cell that nobody has taken back
\* (close:native-evidence-accepted-or-waived).
CloseRestsOnDecisions ==
    (\E actor \in Actors : Closeable(Context(space), CloseRequest(actor))) =>
        \A r \in rels : r.type = "requires_evidence" =>
            \/ RestsOnReview(r.from, r.to)
            \/ WaiverStands(<<"relation", r.id>>) \/ WaiverStands(<<"cell", r.to>>)

\* "it satisfies the close check while `space reason` keeps listing the obstruction by
\* design" (is_clearable_by_review, of `review waive' on an obstruction): when each
\* obstruction left has been waived and nothing else is left to decide, the case closes.
WaivedObstructionsDoNotBlock ==
    LET cx == Context(space)
    IN  \A actor \in Actors :
          /\ \A o \in Obstructions(cx) : WaiverStands(o)
          /\ OpenCompletionCells(cx) \cap OpenCompletions(cx) = {}
          /\ OpenMorphisms(cx) = {} /\ EvidenceRequirementBlockers(cx) = {}
          /\ PolicyGateHolds(CloseRequest(actor)) /\ ValidationEvidenceHolds(cx, CloseRequest(actor))
          => Closeable(cx, CloseRequest(actor))

Accepted(cs, e) ==
    [cs EXCEPT !.log = Append(@, ReviewEntry(<<"ahead", e>>, "evidence", <<"cell", e>>, "accept",
                                             TRUE, "reviewer", <<>>))]

NewEvidence == "new evidence"

\* cs after new evidence for the requirement q was attached and accepted.
AttachedFor(cs, q) ==
    LET e == NewEvidence
        cell == [type |-> "evidence", life |-> "active", review |-> "unreviewed",
                 boundary |-> "inferred", source |-> TRUE, structure |-> {}]
        edge == [id |-> <<"satisfies", e, q>>, type |-> "satisfies_evidence_requirement",
                 hard |-> FALSE, from |-> e, to |-> q]
        ch == [NoChange EXCEPT !.type = "evidence_attach", !.adds = [x \in {e} |-> cell], !.rels = {edge}]
    IN  Accepted([cells |-> NextCells(cs, ch), rels |-> NextRels(cs, ch),
                  log |-> Append(cs.log, Entry(<<"ahead", q>>, ch, "worker"))], e)

\* A halt names something to do, and a claim to review also shows in the assurance.  The
\* operations that a halt names for claims and evidence requirements clear it: accepting a
\* claim that awaits review removes it from the claims to review, and attaching and
\* accepting evidence for a missing requirement removes every want of it, as evidence, as
\* proof or as an event, from whichever cell it comes.
NamedOperationsClear ==
    LET cx == Context(space)
    IN  /\ CaseHalts(cx, Subjects(cx)) = {n.halt : n \in NamedOperations(cx, Subjects(cx))}
        /\ ClaimReviewTargets(cx) # {} => Assurance(cx) \in {"review_required", "rejected"}
        /\ \A n \in NamedOperations(cx, Subjects(cx)) :
          /\ n.halt = "needs_review" /\ n.op = "review accept" =>
                n.target \notin ClaimReviewTargets(Context(Accepted(space, n.target)))
          /\ n.halt = "needs_evidence" /\ IsCoverageTarget(n.target) /\ NewEvidence \notin DOMAIN cells =>
                \A o \in Obstructions(Context(AttachedFor(space, n.target))) :
                    TypeOf(o) \in {"missing_evidence", "missing_proof", "external_wait"} => WitnessOf(o) # n.target

\* A halt that waits for an external event names `review accept' of the waiting cell; this
\* says that the review lets the cell stop waiting.
ExternalHaltsClear ==
    LET cx == Context(space)
        Reviewed(t) == [space EXCEPT !.log = Append(@, ReviewEntry(<<"ahead", t>>, "waiver",
                                         <<"cell", t>>, "accept", TRUE, "reviewer", <<>>))]
    IN  \A n \in NamedOperations(cx, Subjects(cx)) :
          n.halt = "needs_external" => n.target \notin WaitingCells(Context(Reviewed(n.target)))

\* The reducer that checks an append and the reducer that replays the log accept the same
\* morphisms in every state, so nothing is written that a reader refuses.
ReducersAgree ==
    \A m \in origin.changes : MorphismApplies(space, m.change) = MorphismAppliesIndexed(space, m.change)

\* A packet moves its cell only after a reviewer accepted the packet's own claim, in the
\* revisions between its attachment and the move, and nobody took that back before the move.
PacketsWaitForReview ==
    \A i \in DOMAIN log : log[i].content # <<>> /\ log[i].type = "update" =>
        LET claim == log[i].content[2]
            through == log[i].content[3]
            About(k) == log[k].kind = "evidence" /\ log[k].target = <<"cell", claim>>
        IN  \E j \in through + 1 .. i - 1 :
              /\ claim \in log[through].added
              /\ About(j) /\ log[j].action = "accept"
              /\ \A k \in j + 1 .. i - 1 : ~About(k)

\* A plan that a run may dispatch reads as it read when its last reviewer accepted it,
\* whoever edited the file, and however that review's own write was cut short or delayed.
AcceptedPlanIsReviewedPlan ==
    plan # NoPlan /\ VerifiedPlanReviewStatus = "accepted" =>
        \E i \in DOMAIN log :
          /\ log[i].kind = "plan" /\ log[i].action = "accept" /\ log[i].content = plan.content
          /\ \A k \in DOMAIN log : k > i => log[k].kind # "plan"
          /\ ReferencesExist(plan.content)

\* What a file brings to the case (a packet, a plan) takes effect only under the standing
\* review of exactly what it holds.
FilesAwaitTheirReview == PacketsWaitForReview /\ AcceptedPlanIsReviewedPlan

CapabilitiesIn(cs) == {<<c, cs[c]>> : c \in {x \in DOMAIN cs : cs[x].type = "capability"}}

\* The authority over a case is the one its genesis granted: no sequence of commands adds,
\* changes, retires or relabels a capability cell.
AuthorityIsGenesis == CapabilitiesIn(cells) = CapabilitiesIn(origin.genesis.cells)

===========================================================================
