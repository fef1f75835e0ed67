------------------------ MODULE MemoryPlane_proofs ------------------------
(***************************************************************************)
(* Proofs about MemoryPlane, for every policy, case, query and sequence of  *)
(* commands: the search for conflicts only ever adds contested claims, and  *)
(* when it ends, what the answer says of the claims fits together; a claim  *)
(* that memory propose lets through is readable; and what an answer shows   *)
(* as accepted was earned in the case (module CaseLifecycle_proofs).        *)
(***************************************************************************)
EXTENDS MemoryPlane, CaseLifecycle_proofs

\* More known conflicts leave fewer claims that hide others, so no fewer claims in sight.
LEMMA UnhiddenGrows ==
    ASSUME NEW cs, NEW current, NEW fewer, NEW more, fewer \subseteq more
    PROVE  Unhidden(cs, current, current \ fewer) \subseteq Unhidden(cs, current, current \ more)
BY DEF Unhidden

\* Claims in sight of each other stay in conflict when more come into sight.
LEMMA ConflictsGrow ==
    ASSUME NEW cs, NEW fewer, NEW more, fewer \subseteq more
    PROVE  Covers(ConflictsAmong(cs, more), ConflictsAmong(cs, fewer))
<1> DEFINE EdgesIn(visible, c) ==
        {r \in Contradictions(cs) : c \in {r.from, r.to} /\ {r.from, r.to} \subseteq visible}
<1>1. \A c : EdgesIn(fewer, c) \subseteq EdgesIn(more, c)
  OBVIOUS
<1> DEFINE Disputed(visible) == {x \in visible : EdgesIn(visible, x) # {}}
<1>2. ASSUME NEW visible
      PROVE  /\ DOMAIN ConflictsAmong(cs, visible) = Disputed(visible)
             /\ \A c \in Disputed(visible) :
                   ConflictsAmong(cs, visible)[c] = (\E r \in EdgesIn(visible, c) : IsHard(r))
  <2>1. ConflictsAmong(cs, visible) =
            [c \in Disputed(visible) |-> \E r \in EdgesIn(visible, c) : IsHard(r)]
    BY DEF ConflictsAmong
  <2> HIDE DEF EdgesIn, Disputed
  <2> QED
    BY <2>1
<1>3. Disputed(fewer) \subseteq Disputed(more)
  <2> HIDE DEF EdgesIn
  <2> QED
    BY <1>1
<1>4. \A c \in Disputed(fewer) :
          (\E r \in EdgesIn(fewer, c) : IsHard(r)) => (\E r \in EdgesIn(more, c) : IsHard(r))
  <2> HIDE DEF EdgesIn
  <2> QED
    BY <1>1
<1> HIDE DEF EdgesIn, Disputed
<1> QED
  BY <1>2, <1>3, <1>4 DEF Covers

\* The pass of resolve_current_conflicts is monotone in what is known to be contested.
LEMMA ConflictPassIsMonotone ==
    ASSUME NEW cs, NEW current, NEW known, NEW next, Covers(next, known)
    PROVE  Covers(ConflictPass(cs, current, next), ConflictPass(cs, current, known))
BY UnhiddenGrows, ConflictsGrow DEF Covers, ConflictPass

\* What the next turn of the loop finds covers what the loop has found so far.
NextPassCovers ==
    phase = "resolve" =>
        Covers(ConflictPass(seen, AcceptedCurrent(seen, asked.query, base), contested), contested)

LEMMA NextPassCoversHolds == MemorySpec => []NextPassCovers
<1>1. MemoryInit => NextPassCovers
  BY DEF MemoryInit, NextPassCovers
<1>2. NextPassCovers /\ [MemoryNext]_memoryVars => NextPassCovers'
  <2> SUFFICES ASSUME NextPassCovers, [MemoryNext]_memoryVars PROVE NextPassCovers'
    OBVIOUS
  <2>1. CASE CaseMoves \/ UNCHANGED memoryVars
    BY <2>1 DEF CaseMoves, NextPassCovers, memoryVars, memory
  <2>2. CASE \E d \in Drafts : MemoryPropose(d)
    BY <2>2 DEF MemoryPropose, NextPassCovers
  <2>3. CASE \E read \in origin.reads : StartRead(read)
    <3>1. contested' = <<>>
      BY <2>3 DEF StartRead
    <3>2. \A f : Covers(f, <<>>)
      BY DEF Covers
    <3> QED
      BY <3>1, <3>2 DEF NextPassCovers
  <2>4. CASE ResolveConflicts
    <3> DEFINE current == AcceptedCurrent(seen, asked.query, base)
    <3>1. phase = "resolve" /\ contested' = ConflictPass(seen, current, contested)
      BY <2>4 DEF ResolveConflicts
    <3>2. AcceptedCurrent(seen, asked.query, base)' = current
      BY <2>4 DEF ResolveConflicts, AcceptedCurrent, Disposition
    <3>3. Covers(contested', contested)
      BY <3>1 DEF NextPassCovers
    <3>4. seen' = seen
      BY <2>4 DEF ResolveConflicts
    <3> HIDE DEF current
    <3>5. Covers(ConflictPass(seen, current, contested'), contested')
      BY <3>1, <3>3, ConflictPassIsMonotone
    <3> QED
      BY <3>2, <3>4, <3>5 DEF NextPassCovers
  <2>5. CASE AnswerRead
    BY <2>5 DEF AnswerRead, NextPassCovers
  <2>6. CASE \E claims \in IndexEdits : EditIndexFile(claims)
    BY <2>6 DEF EditIndexFile, NextPassCovers
  <2> QED
    BY <2>1, <2>2, <2>3, <2>4, <2>5, <2>6 DEF MemoryNext
<1> QED
  BY <1>1, <1>2, PTL DEF MemorySpec

\* While a read resolves conflicts, contested claims are only added and hard conflicts stay
\* hard, as the comment on resolve_current_conflicts says, for every graph of claims.
THEOREM ContestedOnlyGrowsHolds == MemorySpec => ContestedOnlyGrows
<1>1. NextPassCovers /\ [MemoryNext]_memoryVars => (phase = "resolve" => Covers(contested', contested))
  <2> SUFFICES ASSUME NextPassCovers, [MemoryNext]_memoryVars, phase = "resolve"
               PROVE  Covers(contested', contested)
    OBVIOUS
  <2>1. CASE ResolveConflicts
    BY <2>1 DEF ResolveConflicts, NextPassCovers
  <2>2. CASE contested' = contested
    BY <2>2 DEF Covers
  <2>3. ResolveConflicts \/ contested' = contested
    BY DEF MemoryNext, CaseMoves, MemoryPropose, StartRead, AnswerRead, EditIndexFile, memoryVars, memory
  <2> QED
    BY <2>1, <2>2, <2>3
<1> QED
  BY <1>1, NextPassCoversHolds, PTL DEF MemorySpec, ContestedOnlyGrows

---------------------------------------------------------------------------

\* A claim that is accepted before other claims are looked at, with no reason against it,
\* has valid time at the time asked about.
LEMMA AcceptedIsCurrent ==
    ASSUME NEW cs, NEW q, NEW g, NEW c,
           DeriveBase(cs, q, g, c).status = "accepted", DeriveBase(cs, q, g, c).reason = "none"
    PROVE  Disposition(cs.cells[c].claim, q.asOf) = "current"
<1> DEFINE claim == cs.cells[c].claim
           timed == TimedStatus(cs, q, c)
           when == Disposition(claim, q.asOf)
<1>1. Parsed(cs, c)
  BY DEF DeriveBase
<1>2. timed.status = "accepted" /\ timed.reason = "none"
  BY <1>1 DEF DeriveBase
<1>3. when \in {"not_yet_valid", "expired", "current"}
  BY DEF Disposition
<1> QED
  BY <1>2, <1>3 DEF TimedStatus

LEMMA ConflictDomain ==
    ASSUME NEW cs, NEW visible, NEW c
    PROVE  c \in DOMAIN ConflictsAmong(cs, visible) <=>
             /\ c \in visible
             /\ \E r \in Contradictions(cs) : c \in {r.from, r.to} /\ {r.from, r.to} \subseteq visible
<1> DEFINE EdgesOf(x) ==
        {r \in Contradictions(cs) : x \in {r.from, r.to} /\ {r.from, r.to} \subseteq visible}
<1>1. DOMAIN ConflictsAmong(cs, visible) = {x \in visible : EdgesOf(x) # {}}
  <2>1. ConflictsAmong(cs, visible) =
            [x \in {y \in visible : EdgesOf(y) # {}} |-> \E r \in EdgesOf(x) : IsHard(r)]
    BY DEF ConflictsAmong
  <2> HIDE DEF EdgesOf
  <2> QED
    BY <2>1
<1> QED
  BY <1>1

\* The loop has ended with what it was about to find again.
AtFixedPoint == contested = ConflictPass(seen, AcceptedCurrent(seen, asked.query, base), contested)

\* At a fixed point, the projection of the claims fits together.
LEMMA ProjectionIsConsistent ==
    ASSUME base = Base(seen, asked.query), AtFixedPoint
    PROVE  LET p == Projection(seen, asked.query, base, contested)
           IN  NoHiddenConflict(p) /\ HidingIsJustified(p) /\ ConflictIsMutual(p)
<1> DEFINE p == Projection(seen, asked.query, base, contested)
           current == AcceptedCurrent(seen, asked.query, base)
           active == current \ DOMAIN contested
           visible == Unhidden(seen, current, active)
<1>1. /\ DOMAIN p.outcomes = DOMAIN base
      /\ \A c \in DOMAIN base : p.outcomes[c] = Outcome(seen, base[c], active, contested, c)
      /\ p.contested = {c \in DOMAIN base : p.outcomes[c].status = "contested"}
  BY DEF Projection
<1>2. \A c \in DOMAIN base : base[c].status = "accepted" /\ base[c].reason = "none" => c \in current
  BY AcceptedIsCurrent DEF Base, AcceptedCurrent
<1>3. \A c \in current : c \in DOMAIN base /\ base[c].status = "accepted" /\ base[c].reason = "none"
                        /\ Disposition(seen.cells[c].claim, asked.query.asOf) = "current"
  BY DEF AcceptedCurrent
<1>4. \A c : c \in DOMAIN contested <=>
               /\ c \in visible
               /\ \E r \in Contradictions(seen) : c \in {r.from, r.to} /\ {r.from, r.to} \subseteq visible
  <2>1. contested = ConflictsAmong(seen, visible)
    BY DEF AtFixedPoint, ConflictPass
  <2> HIDE DEF visible
  <2>2. \A c : c \in DOMAIN ConflictsAmong(seen, visible) <=>
               /\ c \in visible
               /\ \E r \in Contradictions(seen) : c \in {r.from, r.to} /\ {r.from, r.to} \subseteq visible
    BY ConflictDomain
  <2> QED
    BY <2>1, <2>2
<1>5. /\ visible \subseteq current
      /\ \A c \in current : c \in visible <=> HidingClaims(seen, c, Hiding) \cap active = {}
  BY DEF Unhidden
<1>6. \A c : /\ HidingClaims(seen, c, Retracting) \subseteq HidingClaims(seen, c, Hiding)
             /\ HidingClaims(seen, c, {"supersedes"}) \subseteq HidingClaims(seen, c, Hiding)
             /\ HidingClaims(seen, c, Hiding) \subseteq
                  HidingClaims(seen, c, Retracting) \cup HidingClaims(seen, c, {"supersedes"})
  BY DEF HidingClaims, Hiding, Retracting
<1> HIDE DEF p, current, active, visible
<1>7. "none" \notin PreRankExclusions
  BY DEF PreRankExclusions
<1>8. NoHiddenConflict(p)
  <2> SUFFICES ASSUME NEW r \in Contradictions(seen), {r.from, r.to} \subseteq CurrentIn(p) PROVE FALSE
    BY DEF NoHiddenConflict
  <2>1. ASSUME NEW c \in CurrentIn(p) PROVE c \in visible /\ c \notin DOMAIN contested
    <3>1. /\ c \in DOMAIN base
          /\ Outcome(seen, base[c], active, contested, c).status = "accepted"
          /\ Outcome(seen, base[c], active, contested, c).reason = "none"
      BY <1>1, <2>1 DEF CurrentIn
    <3>2. /\ base[c].status = "accepted" /\ base[c].reason = "none"
          /\ HidingClaims(seen, c, Retracting) \cap active = {}
          /\ HidingClaims(seen, c, {"supersedes"}) \cap active = {}
          /\ c \notin DOMAIN contested
      BY <3>1, <1>7 DEF Outcome
    <3>3. c \in current
      BY <3>1, <3>2, <1>2
    <3> QED
      BY <3>2, <3>3, <1>5, <1>6
  <2> QED
    BY <2>1, <1>4
<1>9. HidingIsJustified(p)
  <2> SUFFICES ASSUME NEW c \in DOMAIN p.outcomes, p.outcomes[c].status \in {"retracted", "superseded"}
               PROVE  \E d \in HidingClaims(seen, c, Hiding) \cap InSight(p) :
                         /\ p.outcomes[d].status \in {"accepted", "retracted", "superseded"}
                         /\ Disposition(seen.cells[d].claim, asked.query.asOf) = "current"
    BY DEF HidingIsJustified
  <2>1. PICK d \in HidingClaims(seen, c, Hiding) : d \in active
    <3>1. c \in DOMAIN base /\ p.outcomes[c] = Outcome(seen, base[c], active, contested, c)
      BY <1>1
    <3>2. base[c].status \notin {"retracted", "superseded"}
      BY <3>1 DEF Base, DeriveBase, TimedStatus, ReviewedStatus
    <3>3. \/ HidingClaims(seen, c, Retracting) \cap active # {}
          \/ HidingClaims(seen, c, {"supersedes"}) \cap active # {}
      BY <3>1, <3>2 DEF Outcome
    <3> QED
      BY <3>3, <1>6
  <2>2. d \in current /\ d \notin DOMAIN contested
    BY <2>1 DEF active
  <2>3. d \in DOMAIN base /\ base[d].status = "accepted" /\ base[d].reason = "none"
    BY <2>2, <1>3
  <2>4. /\ Outcome(seen, base[d], active, contested, d).status \in {"accepted", "retracted", "superseded"}
        /\ Outcome(seen, base[d], active, contested, d).reason \notin PreRankExclusions
    BY <2>2, <2>3 DEF Outcome, PreRankExclusions
  <2> QED
    BY <2>1, <2>2, <2>3, <2>4, <1>1, <1>3 DEF InSight
<1>10. ConflictIsMutual(p)
  <2>1. DOMAIN contested \subseteq p.contested
    <3> SUFFICES ASSUME NEW c \in DOMAIN contested PROVE c \in p.contested
      OBVIOUS
    <3>1. c \in visible /\ c \in current
      BY <1>4, <1>5
    <3>2. c \in DOMAIN base /\ base[c].status = "accepted" /\ base[c].reason = "none"
      BY <3>1, <1>3
    <3>3. Outcome(seen, base[c], active, contested, c).status = "contested"
      BY <3>1, <3>2, <1>5, <1>6, <1>7 DEF Outcome
    <3> QED
      BY <3>2, <3>3, <1>1
  <2>2. p.contested \subseteq DOMAIN contested
    <3> SUFFICES ASSUME NEW c \in p.contested PROVE c \in DOMAIN contested
      OBVIOUS
    <3>1. c \in DOMAIN base /\ Outcome(seen, base[c], active, contested, c).status = "contested"
      BY <1>1
    <3>2. base[c].status # "contested"
      BY <3>1 DEF Base, DeriveBase, TimedStatus, ReviewedStatus
    <3> QED
      BY <3>1, <3>2 DEF Outcome
  <2>3. ASSUME NEW r \in Contradictions(seen), {r.from, r.to} \subseteq visible
        PROVE  {r.from, r.to} \subseteq p.contested
    BY <2>1, <2>3, <1>4
  <2> QED
    BY <2>2, <2>3, <1>4 DEF ConflictIsMutual
<1> QED
  BY <1>8, <1>9, <1>10 DEF p

\* A read works on what it derived from the case it replayed, and answers at the end.
ReadInProgress ==
    /\ phase # "idle" => base = Base(seen, asked.query) /\ answer = NoAnswer
    /\ phase = "project" => AtFixedPoint

\* Whatever the claims of a case hide and contradict, an answer shows every conflict among
\* current claims, and nothing is hidden by a claim that is contested or out of sight.
THEOREM AnswersAreConsistentHolds == MemorySpec => []AnswersAreConsistent
<1> DEFINE Inv == ReadInProgress /\ AnswersAreConsistent
<1>1. MemoryInit => Inv
  BY DEF MemoryInit, ReadInProgress, AnswersAreConsistent
<1>2. Inv /\ [MemoryNext]_memoryVars => Inv'
  <2> SUFFICES ASSUME ReadInProgress, AnswersAreConsistent, [MemoryNext]_memoryVars PROVE Inv'
    OBVIOUS
  <2>1. CASE UNCHANGED <<phase, asked, seen, base, contested, answer>>
    BY <2>1 DEF ReadInProgress, AtFixedPoint, AnswersAreConsistent, NoHiddenConflict,
                HidingIsJustified, ConflictIsMutual, InSight, CurrentIn
  <2>2. CASE \E read \in origin.reads : StartRead(read)
    BY <2>2 DEF StartRead, ReadInProgress, AnswersAreConsistent
  <2>3. CASE ResolveConflicts
    <3>1. answer' = NoAnswer
      BY <2>3 DEF ResolveConflicts, ReadInProgress
    <3>2. base' = Base(seen', asked'.query)
      BY <2>3 DEF ResolveConflicts, ReadInProgress
    <3>3. phase' = "project" => AtFixedPoint'
      BY <2>3 DEF ResolveConflicts, Settled, AtFixedPoint
    <3> QED
      BY <3>1, <3>2, <3>3 DEF ReadInProgress, AnswersAreConsistent
  <2>4. CASE AnswerRead
    <3> DEFINE p == Projection(seen, asked.query, base, contested)
    <3>1. NoHiddenConflict(p) /\ HidingIsJustified(p) /\ ConflictIsMutual(p)
      BY <2>4, ProjectionIsConsistent DEF AnswerRead, ReadInProgress
    <3>2. /\ answer'.projection = p /\ phase' = "idle"
          /\ seen' = seen /\ asked' = asked
      BY <2>4 DEF AnswerRead
    <3> HIDE DEF p
    <3> QED
      BY <3>1, <3>2 DEF ReadInProgress, AnswersAreConsistent, NoHiddenConflict, HidingIsJustified,
                        ConflictIsMutual, InSight, CurrentIn
  <2>5. \/ UNCHANGED <<phase, asked, seen, base, contested, answer>>
        \/ \E read \in origin.reads : StartRead(read)
        \/ ResolveConflicts \/ AnswerRead
    BY DEF MemoryNext, CaseMoves, MemoryPropose, EditIndexFile, memoryVars, memory
  <2> QED
    BY <2>1, <2>2, <2>3, <2>4, <2>5
<1>3. Inv => AnswersAreConsistent
  OBVIOUS
<1> QED
  BY <1>1, <1>2, <1>3, PTL DEF MemorySpec

---------------------------------------------------------------------------
(* What memory propose lets through.                                        *)

\* Proposals are checked when they are made.
ProposalsAreChecked == \A d \in proposed : ValidateMemoryClaim(d.claim) = {} /\ ProposalIsValid(d)

\* A claim attached as it was proposed has the proposal's claim and records.
LEMMA AttachedAsProposed ==
    ASSUME NEW cell, NEW d, "claim" \in DOMAIN cell, [cell EXCEPT !.life = "proposed"] = ClaimCell(d)
    PROVE  cell.claim = d.claim /\ "records" \in DOMAIN cell /\ cell.records = {d.record}
<1> DEFINE copy == [cell EXCEPT !.life = "proposed"]
<1>1. /\ DOMAIN copy = DOMAIN cell
      /\ \A f \in DOMAIN cell : f # "life" => copy[f] = cell[f]
  OBVIOUS
<1>2. "records" \in DOMAIN copy /\ copy.claim = d.claim /\ copy.records = {d.record}
  BY DEF ClaimCell
<1> HIDE DEF copy
<1>3. "claim" # "life" /\ "records" # "life"
  OBVIOUS
<1> QED  BY <1>1, <1>2, <1>3

\* The two validators agree, whatever the policy, the case and the commands: memory propose
\* and read path refuse a claim with one artifact as source for the same reasons.
THEOREM ProposalsAreReadableHolds == MemorySpec => []ProposalsAreReadable
<1>1. MemoryInit => ProposalsAreChecked
  BY DEF MemoryInit, ProposalsAreChecked
<1>2. ProposalsAreChecked /\ [MemoryNext]_memoryVars => ProposalsAreChecked'
  BY DEF MemoryNext, CaseMoves, MemoryPropose, StartRead, ResolveConflicts, AnswerRead, EditIndexFile,
         memoryVars, memory, ProposalsAreChecked
<1>3. ProposalsAreChecked => ProposalsAreReadable
  <2> SUFFICES ASSUME ProposalsAreChecked, NEW d \in proposed, NEW c, c = d.claim.id,
                      c \in DOMAIN cells, "claim" \in DOMAIN cells[c],
                      [cells[c] EXCEPT !.life = "proposed"] = ClaimCell(d),
                      d.claim.sources = {d.artifact}, HasSourceRelation(space, c, d.artifact),
                      d.artifact \in CellsOf(space, "artifact"), DigestOf(space, d.artifact) = d.artifact
               PROVE  Defect(space, c) = "none"
    BY DEF ProposalsAreReadable
  <2>1. /\ space.cells[c].claim = d.claim
        /\ "records" \in DOMAIN space.cells[c] /\ space.cells[c].records = {d.record}
    BY AttachedAsProposed DEF space
  <2>2. ValidateMemoryClaim(d.claim) = {} /\ ProposalIsValid(d)
    BY DEF ProposalsAreChecked
  <2>3. SourcesAreImmutable(space, d.claim, {d.record})
    BY <2>2 DEF ProposalIsValid, SourcesAreImmutable
  <2>4. SourceDefect(space, c) = "none"
    BY <2>1, <2>2, <2>3 DEF SourceDefect, ProposalIsValid
  <2>5. ContractFindings(space, d.claim) = {}
    BY <2>2 DEF ContractFindings
  <2> QED  BY <2>1, <2>4, <2>5 DEF Defect
<1> QED  BY <1>1, <1>2, <1>3, PTL DEF MemorySpec

---------------------------------------------------------------------------
(* What an answer shows as accepted.                                        *)

\* A command of the case is a step of the case, everything else leaves it alone.
LEMMA MemoryLeavesTheCase == MemorySpec => [](CaseInv /\ AuthorityIsGenesis)
<1>1. MemoryInit => Init
  BY DEF MemoryInit
<1>2. [MemoryNext]_memoryVars => [Next]_vars
  BY DEF MemoryNext, CaseMoves, MemoryPropose, StartRead, ResolveConflicts, AnswerRead, EditIndexFile,
         memoryVars
<1> QED  BY <1>1, <1>2, CaseInvHolds, AuthorityIsGenesisHolds, PTL DEF MemorySpec, Spec

\* The last review of c in the case cs accepts it.
ReviewAccepts(cs, c) ==
    IF EvidenceReviews(cs, c) = {} THEN cs.cells[c].review = "accepted" /\ c \in cs.log[1].added
    ELSE /\ cs.log[Max(EvidenceReviews(cs, c))].action = "accept"
         /\ \E i \in DOMAIN cs.log : i < Max(EvidenceReviews(cs, c)) /\ c \in cs.log[i].added

\* Trusted evidence whose review is an acceptance was there when it was accepted.
LEMMA TrustedIsAccepted ==
    ASSUME CaseInv, NEW c \in TrustedEvidence(space), EffectiveReviewStatus(space, c) = "accepted"
    PROVE  ReviewAccepts(space, c)
<1> DEFINE A == EvidenceReviews(space, c)
<1>1. Len(log) \in Nat /\ DOMAIN log = 1 .. Len(log) /\ log[1] = origin.genesis.log[1]
  BY DEF CaseInv, LogIsLog
<1>2. CASE A = {}
  <2>1. LatestEvidenceReviewStatus(space, c) = "none"
    BY <1>2 DEF LatestEvidenceReviewStatus
  <2>2. cells[c].review = "accepted"
    BY <2>1 DEF EffectiveReviewStatus, space
  <2>3. c \in DOMAIN cells /\ cells[c].type = "evidence" /\ cells[c].boundary \in {"source_backed", "review_promoted"}
    BY <2>1 DEF TrustedEvidence, CellsOf, EvidenceIsAcceptable, space
  <2>4. c \in DOMAIN origin.genesis.cells
    BY <2>3 DEF CaseInv, EvidenceKeepsBoundary
  <2>5. c \in log[1].added
    BY <1>1, <2>4, GenesisIsWhole DEF CaseInv
  <2> QED  BY <1>2, <2>2, <2>5 DEF ReviewAccepts, space
<1>3. CASE A # {}
  <2>1. LatestEvidenceReviewStatus(space, c) = "accepted"
    BY <1>3 DEF EffectiveReviewStatus, LatestEvidenceReviewStatus
  <2>2. A \in SUBSET (1 .. Len(log)) /\ \A i \in A : log[i].kind = "evidence" /\ log[i].target = <<"cell", c>>
    BY <1>1 DEF EvidenceReviews, space
  <2>3. log[Max(A)].action = "accept"
    BY <1>3, <2>1 DEF LatestEvidenceReviewStatus, space
  <2> HIDE DEF A
  <2>4. Max(A) \in A
    BY <1>1, <1>3, <2>2, MaxIsLast
  <2>5. PICK m \in 1 .. Len(log) : m = Max(A)
    BY <2>2, <2>4
  <2>6. PICK i \in 1 .. m - 1 : c \in log[i].added
    BY <2>2, <2>4, <2>5 DEF CaseInv, ReviewedAfterwards
  <2>7. i \in DOMAIN log /\ i < m
    BY <1>1, <2>5, <2>6
  <2>8. \E k \in DOMAIN log : k < Max(A) /\ c \in log[k].added
    BY <2>5, <2>6, <2>7
  <2> QED  BY <1>3, <2>3, <2>8 DEF ReviewAccepts, space, A
<1> QED  BY <1>2, <1>3

\* A timestamp names one instant at most.
LEMMA InstantsAreNumbers ==
    ASSUME NEW t, NEW n \in ParseUtcTimestamp(t)
    PROVE  n \in Int /\ \A m \in ParseUtcTimestamp(t) : m = n
<1> DEFINE named == Len(t) = 4 /\ t[1] \in 0 .. LastYear /\ t[2] \in 1 .. 12
                        /\ t[3] \in 1 .. DaysInMonth(t[1], t[2]) /\ t[4] \in 0 .. SecondsPerDay - 1
           instant == DaysFromCivil(t[1], t[2], t[3]) * SecondsPerDay + t[4]
<1>1. ParseUtcTimestamp(t) = IF named THEN {instant} ELSE {}
  BY DEF ParseUtcTimestamp
<1>2. named /\ ParseUtcTimestamp(t) = {instant}
  <2> HIDE DEF named, instant
  <2> QED  BY <1>1
<1>3. PICK y, m, d, x : y = t[1] /\ m = t[2] /\ d = t[3] /\ x = t[4]
  OBVIOUS
<1>4. y \in Int /\ m \in 1 .. 12 /\ d \in 1 .. DaysInMonth(y, m) /\ x \in Int
  BY <1>2, <1>3
<1>5. DaysInMonth(y, m) \in Int
  <2>1. m \in {1, 3, 5, 7, 8, 10, 12} \/ m \in {4, 6, 9, 11} \/ m = 2
    BY <1>4
  <2> QED  BY <2>1 DEF DaysInMonth
<1>6. DaysFromCivil(y, m, d) \in Int
  <2>1. m \in Int /\ d \in Int
    BY <1>4, <1>5
  <2> QED  BY <1>4, <2>1 DEF DaysFromCivil
<1>7. instant \in Int
  <2>1. instant = DaysFromCivil(y, m, d) * SecondsPerDay + x
    BY <1>3
  <2> QED  BY <1>4, <1>6, <2>1 DEF SecondsPerDay
<1> HIDE DEF instant
<1> QED  BY <1>2, <1>7

\* A claim with a proper valid time that has not expired is not past its end.
LEMMA NotExpired ==
    ASSUME NEW claim, NEW asOf, ValidTime(claim), Disposition(claim, asOf) # "expired",
           NEW n \in ParseUtcTimestamp(asOf), NEW u \in ParseUtcTimestamp(claim.until)
    PROVE  ~(n >= u)
<1>1. n \in Int /\ u \in Int
  BY InstantsAreNumbers
<1>2. CASE \E m \in ParseUtcTimestamp(asOf), f \in ParseUtcTimestamp(claim.from) : m < f
  <2>1. PICK m \in ParseUtcTimestamp(asOf), f \in ParseUtcTimestamp(claim.from) : m < f
    BY <1>2
  <2>2. m = n /\ f \in Int
    BY InstantsAreNumbers
  <2>3. f < u
    BY DEF ValidTime
  <2> QED  BY <1>1, <2>1, <2>2, <2>3
<1>3. CASE ~ \E m \in ParseUtcTimestamp(asOf), f \in ParseUtcTimestamp(claim.from) : m < f
  BY <1>3 DEF Disposition
<1> QED  BY <1>2, <1>3

\* What is selected was in the reader's grant and scope before other claims were looked at,
\* and is accepted only if it was accepted then.
LEMMA SelectedWasInSight ==
    ASSUME NEW cs, NEW q, NEW known, NEW p, p = Projection(cs, q, Base(cs, q), known), NEW c \in p.selected
    PROVE  LET state == DeriveBase(cs, q, GrantOf(q), c)
           IN  /\ c \in MemoryCells(cs) /\ state.reason \notin PreRankExclusions
               /\ p.outcomes[c].status = "accepted" => state.status = "accepted"
<1> DEFINE states == Base(cs, q)
           active == AcceptedCurrent(cs, q, states) \ DOMAIN known
<1>1. /\ DOMAIN p.outcomes = DOMAIN states
      /\ \A x \in DOMAIN states : p.outcomes[x] = Outcome(cs, states[x], active, known, x)
      /\ c \in DOMAIN p.outcomes /\ IncludedByStatus(p.outcomes[c], q)
  BY DEF Projection
<1>2. DOMAIN states = MemoryCells(cs) /\ \A x \in MemoryCells(cs) : states[x] = DeriveBase(cs, q, GrantOf(q), x)
  BY DEF Base
<1> HIDE DEF states, active
<1>3. PICK state : state = states[c]
  OBVIOUS
<1>4. PICK out : out = Outcome(cs, state, active, known, c)
  OBVIOUS
<1>5. p.outcomes[c] = out /\ out.reason \notin PreRankExclusions
  BY <1>1, <1>3, <1>4 DEF IncludedByStatus
<1>6. state.reason \notin PreRankExclusions /\ (out.status = "accepted" => state.status = "accepted")
  BY <1>4, <1>5 DEF Outcome
<1> QED  BY <1>1, <1>2, <1>3, <1>5, <1>6

\* A claim that is accepted before other claims are looked at has no defect, and its review
\* and its time speak for it.
LEMMA AcceptedHasNoDefect ==
    ASSUME NEW cs, NEW q, NEW g, NEW c, DeriveBase(cs, q, g, c).status = "accepted"
    PROVE  /\ Defect(cs, c) = "none" /\ ReviewedStatus(cs, c) = "accepted"
           /\ Disposition(cs.cells[c].claim, q.asOf) # "expired"
<1>1. TimedStatus(cs, q, c).status = "accepted"
  BY DEF DeriveBase
<1>2. PICK when : when = Disposition(cs.cells[c].claim, q.asOf)
  OBVIOUS
<1>3. PICK defect : defect = Defect(cs, c)
  OBVIOUS
<1> QED  BY <1>1, <1>2, <1>3 DEF TimedStatus

\* A claim without defect rests on sources of the case, and has the authority and the
\* sensitivity they allow, or a capability that confers the authority.
LEMMA NoDefectIsSupported ==
    ASSUME NEW cs, NEW c, Defect(cs, c) = "none"
    PROVE  LET cell == cs.cells[c]
               claim == cell.claim
           IN  /\ ValidTime(claim)
               /\ claim.sources # {} /\ claim.sources \subseteq CellsOf(cs, "artifact")
               /\ \A f \in claim.sources : \E r \in cell.records : r.hash = f
               /\ \A r \in cell.records : ~(claim.sensitivity < r.sensitivity)
               /\ \/ \A r \in cell.records : ~(claim.authority > OriginCeiling(r.origin))
                  \/ \E k \in CellsOf(cs, "capability") : cs.cells[k].level >= claim.authority
<1> DEFINE cell == cs.cells[c]
           claim == cell.claim
<1>1. SourceDefect(cs, c) = "none" /\ ContractFindings(cs, claim) = {}
  BY DEF Defect
<1>2. "invalid_valid_time" \notin ValidateMemoryClaim(claim)
  BY <1>1 DEF ContractFindings
<1>3. ValidTime(claim)
  BY <1>2 DEF ValidateMemoryClaim, ClaimFindings
<1>4. /\ SourcesAreImmutable(cs, claim, cell.records)
      /\ (\E r \in cell.records : claim.authority > OriginCeiling(r.origin)) => HasAuthorityBinding(cs, claim)
      /\ \A r \in cell.records : ~(claim.sensitivity < r.sensitivity)
  BY <1>1 DEF SourceDefect
<1> HIDE DEF cell, claim
<1>5. /\ claim.sources # {} /\ claim.sources \subseteq CellsOf(cs, "artifact")
      /\ \A f \in claim.sources : \E r \in cell.records : r.hash = f
  BY <1>4 DEF SourcesAreImmutable
<1>6. HasAuthorityBinding(cs, claim) => \E k \in CellsOf(cs, "capability") : cs.cells[k].level >= claim.authority
  BY DEF HasAuthorityBinding
<1> QED  BY <1>3, <1>4, <1>5, <1>6 DEF cell, claim

\* The case that was read is one in which acceptance was earned and authority is the
\* genesis's.
SeenIsEarned ==
    /\ \A c \in TrustedEvidence(seen) : EffectiveReviewStatus(seen, c) = "accepted" => ReviewAccepts(seen, c)
    /\ CapabilitiesIn(seen.cells) = CapabilitiesIn(origin.genesis.cells)

\* A read is granted; its answer is the projection of what it saw, and shows what that
\* selected.
ReadIsGranted ==
    /\ phase # "idle" \/ answer # NoAnswer => ActorGrants(asked.query) # {} /\ base = Base(seen, asked.query)
    /\ phase # "idle" => answer = NoAnswer
    /\ answer # NoAnswer => /\ answer.projection = Projection(seen, asked.query, base, contested)
                            /\ answer.shown \subseteq answer.projection.selected

\* What a command asks beyond its query needs no other grant.
LEMMA ReadQueryKeepsGrants ==
    ASSUME NEW o \in Cases, NEW read \in o.reads
    PROVE  /\ ActorGrants(ReadQuery(read.mode, read.query)) = ActorGrants(read.query)
           /\ [read EXCEPT !.query = ReadQuery(read.mode, read.query)].query = ReadQuery(read.mode, read.query)
<1>1. "query" \in DOMAIN read /\ QueryFields \subseteq DOMAIN read.query
  BY ReadsAreComplete
<1>2. PICK q, w : q = read.query /\ w = ReadQuery(read.mode, q)
  OBVIOUS
<1>3. w.actor = q.actor /\ w.use = q.use /\ w.project = q.project
  BY <1>1, <1>2 DEF ReadQuery, QueryFields
<1> QED  BY <1>1, <1>2, <1>3 DEF ActorGrants

\* What a command shows is part of what was selected; an index stands for what it should hold.
LEMMA ShownIsSelected ==
    ASSUME NEW read, NEW p PROVE Shown(read, p) \subseteq p.selected
<1>1. IndexIsValid(read, p) => index.claims = p.selected
  BY DEF IndexIsValid, IndexOf
<1>2. PICK mode : mode = read.mode
  OBVIOUS
<1>3. CASE mode = "conflicts"
  BY <1>2, <1>3 DEF Shown
<1>4. CASE mode \in {"explain", "history", "sources"}
  <2>1. Shown(read, p) = p.selected \cap {read.target}
    BY <1>2, <1>4 DEF Shown
  <2> QED  BY <2>1
<1>5. CASE mode = "index validate"
  <2>1. Shown(read, p) = IF IndexIsValid(read, p) THEN index.claims ELSE {}
    BY <1>2, <1>5 DEF Shown
  <2> QED  BY <1>1, <2>1
<1>6. CASE mode \notin {"conflicts", "explain", "history", "sources", "index validate"}
  <2>1. Shown(read, p) = p.selected
    BY <1>2, <1>6 DEF Shown
  <2> QED  BY <2>1
<1> QED  BY <1>3, <1>4, <1>5, <1>6

\* No command of the case changes which case it is.
LEMMA OriginStays == [Next]_vars => origin' = origin
<1> SUFFICES ASSUME [Next]_vars PROVE origin' = origin
  OBVIOUS
<1>1. ASSUME NEW actor, NEW batch, EvidenceAttach(actor, batch) PROVE origin' = origin
  BY <1>1 DEF EvidenceAttach
<1>2. ASSUME NEW actor, NEW p, PacketApply(actor, p) PROVE origin' = origin
  BY <1>1, <1>2 DEF PacketApply
<1>3. ASSUME NEW actor, NEW p, NEW i, PacketResume(actor, p, i) PROVE origin' = origin
  BY <1>3 DEF PacketResume
<1>4. ASSUME NEW actor, NEW c, NEW life, CellTransition(actor, c, life) PROVE origin' = origin
  BY <1>4 DEF CellTransition
<1>5. ASSUME NEW actor, NEW t, NEW action, ReviewApply(actor, t, action) PROVE origin' = origin
  BY <1>5 DEF ReviewApply
<1>6. ASSUME NEW m, MorphismPropose(m) PROVE origin' = origin
  BY <1>6 DEF MorphismPropose
<1>7. ASSUME NEW actor, NEW m, MorphismApply(actor, m) \/ MorphismReject(actor, m) PROVE origin' = origin
  BY <1>7 DEF MorphismApply, MorphismReject
<1>8. ASSUME NEW actor, NEW action, PlanReviewAppend(actor, action) PROVE origin' = origin
  BY <1>8 DEF PlanReviewAppend
<1>9. ASSUME \/ \E content \in origin.plans : PlanPropose(content)
             \/ PlanReviewWrite
             \/ PlanReviewCrash
             \/ \E content \in origin.plans, status \in {"unreviewed", "accepted", "rejected"} :
                   EditPlanFile(content, status)
             \/ UNCHANGED vars
      PROVE  origin' = origin
  BY <1>9 DEF PlanPropose, PlanReviewWrite, PlanReviewCrash, EditPlanFile, vars
<1> QED  BY <1>1, <1>2, <1>3, <1>4, <1>5, <1>6, <1>7, <1>8, <1>9 DEF Next

\* A read keeps what it was granted and what it saw, while the case moves on.
LEMMA ReadIsGrantedHolds == MemorySpec => [](SeenIsEarned /\ ReadIsGranted)
<1> DEFINE Case == CaseInv /\ AuthorityIsGenesis
           Inv == SeenIsEarned /\ ReadIsGranted
<1>1. Case => \A c \in TrustedEvidence(space) :
                 EffectiveReviewStatus(space, c) = "accepted" => ReviewAccepts(space, c)
  BY TrustedIsAccepted
<1>2. MemoryInit /\ Case => Inv
  <2> SUFFICES ASSUME MemoryInit, Case PROVE Inv
    OBVIOUS
  <2>1. seen = space /\ space.cells = cells /\ phase = "idle" /\ answer = NoAnswer
    BY DEF MemoryInit, space
  <2> QED  BY <1>1, <2>1 DEF SeenIsEarned, ReadIsGranted, AuthorityIsGenesis
<1>3. Inv /\ Case /\ [MemoryNext]_memoryVars => Inv'
  <2> SUFFICES ASSUME SeenIsEarned, ReadIsGranted, Case, [MemoryNext]_memoryVars PROVE Inv'
    OBVIOUS
  <2>1. origin' = origin
    BY OriginStays DEF MemoryNext, CaseMoves, MemoryPropose, StartRead, ResolveConflicts, AnswerRead,
                       EditIndexFile, memoryVars, vars
  <2>2. CASE UNCHANGED <<phase, asked, seen, base, contested, answer>>
    BY <2>1, <2>2 DEF SeenIsEarned, ReadIsGranted
  <2>3. CASE \E read \in origin.reads : StartRead(read)
    <3>1. PICK read \in origin.reads : StartRead(read)
      BY <2>3
    <3>2. /\ answer' = NoAnswer /\ seen' = space /\ ActorGrants(read.query) # {}
          /\ asked' = [read EXCEPT !.query = ReadQuery(read.mode, read.query)]
          /\ base' = Base(seen', asked'.query)
      BY <3>1 DEF StartRead
    <3>3. ActorGrants(asked'.query) # {}
      BY <3>2, ReadQueryKeepsGrants DEF CaseInv
    <3>4. PICK cs : cs = space
      OBVIOUS
    <3>5. CapabilitiesIn(cs.cells) = CapabilitiesIn(origin.genesis.cells)
      BY <3>4 DEF AuthorityIsGenesis, space
    <3>6. SeenIsEarned'
      BY <1>1, <2>1, <3>2, <3>4, <3>5 DEF SeenIsEarned
    <3> QED  BY <3>2, <3>3, <3>6 DEF ReadIsGranted
  <2>4. CASE ResolveConflicts
    BY <2>1, <2>4 DEF ResolveConflicts, SeenIsEarned, ReadIsGranted
  <2>5. CASE AnswerRead
    <3>1. PICK p : p = Projection(seen, asked.query, base, contested)
      OBVIOUS
    <3>2. /\ answer' = [mode |-> asked.mode, projection |-> p, shown |-> Shown(asked, p)]
          /\ phase = "project" /\ phase' = "idle" /\ UNCHANGED <<asked, seen, base, contested>>
      BY <2>5, <3>1 DEF AnswerRead
    <3>3. answer'.projection = p /\ answer'.shown \subseteq p.selected
      BY <3>2, ShownIsSelected
    <3> QED  BY <2>1, <3>1, <3>2, <3>3 DEF SeenIsEarned, ReadIsGranted
  <2>6. \/ UNCHANGED <<phase, asked, seen, base, contested, answer>>
        \/ \E read \in origin.reads : StartRead(read)
        \/ ResolveConflicts \/ AnswerRead
    BY DEF MemoryNext, CaseMoves, MemoryPropose, EditIndexFile, memoryVars, memory
  <2> QED  BY <2>2, <2>3, <2>4, <2>5, <2>6
<1> QED  BY <1>2, <1>3, MemoryLeavesTheCase, PTL DEF MemorySpec

\* What AcceptedMemoryIsEarned says of one claim.
ShowsEarned(c, claim) ==
    /\ \E g \in Policy.grants : /\ g.actor = asked.query.actor
                                /\ claim.sensitivity <= g.sensitivity
                                /\ claim.authority <= g.authority
    /\ claim.actors = {} \/ asked.query.actor \in claim.actors
    /\ answer.projection.outcomes[c].status = "accepted" =>
         /\ LastReviewAccepts(c)
         /\ \A n \in ParseUtcTimestamp(asked.query.asOf), u \in ParseUtcTimestamp(claim.until) : ~(n >= u)
         /\ claim.sources # {} /\ claim.sources \subseteq CellsOf(seen, "artifact")
         /\ \A f \in claim.sources :
               \E r \in seen.cells[c].records :
                  r.hash = f /\ ~(claim.sensitivity < r.sensitivity)
                  /\ \/ ~(claim.authority > OriginCeiling(r.origin))
                     \/ \E k \in CellsOf(seen, "capability") :
                           /\ k \in DOMAIN origin.genesis.cells
                           /\ seen.cells[k].level >= claim.authority

LEMMA EarnedOneByOne ==
    (answer # NoAnswer => \A c \in answer.shown : ShowsEarned(c, seen.cells[c].claim)) => AcceptedMemoryIsEarned
BY Zenon DEF AcceptedMemoryIsEarned, ShowsEarned

\* Whatever an answer shows is within the reader's grant; and what it shows as accepted was
\* accepted by the last word on it, is not expired, and has sources that carry its authority,
\* for every case, policy, query and every sequence of commands before and during the read.
THEOREM AcceptedMemoryIsEarnedHolds == MemorySpec => []AcceptedMemoryIsEarned
<1>1. SeenIsEarned /\ ReadIsGranted => AcceptedMemoryIsEarned
  <2> SUFFICES ASSUME SeenIsEarned, ReadIsGranted, answer # NoAnswer, NEW c \in answer.shown, NEW claim,
                      claim = seen.cells[c].claim
               PROVE  ShowsEarned(c, claim)
    BY EarnedOneByOne
  <2>1. PICK q, p : q = asked.query /\ p = answer.projection
    OBVIOUS
  <2>2. /\ ActorGrants(q) # {} /\ p = Projection(seen, q, Base(seen, q), contested) /\ c \in p.selected
    BY <2>1 DEF ReadIsGranted
  <2>3. PICK g, state : g = GrantOf(q) /\ state = DeriveBase(seen, q, g, c)
    OBVIOUS
  <2>4. /\ c \in MemoryCells(seen) /\ state.reason \notin PreRankExclusions
        /\ p.outcomes[c].status = "accepted" => state.status = "accepted"
    BY <2>2, <2>3, SelectedWasInSight
  <2>5. g \in ActorGrants(q)
    BY <2>2, <2>3 DEF GrantOf
  <2>6. ClaimInScope(claim, q) /\ ClaimWithinGrant(claim, g)
    BY <2>3, <2>4 DEF DeriveBase, PreRankExclusions
  <2>7. ASSUME state.status = "accepted"
        PROVE  /\ LastReviewAccepts(c)
               /\ \A n \in ParseUtcTimestamp(q.asOf), u \in ParseUtcTimestamp(claim.until) : ~(n >= u)
               /\ claim.sources # {} /\ claim.sources \subseteq CellsOf(seen, "artifact")
               /\ \A f \in claim.sources :
                     \E r \in seen.cells[c].records :
                        r.hash = f /\ ~(claim.sensitivity < r.sensitivity)
                        /\ \/ ~(claim.authority > OriginCeiling(r.origin))
                           \/ \E k \in CellsOf(seen, "capability") :
                                 /\ k \in DOMAIN origin.genesis.cells
                                 /\ seen.cells[k].level >= claim.authority
    <3>1. /\ Defect(seen, c) = "none" /\ ReviewedStatus(seen, c) = "accepted"
          /\ Disposition(claim, q.asOf) # "expired"
      BY <2>3, <2>7, AcceptedHasNoDefect
    <3>2. /\ ValidTime(claim)
          /\ claim.sources # {} /\ claim.sources \subseteq CellsOf(seen, "artifact")
          /\ \A f \in claim.sources : \E r \in seen.cells[c].records : r.hash = f
          /\ \A r \in seen.cells[c].records : ~(claim.sensitivity < r.sensitivity)
          /\ \/ \A r \in seen.cells[c].records : ~(claim.authority > OriginCeiling(r.origin))
             \/ \E k \in CellsOf(seen, "capability") : seen.cells[k].level >= claim.authority
      BY <3>1, NoDefectIsSupported
    <3>3. \A n \in ParseUtcTimestamp(q.asOf), u \in ParseUtcTimestamp(claim.until) : ~(n >= u)
      BY <3>1, <3>2, NotExpired
    <3>4. c \in TrustedEvidence(seen) /\ EffectiveReview(seen, c) = "accepted"
      BY <3>1 DEF ReviewedStatus
    <3>5. EffectiveReviewStatus(seen, c) = "accepted"
      BY <3>4 DEF EffectiveReview
    <3>6. ReviewAccepts(seen, c)
      BY <3>4, <3>5 DEF SeenIsEarned
    <3>7. LastReviewAccepts(c)
      BY <3>6 DEF LastReviewAccepts, ReviewAccepts, EvidenceReviews
    <3>8. CellsOf(seen, "capability") \subseteq DOMAIN origin.genesis.cells
      <4> SUFFICES ASSUME NEW k \in CellsOf(seen, "capability") PROVE k \in DOMAIN origin.genesis.cells
        OBVIOUS
      <4>1. <<k, seen.cells[k]>> \in CapabilitiesIn(seen.cells)
        BY DEF CapabilitiesIn, CellsOf
      <4>2. <<k, seen.cells[k]>> \in CapabilitiesIn(origin.genesis.cells)
        BY <4>1 DEF SeenIsEarned
      <4> QED  BY <4>2 DEF CapabilitiesIn
    <3> QED  BY <3>2, <3>3, <3>7, <3>8
  <2> QED  BY <2>1, <2>4, <2>5, <2>6, <2>7 DEF ActorGrants, ClaimWithinGrant, ClaimInScope, ShowsEarned
<1> QED  BY <1>1, ReadIsGrantedHolds, PTL
===========================================================================
