--------------------------- MODULE MemoryPlane ---------------------------
(***************************************************************************)
(* What readers are told of the memory claims in a case.  A claim is an    *)
(* evidence cell with a memory contract; it enters a case like any other   *)
(* evidence (module CaseLifecycle), and everything else is derived when    *)
(* somebody reads: which claims are accepted, which are hidden by others,  *)
(* which contradict each other, and what fits the reader's grant, scope    *)
(* and budget.  A read replays the case once and works on that copy while  *)
(* other commands move the case on.                                        *)
(*                                                                         *)
(* A memory cell has two more fields.                                      *)
(*   claim    [id, kind, case, project, actors, from, until, sources,      *)
(*            terms, rank, tokens, untrusted, complete, role, authority,   *)
(*            sensitivity], or <<>> if its contract cannot be parsed.      *)
(*            rank orders claims by id; complete stands for the schema and *)
(*            the required fields                                          *)
(*   records  set of source records [hash, complete, captured, origin,     *)
(*            sensitivity]; missing if they cannot be parsed               *)
(* A capability cell may have a field level, the memory authority it       *)
(* confers; an artifact lifted with a hash that is not the one of its id   *)
(* has a field digest; a lifted relation may have a field review.          *)
(* A timestamp is <<year, month, day, second>>, <<>> if it is absent, and  *)
(* anything else if it is not in canonical form.                           *)
(* Each case in Cases has one more field, reads: a set of                  *)
(* [mode, target, query].                                                  *)
(***************************************************************************)
EXTENDS CaseLifecycle, Integers

CONSTANTS
    Policy,      \* [complete, project, grants, timedKinds, hardTypes]
    Drafts,      \* what is brought to memory propose: [claim, record, artifact, tool, target]
    IndexEdits   \* sets of claim ids that somebody may write into an index file

\* A query is complete.
QueryFields == {"complete", "actor", "use", "project", "case", "actors", "kinds", "asOf", "items", "tokens",
                "terms", "historical", "contested"}
ASSUME ReadsAreComplete ==
    \A o \in Cases : \A read \in o.reads :
        {"mode", "target", "query"} \subseteq DOMAIN read /\ QueryFields \subseteq DOMAIN read.query

VARIABLES
    phase,       \* of the read at hand: "idle", "resolve", "project"
    asked,       \* the read at hand: [mode, target, query]
    seen,        \* the case space it replayed
    base,        \* claim -> what is said of it before other claims are looked at
    contested,   \* contested claim -> whether the conflict is hard, as far as it got
    answer,      \* the last answer
    index,       \* the index file
    proposed     \* the drafts that were answered with a proposal

memory == <<phase, asked, seen, base, contested, answer, index, proposed>>

NoAnswer == [mode |-> "none"]
NoIndex == [revision |-> 0, claims |-> {}]

---------------------------------------------------------------------------
(* Time.                                                                   *)

DaysInMonth(year, month) ==
    CASE month \in {1, 3, 5, 7, 8, 10, 12} -> 31
      [] month \in {4, 6, 9, 11} -> 30
      [] month = 2 -> IF year % 400 = 0 \/ (year % 4 = 0 /\ year % 100 # 0) THEN 29 ELSE 28
      [] OTHER -> 0

DaysFromCivil(civilYear, month, day) ==
    LET year == IF month <= 2 THEN civilYear - 1 ELSE civilYear
        era == year \div 400
        yearOfEra == year - era * 400
        dayOfYear == (153 * (month + (IF month > 2 THEN -3 ELSE 9)) + 2) \div 5 + day - 1
    IN  era * 146097 + yearOfEra * 365 + yearOfEra \div 4 - yearOfEra \div 100 + dayOfYear - 719468

LastYear == 9999
SecondsPerDay == 86400

\* The instant that a timestamp names, if it names one.
ParseUtcTimestamp(t) ==
    IF /\ Len(t) = 4 /\ t[1] \in 0 .. LastYear /\ t[2] \in 1 .. 12
       /\ t[3] \in 1 .. DaysInMonth(t[1], t[2]) /\ t[4] \in 0 .. SecondsPerDay - 1
      THEN {DaysFromCivil(t[1], t[2], t[3]) * SecondsPerDay + t[4]} ELSE {}

ValidTime(claim) ==
    /\ \A t \in {claim.from, claim.until} : t # <<>> => ParseUtcTimestamp(t) # {}
    /\ \A f \in ParseUtcTimestamp(claim.from), u \in ParseUtcTimestamp(claim.until) : f < u

Disposition(claim, asOf) ==
    LET now == ParseUtcTimestamp(asOf)
    IN  IF now = {} \/ \E n \in now, f \in ParseUtcTimestamp(claim.from) : n < f THEN "not_yet_valid"
        ELSE IF \E n \in now, u \in ParseUtcTimestamp(claim.until) : n >= u THEN "expired"
        ELSE "current"

---------------------------------------------------------------------------
(* Authority.  Levels and sensitivities are numbers in their order.        *)

Untrusted == 0
Observation == 1
ProjectFact == 2
ProjectConstraint == 3
ProjectAuthority == 4

OriginCeiling(who) ==
    CASE who \in {"inferred", "tool", "external"} -> Observation
      [] who = "user" -> ProjectFact
      [] who \in {"operator", "reviewer"} -> ProjectConstraint

ProvenanceRoleCeiling(role) ==
    CASE role \in {"agent_inference", "external_material", "tool_observation",
                   "unverified_third_party_statement"} -> Observation
      [] role = "user_requirement" -> ProjectFact
      [] role \in {"operator_instruction", "reviewed_architecture_decision"} -> ProjectConstraint
      [] role = "canonical_human_statement" -> ProjectAuthority

SourceRoleIsPreserved(who, role) ==
    <<who, role>> \in
        {<<"external", "external_material">>, <<"external", "unverified_third_party_statement">>,
         <<"tool", "tool_observation">>, <<"inferred", "agent_inference">>,
         <<"user", "user_requirement">>, <<"user", "canonical_human_statement">>,
         <<"operator", "operator_instruction">>, <<"operator", "canonical_human_statement">>,
         <<"reviewer", "reviewed_architecture_decision">>,
         <<"reviewer", "canonical_human_statement">>}

\* The grants that permit a query; an actor has one at most.
ActorGrants(q) ==
    {g \in Policy.grants : /\ g.actor = q.actor /\ q.use \in g.uses
                           /\ q.project \in g.projects /\ q.project = Policy.project}

ClaimWithinGrant(claim, g) == claim.sensitivity <= g.sensitivity /\ claim.authority <= g.authority

ClaimInScope(claim, q) ==
    /\ "" \in {claim.case, q.case} \/ claim.case = q.case
    /\ "" \in {claim.project, q.project} \/ claim.project = q.project
    /\ claim.actors = {} \/ q.actor \in claim.actors
    /\ {} \in {q.actors, claim.actors} \/ q.actors \cap claim.actors # {}

---------------------------------------------------------------------------
(* Contracts.                                                              *)

RecordIsValid(record) == record.complete /\ ParseUtcTimestamp(record.captured) # {}

\* What is wrong with a claim; the kinds that need a valid time come from the policy, if any.
ClaimFindings(claim, timedKinds) ==
    {f \in {"incomplete", "missing_source", "model_trust_assertion_refused", "invalid_valid_time",
            "valid_time_required", "authority_amplification"} :
        CASE f = "incomplete"                    -> ~claim.complete
          [] f = "missing_source"                -> claim.sources = {}
          [] f = "model_trust_assertion_refused" -> ~claim.untrusted
          [] f = "invalid_valid_time"            -> ~ValidTime(claim)
          [] f = "valid_time_required"           -> claim.kind \in timedKinds /\ claim.from = <<>>
          [] f = "authority_amplification"       -> claim.authority > ProvenanceRoleCeiling(claim.role)}

ValidateMemoryClaim(claim) ==
    ClaimFindings(claim, Policy.timedKinds)
    \cup {f \in {"claim_project_outside_policy"} : claim.project # Policy.project}

PolicyIsValid ==
    /\ Policy.complete
    /\ \A g, h \in Policy.grants : g.actor = h.actor => g = h
    /\ \A g \in Policy.grants : g.uses # {} /\ g.projects # {}
    /\ Policy.hardTypes \subseteq {"contradicts"}

QueryIsValid(q) ==
    /\ q.complete /\ ParseUtcTimestamp(q.asOf) # {}
    /\ q.items > 0 /\ q.tokens > 0
    /\ q.project = Policy.project

---------------------------------------------------------------------------
(* Relations between claims.                                               *)

AcceptedRelations(cs) ==
    {r \in cs.rels :
        \/ "review" \in DOMAIN r /\ r.review = "accepted"
        \/ \E i \in DOMAIN cs.log : cs.log[i].status = "accepted" /\ r.id \in RelIds(cs.log[i].addedRels)}

Hiding == {"supersedes", "invalidates", "retracts"}
Retracting == {"invalidates", "retracts"}

HidingClaims(cs, c, types) ==
    {r.from : r \in {s \in AcceptedRelations(cs) : s.to = c /\ s.type \in types}}

Contradictions(cs) == {r \in AcceptedRelations(cs) : r.type = "contradicts"}
IsHard(r) == r.hard \/ r.type \in Policy.hardTypes

HasSourceRelation(cs, c, f) ==
    \E r \in AcceptedRelations(cs) : r.from = c /\ r.to = f /\ r.type = "derives_from"

\* A capability that lets the claim have more authority than its sources have.
HasAuthorityBinding(cs, claim) ==
    \E r \in AcceptedRelations(cs) :
        /\ r.from = claim.id /\ r.type = "authorized_by" /\ r.hard
        /\ r.to \in CellsOf(cs, "capability")
        /\ cs.cells[r.to].life \in {"active", "accepted"} /\ cs.cells[r.to].review = "accepted"
        /\ "level" \in DOMAIN cs.cells[r.to] /\ cs.cells[r.to].level >= claim.authority

\* The names of attached artifacts are their hashes.
DigestOf(cs, f) == IF "digest" \in DOMAIN cs.cells[f] THEN cs.cells[f].digest ELSE f

SourcesAreImmutable(cs, claim, records) ==
    /\ claim.sources # {}
    /\ \A f \in claim.sources :
          /\ \E r \in records : r.hash = f /\ RecordIsValid(r)
          /\ HasSourceRelation(cs, claim.id, f)
          /\ f \in CellsOf(cs, "artifact") /\ DigestOf(cs, f) = f

---------------------------------------------------------------------------
(* The state of one claim, before other claims are looked at.              *)

MemoryCells(cs) == {c \in DOMAIN cs.cells : "claim" \in DOMAIN cs.cells[c]}
Parsed(cs, c) == "id" \in DOMAIN cs.cells[c].claim

\* What its sources say against a claim: the first of these that applies.
SourceDefect(cs, c) ==
    LET cell == cs.cells[c]
    IN  IF ~("records" \in DOMAIN cell /\ SourcesAreImmutable(cs, cell.claim, cell.records))
          THEN "unsupported_source"
        ELSE IF /\ \E r \in cell.records : cell.claim.authority > OriginCeiling(r.origin)
                /\ ~HasAuthorityBinding(cs, cell.claim)
          THEN "authority_amplification"
        ELSE IF \E r \in cell.records : cell.claim.sensitivity < r.sensitivity
          THEN "sensitivity_downgrade"
        ELSE IF \E r \in cell.records : ~SourceRoleIsPreserved(r.origin, cell.claim.role)
          THEN "provenance_role_mismatch"
        ELSE "none"

\* An authorised elevation excuses a claim from the ceiling of its role.
ContractFindings(cs, claim) ==
    ValidateMemoryClaim(claim)
      \ (IF HasAuthorityBinding(cs, claim) THEN {"authority_amplification"} ELSE {})

\* Why a claim cannot be accepted, whatever its review says.
Defect(cs, c) ==
    IF SourceDefect(cs, c) # "none" THEN SourceDefect(cs, c)
    ELSE IF ContractFindings(cs, cs.cells[c].claim) # {} THEN "invalid_claim_contract"
    ELSE IF cs.cells[c].claim.id # c THEN "claim_identity_mismatch"
    ELSE "none"

EffectiveReview(cs, c) ==
    IF cs.cells[c].type = "evidence" THEN EffectiveReviewStatus(cs, c) ELSE "none"

ReviewedStatus(cs, c) ==
    IF cs.cells[c].life = "rejected" \/ EffectiveReview(cs, c) = "rejected" THEN "rejected"
    ELSE IF c \in TrustedEvidence(cs) /\ EffectiveReview(cs, c) = "accepted" THEN "accepted"
    ELSE "candidate"

\* The status of a claim at the time asked about, and the reason to leave it out.
TimedStatus(cs, q, c) ==
    LET status == IF Defect(cs, c) = "none" THEN ReviewedStatus(cs, c) ELSE "candidate"
        when == Disposition(cs.cells[c].claim, q.asOf)
    IN  IF status = "accepted" /\ when = "expired"
          THEN [status |-> "expired", reason |-> "expired"]
        ELSE IF status = "accepted" /\ when = "not_yet_valid"
          THEN [status |-> status, reason |-> "not_yet_valid"]
        ELSE [status |-> status, reason |-> Defect(cs, c)]

DeriveBase(cs, q, g, c) ==
    IF ~Parsed(cs, c)
      THEN [status |-> "candidate", reason |-> "invalid_claim_contract", hard |-> FALSE]
      ELSE LET claim == cs.cells[c].claim
               timed == TimedStatus(cs, q, c)
           IN [status |-> timed.status, hard |-> FALSE,
               reason |->
                 IF ~ClaimInScope(claim, q) THEN "outside_scope"
                 ELSE IF ~ClaimWithinGrant(claim, g) THEN "outside_authority_grant"
                 ELSE IF q.kinds # {} /\ claim.kind \notin q.kinds THEN "memory_kind_filtered"
                 ELSE IF timed.status = "candidate" /\ timed.reason = "none" THEN "candidate"
                 ELSE IF timed.status = "rejected" THEN "rejected"
                 ELSE timed.reason]

\* Reasons for which a claim is out of the reader's sight altogether.
PreRankExclusions ==
    {"outside_scope", "outside_authority_grant", "memory_kind_filtered", "unsupported_source",
     "invalid_claim_contract", "claim_identity_mismatch", "authority_amplification",
     "provenance_role_mismatch", "sensitivity_downgrade"}

GrantOf(q) == CHOOSE g \in ActorGrants(q) : TRUE
Base(cs, q) == [c \in MemoryCells(cs) |-> DeriveBase(cs, q, GrantOf(q), c)]

AcceptedCurrent(cs, q, states) ==
    {c \in DOMAIN states : /\ states[c].status = "accepted" /\ states[c].reason = "none"
                           /\ Disposition(cs.cells[c].claim, q.asOf) = "current"}

---------------------------------------------------------------------------
(* Conflicts.                                                              *)

\* The claims among `current' that no claim of `hiders' hides.
Unhidden(cs, current, hiders) ==
    {c \in current : HidingClaims(cs, c, Hiding) \cap hiders = {}}

ConflictsAmong(cs, visible) ==
    LET EdgesOf(c) == {r \in Contradictions(cs) : c \in {r.from, r.to} /\ {r.from, r.to} \subseteq visible}
    IN  [c \in {x \in visible : EdgesOf(x) # {}} |-> \E r \in EdgesOf(c) : IsHard(r)]

\* Variant: what is already known to be contested is not looked at again.
ConflictPassOfRest(cs, current, known) ==
    ConflictsAmong(cs, Unhidden(cs, current, current \ DOMAIN known) \ DOMAIN known)

\* One pass: a claim that is known to be contested hides nothing.
ConflictPass(cs, current, known) ==
    ConflictsAmong(cs, Unhidden(cs, current, current \ DOMAIN known))

---------------------------------------------------------------------------
(* The projection.                                                         *)

\* Claims of any time or review may be hidden; only current ones are contested.
Outcome(cs, state, active, known, c) ==
    IF state.reason \in PreRankExclusions \/ state.status \notin {"accepted", "expired"} THEN state
    ELSE IF HidingClaims(cs, c, Retracting) \cap active # {}
      THEN [status |-> "retracted", reason |-> "retracted", hard |-> state.hard]
    ELSE IF HidingClaims(cs, c, {"supersedes"}) \cap active # {}
      THEN [status |-> "superseded", reason |-> "superseded", hard |-> state.hard]
    ELSE IF c \in DOMAIN known
      THEN [status |-> "contested", hard |-> known[c],
            reason |-> IF known[c] THEN "hard_conflict" ELSE "contested"]
    ELSE state

IncludedByStatus(outcome, q) ==
    /\ outcome.reason \notin PreRankExclusions
    /\ CASE outcome.status = "accepted"  -> outcome.reason # "not_yet_valid" \/ q.historical
         [] outcome.status = "contested" -> q.contested
         [] OTHER                        -> q.historical

RelevanceScore(cs, q, c) == Cardinality({i \in DOMAIN q.terms : q.terms[i] \in cs.cells[c].claim.terms})

Ranked(cs, q, eligible) ==
    LET Before(c, d) ==
            \/ RelevanceScore(cs, q, c) > RelevanceScore(cs, q, d)
            \/ /\ RelevanceScore(cs, q, c) = RelevanceScore(cs, q, d)
               /\ cs.cells[c].claim.rank < cs.cells[d].claim.rank
    IN  [i \in 1 .. Cardinality(eligible) |->
           CHOOSE c \in eligible : Cardinality({d \in eligible : Before(d, c)}) = i - 1]

\* The ranked claims one after the other, as long as items and tokens last; a claim that is
\* too large is passed over.
Budgeted(cs, q, ranked) ==
    LET after[i \in 0 .. Len(ranked)] ==
            IF i = 0 THEN [taken |-> {}, tokens |-> 0, lost |-> <<>>]
            ELSE LET before == after[i - 1]
                     c == ranked[i]
                     tokens == before.tokens + cs.cells[c].claim.tokens
                 IN  IF Cardinality(before.taken) >= q.items
                       THEN [before EXCEPT !.lost = @ @@ (c :> "item_budget")]
                     ELSE IF tokens > q.tokens
                       THEN [before EXCEPT !.lost = @ @@ (c :> "token_budget")]
                     ELSE [before EXCEPT !.taken = @ \cup {c}, !.tokens = tokens]
    IN  after[Len(ranked)]

Projection(cs, q, states, known) ==
    LET active == AcceptedCurrent(cs, q, states) \ DOMAIN known
        outcomes == [c \in DOMAIN states |-> Outcome(cs, states[c], active, known, c)]
        eligible == {c \in DOMAIN outcomes : IncludedByStatus(outcomes[c], q)}
        budgeted == Budgeted(cs, q, Ranked(cs, q, eligible))
        selected == eligible \cap budgeted.taken
    IN  [revision |-> Len(cs.log), outcomes |-> outcomes, selected |-> selected,
         contested |-> {c \in DOMAIN outcomes : outcomes[c].status = "contested"},
         omitted |-> [c \in DOMAIN outcomes \ selected |->
                        IF c \in eligible THEN budgeted.lost[c]
                        ELSE IF outcomes[c].reason = "none" THEN outcomes[c].status
                        ELSE outcomes[c].reason]]

---------------------------------------------------------------------------
(* Proposals.  They change nothing: a host may attach the cell later.      *)

DefaultTimedKinds == {"preference", "goal", "commitment"}

\* Variant: the role of a claim is not compared with the origin of its source.
ProposalIsValidAnyRole(d) ==
    /\ RecordIsValid(d.record) /\ d.record.hash = d.artifact
    /\ ClaimFindings(d.claim, DefaultTimedKinds) = {}
    /\ d.artifact \in d.claim.sources
    /\ ~(d.claim.authority > OriginCeiling(d.record.origin))
    /\ ~(d.claim.sensitivity < d.record.sensitivity)

ProposalIsValid(d) ==
    /\ RecordIsValid(d.record) /\ d.record.hash = d.artifact
    /\ ClaimFindings(d.claim, DefaultTimedKinds) = {}
    /\ d.artifact \in d.claim.sources
    /\ ~(d.claim.authority > OriginCeiling(d.record.origin))
    /\ ~(d.claim.sensitivity < d.record.sensitivity)
    /\ SourceRoleIsPreserved(d.record.origin, d.claim.role)

\* An evidence cell without a boundary counts as inferred.
ClaimCell(d) ==
    [type |-> "evidence", life |-> "proposed", review |-> "unreviewed", boundary |-> "inferred",
     source |-> TRUE, structure |-> {}, claim |-> d.claim, records |-> {d.record}]

\* memory propose and the host's proposal tools; what the claim would supersede or retract
\* must be there.
MemoryPropose(d) ==
    /\ PolicyIsValid
    /\ ValidateMemoryClaim(d.claim) = {} /\ ProposalIsValid(d)
    /\ d.claim.case = "this case"
    /\ d.tool = "procedure" => d.claim.kind = "procedure"
    /\ d.tool \in {"supersession", "retraction"} => d.target \in MemoryCells(space)
    /\ proposed' = proposed \cup {d}
    /\ UNCHANGED <<vars, phase, asked, seen, base, contested, answer, index>>

---------------------------------------------------------------------------
(* Reads.                                                                  *)

\* Some commands ask for more than their query does.
ReadQuery(mode, q) ==
    [q EXCEPT !.historical = @ \/ mode \in {"explain", "history", "candidates"},
              !.contested = @ \/ mode \in {"explain", "history", "candidates", "conflicts"}]

\* A query names the revision it is about, which must be the one that is replayed.
StartRead(read) ==
    /\ phase = "idle"
    /\ PolicyIsValid /\ QueryIsValid(read.query)
    /\ ActorGrants(read.query) # {}
    /\ phase' = "resolve"
    /\ asked' = [read EXCEPT !.query = ReadQuery(read.mode, read.query)]
    /\ seen' = space
    /\ base' = Base(space, asked'.query)
    /\ contested' = <<>>
    /\ answer' = NoAnswer
    /\ UNCHANGED <<vars, index, proposed>>

\* Variant: one pass is enough.
SettledAtOnce(next) == TRUE

Settled(next) == next = contested

\* One turn of the loop in resolve_current_conflicts.
ResolveConflicts ==
    /\ phase = "resolve"
    /\ LET next == ConflictPass(seen, AcceptedCurrent(seen, asked.query, base), contested)
       IN /\ contested' = next
          /\ phase' = IF Settled(next) THEN "project" ELSE "resolve"
    /\ UNCHANGED <<vars, asked, seen, base, answer, index, proposed>>

IndexOf(read, p) == [revision |-> p.revision, query |-> read.query, claims |-> p.selected]

\* Variant: an index is compared with nothing but itself.
IndexIsValidAlone(read, p) == index # NoIndex

IndexIsValid(read, p) == index = IndexOf(read, p)

\* The claims that the command's answer shows, or that a validated index stands for.
Shown(read, p) ==
    CASE read.mode = "conflicts" ->
           {c \in p.selected : p.outcomes[c].hard \/ p.outcomes[c].status = "contested"}
      [] read.mode \in {"explain", "history", "sources"} -> p.selected \cap {read.target}
      [] read.mode = "index validate" -> IF IndexIsValid(read, p) THEN index.claims ELSE {}
      [] OTHER -> p.selected

AnswerRead ==
    /\ phase = "project"
    /\ LET p == Projection(seen, asked.query, base, contested)
       IN /\ answer' = [mode |-> asked.mode, projection |-> p, shown |-> Shown(asked, p)]
          /\ index' = IF asked.mode = "index rebuild" THEN IndexOf(asked, p) ELSE index
    /\ phase' = "idle"
    /\ UNCHANGED <<vars, asked, seen, base, contested, proposed>>

\* The index is an ordinary file.
EditIndexFile(claims) ==
    /\ index # NoIndex
    /\ index' = [index EXCEPT !.claims = claims]
    /\ UNCHANGED <<vars, phase, asked, seen, base, contested, answer, proposed>>

CaseMoves == Next /\ UNCHANGED memory

MemoryInit ==
    /\ Init
    /\ phase = "idle" /\ asked = <<>> /\ seen = space /\ base = <<>> /\ contested = <<>>
    /\ answer = NoAnswer /\ index = NoIndex /\ proposed = {}

MemoryNext ==
    \/ CaseMoves
    \/ \E d \in Drafts : MemoryPropose(d)
    \/ \E read \in origin.reads : StartRead(read)
    \/ ResolveConflicts
    \/ AnswerRead
    \/ \E claims \in IndexEdits : EditIndexFile(claims)

memoryVars == <<vars, memory>>

\* The loop in resolve_current_conflicts waits for nobody.
MemorySpec == MemoryInit /\ [][MemoryNext]_memoryVars /\ WF_memoryVars(ResolveConflicts)

---------------------------------------------------------------------------
(* Properties.                                                             *)

Covers(new, old) == DOMAIN old \subseteq DOMAIN new /\ \A c \in DOMAIN old : old[c] => new[c]

\* While a read resolves conflicts, the contested claims only grow in number, and a hard
\* conflict stays hard: a claim that is found contested stops hiding others, which can only
\* bring more conflicts to light.
ContestedOnlyGrows == [][phase = "resolve" => Covers(contested', contested)]_memoryVars

\* The loop that resolves conflicts ends, whatever the claims hide and contradict.
ConflictsSettle == phase = "resolve" ~> phase = "project"

InSight(p) == {c \in DOMAIN p.outcomes : p.outcomes[c].reason \notin PreRankExclusions}
CurrentIn(p) ==
    {c \in DOMAIN p.outcomes : p.outcomes[c].status = "accepted" /\ p.outcomes[c].reason = "none"}

\* No two claims that an answer calls accepted and current contradict each other.
NoHiddenConflict(p) == \A r \in Contradictions(seen) : ~({r.from, r.to} \subseteq CurrentIn(p))

\* A claim is hidden only by an accepted claim of that time which the reader may see and
\* which is not contested itself.
HidingIsJustified(p) ==
    \A c \in DOMAIN p.outcomes : p.outcomes[c].status \in {"retracted", "superseded"} =>
        \E d \in HidingClaims(seen, c, Hiding) \cap InSight(p) :
            /\ p.outcomes[d].status \in {"accepted", "retracted", "superseded"}
            /\ Disposition(seen.cells[d].claim, asked.query.asOf) = "current"

\* A claim is contested only by another contested claim.
ConflictIsMutual(p) ==
    \A c \in p.contested : \E r \in Contradictions(seen) : c \in {r.from, r.to} /\ {r.from, r.to} \subseteq p.contested

\* What an answer says of the claims fits together: conflicts among current claims show,
\* nothing is hidden by a claim that is contested or out of the reader's sight.
AnswersAreConsistent ==
    answer # NoAnswer =>
        /\ NoHiddenConflict(answer.projection)
        /\ HidingIsJustified(answer.projection)
        /\ ConflictIsMutual(answer.projection)

\* The reviews of c in the case that was read; the last one is an acceptance by an actor
\* with the right to review.
LastReviewAccepts(c) ==
    LET reviews == {i \in DOMAIN seen.log : seen.log[i].kind = "evidence" /\ seen.log[i].target = <<"cell", c>>}
    IN  IF reviews = {} THEN seen.cells[c].review = "accepted" /\ c \in seen.log[1].added
        ELSE /\ seen.log[Max(reviews)].action = "accept"
             /\ \E i \in DOMAIN seen.log : i < Max(reviews) /\ c \in seen.log[i].added

\* Whatever an answer or a validated index shows is within the reader's grant; and what it
\* shows as accepted was accepted after it was attached, by a review that stands, has not
\* expired at the time asked about, names sources that are in the case, and has no more
\* authority and no less sensitivity than each of them, unless a capability of the case
\* confers that authority.
AcceptedMemoryIsEarned ==
    answer # NoAnswer =>
        \A c \in answer.shown :
            LET claim == seen.cells[c].claim
                now == ParseUtcTimestamp(asked.query.asOf)
            IN  /\ \E g \in Policy.grants : /\ g.actor = asked.query.actor
                                            /\ claim.sensitivity <= g.sensitivity
                                            /\ claim.authority <= g.authority
                /\ claim.actors = {} \/ asked.query.actor \in claim.actors
                /\ answer.projection.outcomes[c].status = "accepted" =>
                     /\ LastReviewAccepts(c)
                     /\ \A n \in now, u \in ParseUtcTimestamp(claim.until) : ~(n >= u)
                     /\ claim.sources # {} /\ claim.sources \subseteq CellsOf(seen, "artifact")
                     /\ \A f \in claim.sources :
                           \E r \in seen.cells[c].records :
                              r.hash = f /\ ~(claim.sensitivity < r.sensitivity)
                              /\ \/ ~(claim.authority > OriginCeiling(r.origin))
                                 \/ \E k \in CellsOf(seen, "capability") :
                                       /\ k \in DOMAIN origin.genesis.cells
                                       /\ seen.cells[k].level >= claim.authority

\* The two validators agree: a claim that memory propose let through, once it is attached
\* as it was proposed with its one source, an artifact under its own hash, is never refused
\* by the read path for its contract, sources, authority, sensitivity or role.
ProposalsAreReadable ==
    \A d \in proposed :
        LET c == d.claim.id
        IN  /\ c \in DOMAIN cells /\ "claim" \in DOMAIN cells[c]
            /\ [cells[c] EXCEPT !.life = "proposed"] = ClaimCell(d)
            /\ d.claim.sources = {d.artifact} /\ HasSourceRelation(space, c, d.artifact)
            /\ d.artifact \in CellsOf(space, "artifact") /\ DigestOf(space, d.artifact) = d.artifact
            => Defect(space, c) = "none"

\* Revision is by new claims and relations, not by writing in place: a claim that an answer
\* calls accepted reads as it was attached or lifted, and so as its reviewer saw it.
ClaimsReadAsReviewed ==
    answer # NoAnswer =>
        \A c \in CurrentIn(answer.projection) :
            seen.cells[c].claim =
              IF c \in DOMAIN origin.genesis.cells THEN origin.genesis.cells[c].claim ELSE Inputs[c].claim

\* A claim that an accepted, current and uncontested claim supersedes is not shown as
\* accepted to a reader who may see both.
SupersededIsNotCurrent ==
    answer # NoAnswer =>
        LET whole == [asked.query EXCEPT !.kinds = {}]
        IN  \A c \in CurrentIn(answer.projection) :
              HidingClaims(seen, c, {"supersedes"}) \cap (AcceptedCurrent(seen, whole, Base(seen, whole)) \ DOMAIN contested) = {}
===========================================================================
