------------------------- MODULE MCCaseLifecycle -------------------------
(* Instances of CaseLifecycle: a work cell that requires evidence, a second *)
(* one that waits for an external event and depends on the first.          *)
EXTENDS CaseLifecycle

Cell(type, life, review, boundary, source) ==
    [type |-> type, life |-> life, review |-> review, boundary |-> boundary,
     source |-> source, structure |-> {}]
Rel(id, type, hard, from, to) == [id |-> id, type |-> type, hard |-> hard, from |-> from, to |-> to]

GenesisEntry(cs, rs) ==
    [id |-> <<"genesis">>, type |-> "create", kind |-> "none", target |-> <<>>, action |-> "none",
     canonical |-> FALSE, status |-> "accepted", added |-> DOMAIN cs, addedRels |-> rs,
     cells |-> DOMAIN cs, rels |-> RelIds(rs), actor |-> "lift", content |-> <<>>]

Lifted(cs, rs) == [cells |-> cs, rels |-> rs, log |-> <<GenesisEntry(cs, rs)>>]

Capability == Cell("capability", "active", "accepted", "none", TRUE)

GenesisCells ==
    [c \in {"build", "report", "signed"} |->
        IF c = "build" THEN Cell("work", "active", "unreviewed", "none", TRUE)
        ELSE IF c = "report" THEN Cell("evidence", "active", "unreviewed", "inferred", TRUE)
        ELSE Cell("evidence", "active", "unreviewed", "source_backed", TRUE)]
    @@ [c \in {"cap"} |-> [Capability EXCEPT !.life = "accepted"]]

GenesisRels == {Rel(<<"needs report">>, "requires_evidence", TRUE, "build", "report"),
                Rel(<<"needs signature">>, "requires_evidence", TRUE, "build", "signed")}

EvidenceGenesis == Lifted(GenesisCells, GenesisRels)

PlanGenesis == Lifted(GenesisCells, {})

\* The shipping cell also waits for a release window and depends on the build.
HaltGenesis ==
    Lifted([c \in {"ship", "window"} |-> IF c = "ship" THEN Cell("work", "active", "unreviewed", "none", TRUE)
                                       ELSE Cell("event", "active", "unreviewed", "none", TRUE)]
           @@ GenesisCells,
           {Rel(<<"awaits">>, "waits_for", TRUE, "ship", "window")} \cup GenesisRels)

\* Two work cells that contradict each other; the evidence of one is signed.
ConflictGenesis ==
    Lifted("rival" :> Cell("work", "active", "unreviewed", "none", TRUE) @@ GenesisCells,
           {Rel(<<"needs signature">>, "requires_evidence", TRUE, "build", "signed"),
            Rel(<<"conflict">>, "contradicts", TRUE, "build", "rival")})

AllGrants == [c \in {"cap"} |->
    {<<"worker", "evidence-attach">>, <<"worker", "cell-transition">>, <<"worker", "morphism-apply">>,
     <<"reviewer", "review">>, <<"reviewer", "close-check">>, <<"reviewer", "plan-review">>, <<"reviewer", "morphism-reject">>}]

ClaimInputs ==
    [c \in {"claim", "second"} |-> Cell("evidence", "active", "unreviewed", "source_backed", TRUE)]

Attachment(claim, satisfies, artifacts) ==
    [claim |-> claim, satisfies |-> satisfies, artifacts |-> artifacts]

EvidenceBatches == {{Attachment("claim", {"report"}, {"file"})},
                    {Attachment("claim", {}, {"file"}), Attachment("second", {"report"}, {"file"})},
                    {Attachment("second", {"build"}, {})}}

EvidencePackets == {[claim |-> "claim", satisfies |-> {"report"}, artifacts |-> {},
                     cell |-> "build", life |-> "resolved"]}

Update(id, sets) == [id |-> id, change |-> [type |-> "update", sets |-> sets] @@ NoChange]
Retire(id, x) == [id |-> id, change |-> [type |-> "retire", retires |-> {x}] @@ NoChange]
AddEdge(id, rel) == [id |-> id, change |-> [type |-> "update", rels |-> {rel}] @@ NoChange]
AddCell(id, c, cell) == [id |-> id, change |-> [type |-> "update", adds |-> c :> cell] @@ NoChange]

\* Edits that can be applied, and edits that one of the reducer's rules refuses.
EvidenceChanges ==
    {AddEdge(<<"cover later">>, Rel(<<"late edge">>, "satisfies_evidence_requirement", FALSE, "claim", "report")),
     AddEdge(<<"require more">>, Rel(<<"needs claim">>, "requires_evidence", TRUE, "build", "claim")),
     Update(<<"widen">>, {<<"claim", "structure", {"report"}>>}),
     Update(<<"unsource">>, {<<"signed", "source", FALSE>>}),
     Update(<<"promote">>, {<<"report", "boundary", "source_backed">>}),
     Update(<<"resolve artifact">>, {<<"file", "life", "accepted">>}),
     Update(<<"relabel">>, {<<"build", "type", "capability">>}),
     Retire(<<"retire work">>, "build"), Retire(<<"retire artifact">>, "file"),
     Retire(<<"revoke">>, "cap"), [id |-> <<"drop edge">>, change |-> [type |-> "retire", drops |-> {<<"needs report">>}] @@ NoChange],
     AddCell(<<"trusted">>, "forged", Cell("evidence", "active", "unreviewed", "source_backed", TRUE)),
     AddCell(<<"untrusted">>, "forged", Cell("evidence", "active", "accepted", "inferred", TRUE)),
     AddCell(<<"grant">>, "forged", Capability),
     [id |-> <<"review">>, change |-> [type |-> "review"] @@ NoChange]}

EvidenceScope == {<<"cell", "claim">>, <<"cell", "report">>, <<"relation", <<"needs report">>>>,
                  <<"obstruction", "missing_evidence", "build", "report">>}

PlanChanges == {Retire(<<"retire work">>, "build")}

OnePlan == {[work |-> {"build"}, requirements |-> r] : r \in {{}, {"report"}}}

Nothing == [batches |-> {}, packets |-> {}, changes |-> {}, plans |-> {}, scope |-> {}]

EvidenceCase == [genesis |-> EvidenceGenesis, batches |-> EvidenceBatches, packets |-> EvidencePackets,
                 changes |-> EvidenceChanges, plans |-> {}, scope |-> EvidenceScope]
PlanCase == [genesis |-> PlanGenesis, changes |-> PlanChanges, plans |-> OnePlan] @@ Nothing
HaltCase == [genesis |-> HaltGenesis] @@ Nothing
ConflictCase == [genesis |-> ConflictGenesis,
                 scope |-> {<<"obstruction", "contradiction", c, <<"conflict">>>> : c \in {"build", "rival"}}] @@ Nothing

ReviewedCases == {EvidenceCase, PlanCase}
HaltingCases == {HaltCase}
ContradictoryCases == {ConflictCase}
===========================================================================
