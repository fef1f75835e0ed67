--------------------------- MODULE MCMemoryPlane ---------------------------
(* Instances of MemoryPlane: every small graph of claims that hide and       *)
(* contradict each other, and a case whose claims are attached, reviewed,    *)
(* related and read in any order.                                            *)
EXTENDS MemoryPlane

MemoryGrants == [c \in {"cap"} |->
    {<<"worker", "evidence-attach">>, <<"worker", "morphism-apply">>, <<"reviewer", "review">>}]

Cell(type, life, review, boundary) ==
    [type |-> type, life |-> life, review |-> review, boundary |-> boundary, source |-> TRUE,
     structure |-> {}]
Rel(id, type, hard, from, to) == [id |-> id, type |-> type, hard |-> hard, from |-> from, to |-> to]

Lifted(cs, rs) ==
    [cells |-> cs, rels |-> rs,
     log |-> <<[id |-> <<"genesis">>, type |-> "create", kind |-> "none", target |-> <<>>,
                action |-> "none", canonical |-> FALSE, status |-> "accepted", added |-> DOMAIN cs,
                addedRels |-> rs, cells |-> DOMAIN cs, rels |-> RelIds(rs), actor |-> "lift",
                content |-> <<>>]>>]

Claim(id, rank) ==
    [id |-> id, kind |-> "fact", case |-> "this case", project |-> "p", actors |-> {},
     from |-> <<>>, until |-> <<>>, sources |-> {"paper"}, terms |-> {}, rank |-> rank, tokens |-> 1,
     untrusted |-> TRUE, complete |-> TRUE, role |-> "user_requirement", authority |-> ProjectFact,
     sensitivity |-> 0]
Paper == [hash |-> "paper", complete |-> TRUE, captured |-> <<2024, 2, 1, 0>>, origin |-> "user",
          sensitivity |-> 0]

\* A claim that was reviewed before it was lifted.
Reviewed(claim, record) ==
    [claim |-> claim, records |-> {record}] @@ Cell("evidence", "active", "accepted", "source_backed")

Fixed == [c \in {"cap", "paper"} |->
            IF c = "cap" THEN [level |-> ProjectConstraint] @@ Cell("capability", "accepted", "accepted", "none")
            ELSE Cell("artifact", "resolved", "unreviewed", "none")]
Derives(c, f) == Rel(<<"derives", c, f>>, "derives_from", FALSE, c, f)

Query ==
    [complete |-> TRUE, actor |-> "lead", use |-> "work", project |-> "p", case |-> "this case",
     actors |-> {}, kinds |-> {}, asOf |-> <<2024, 3, 1, 0>>, items |-> 2, tokens |-> 2,
     terms |-> <<"build">>, historical |-> FALSE, contested |-> FALSE]
Read(mode, target, q) == [mode |-> mode, target |-> target, query |-> q]

ProjectPolicy ==
    [complete |-> TRUE, project |-> "p", timedKinds |-> {"goal"}, hardTypes |-> {},
     grants |-> {[actor |-> "lead", uses |-> {"work"}, projects |-> {"p"}, sensitivity |-> 2,
                  authority |-> ProjectConstraint],
                 [actor |-> "guest", uses |-> {"work"}, projects |-> {"p"}, sensitivity |-> 0,
                  authority |-> ProjectFact]}]

---------------------------------------------------------------------------
(* Every graph of four claims with three edges at most.                    *)

Four == {"a", "b", "c", "d"}
RankOf(c) == CASE c = "a" -> 1 [] c = "b" -> 2 [] c = "c" -> 3 [] c = "d" -> 4

Edges ==
    {Rel(<<"hides", p[1], p[2]>>, "supersedes", TRUE, p[1], p[2]) : p \in {x \in Four \X Four : x[1] # x[2]}}
    \cup {Rel(<<"contradicts", p[1], p[2], h>>, "contradicts", h, p[1], p[2]) :
            p \in {x \in Four \X Four : RankOf(x[1]) < RankOf(x[2])}, h \in BOOLEAN}

GraphGenesis(edges) ==
    Lifted(Fixed @@ [c \in Four |-> Reviewed(Claim(c, RankOf(c)), Paper)],
           edges \cup {Derives(c, "paper") : c \in Four})

GraphCase(edges) ==
    [genesis |-> GraphGenesis(edges), batches |-> {}, packets |-> {}, changes |-> {}, plans |-> {},
     scope |-> {}, reads |-> {Read("query", "a", Query)}]

GraphCases == {GraphCase({e, f, g}) : e, f, g \in Edges}

---------------------------------------------------------------------------
(* A case that moves: a fact that a later one supersedes, a secret that     *)
(* retracts it, a goal that ran out at the end of a leap month, a claim     *)
(* with more authority than its source, and claims that are attached.       *)

Old == [Claim("old", 1) EXCEPT !.terms = {"build"}]
New == [Claim("new", 2) EXCEPT !.kind = "decision"]
Secret == [Claim("secret", 3) EXCEPT !.sensitivity = 1, !.actors = {"lead"}]
Goal == [Claim("goal", 4) EXCEPT !.kind = "goal", !.from = <<2024, 2, 29, 0>>, !.until = <<2024, 3, 1, 0>>]
Law == [Claim("law", 5) EXCEPT !.authority = ProjectConstraint, !.role = "canonical_human_statement"]

MovingGenesis ==
    LET claims == {Old, New, Secret, Goal, Law}
    IN  Lifted(Fixed @@ [c \in {x.id : x \in claims} |-> Reviewed(CHOOSE x \in claims : x.id = c, Paper)],
               {Derives(c.id, "paper") : c \in claims}
               \cup {Rel(<<"later">>, "supersedes", TRUE, "new", "old"),
                     Rel(<<"withdrawn">>, "retracts", TRUE, "secret", "old"),
                     Rel(<<"sanctioned">>, "authorized_by", TRUE, "law", "cap")})

Draft(claim, record) ==
    [claim |-> claim, record |-> record, artifact |-> record.hash, tool |-> "supersession", target |-> "old"]
Note == [hash |-> "note", complete |-> TRUE, captured |-> <<2024, 2, 29, 60>>, origin |-> "tool",
         sensitivity |-> 1]
\* One as it should be; the others pass a tool's output off as something it is not.
Measured == [Claim("measured", 6) EXCEPT !.sources = {"note"}, !.role = "tool_observation",
                                         !.authority = Observation, !.sensitivity = 1]
Posed == [Measured EXCEPT !.id = "posed", !.role = "agent_inference"]
Raised == [Measured EXCEPT !.id = "raised", !.authority = ProjectFact]

AllDrafts == {Draft(x, Note) : x \in {Measured, Posed, Raised}}
DraftInputs == [c \in {d.claim.id : d \in AllDrafts} |-> ClaimCell(CHOOSE d \in AllDrafts : d.claim.id = c)]

Attachment(c) == [claim |-> c, satisfies |-> {}, artifacts |-> {"note"}]
AddEdge(id, rel) == [id |-> id, change |-> [NoChange EXCEPT !.type = "update", !.rels = {rel}]]
Rewrite(id, c, claim) == [id |-> id, change |-> [NoChange EXCEPT !.type = "update", !.sets = {<<c, "claim", claim>>}]]

Guest == [Query EXCEPT !.actor = "guest"]

MovingReads ==
    {Read("query", "old", Query), Read("history", "old", Guest),
     Read("explain", "goal", [Query EXCEPT !.items = 6, !.tokens = 6, !.asOf = <<2024, 2, 29, 86399>>]),
     Read("conflicts", "old", [Query EXCEPT !.items = 6]), Read("sources", "measured", Query),
     Read("candidates", "old", [Query EXCEPT !.actors = {"guest"}]),
     Read("query", "old", [Query EXCEPT !.asOf = <<2024, 2, 30, 0>>]),
     Read("index rebuild", "old", Guest), Read("index validate", "old", Guest)}

MovingCase ==
    [genesis |-> MovingGenesis, batches |-> {{Attachment("measured")}, {Attachment("posed")}}, packets |-> {},
     changes |-> {AddEdge(<<"rival">>, Rel(<<"disputed">>, "contradicts", TRUE, "new", "old"))},
     plans |-> {}, scope |-> {<<"cell", c>> : c \in {"new", "measured", "posed"}},
     reads |-> MovingReads]

MemoryCases == GraphCases \cup {MovingCase}

\* The same case with an edit of an accepted claim in place.
RewrittenCases ==
    {[MovingCase EXCEPT !.batches = {}, !.scope = {}, !.reads = {Read("query", "old", Query)},
                        !.changes = {Rewrite(<<"reword">>, "new", [New EXCEPT !.terms = {"ship"}])}]}

\* The same case read by kind.
FilteredCases ==
    {[MovingCase EXCEPT !.batches = {}, !.scope = {}, !.changes = {},
                        !.reads = {Read("query", "old", [Query EXCEPT !.kinds = {"fact"}, !.actor = "guest"])}]}
===========================================================================
