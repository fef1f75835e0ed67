----------------------------- MODULE MCGraphRun ------------------------------
(***************************************************************************)
(* n1 streams one artifact to n2, which claims the file f and waits for    *)
(* evidence.  n1 fails and is retried; among what arrives are a second     *)
(* root, a retry of a success, a cycle of retries, a report of another     *)
(* graph, contradicting records and garbage.                               *)
(***************************************************************************)
EXTENDS GraphRun

NoPolicy == [k \in PolicyKinds |-> None]
Port(name) == [name |-> name, schema |-> "s"]
Claim == [resource |-> "f", mode |-> "write", group |-> "g", file |-> TRUE, isolated |-> FALSE]
Node(id, cl, delivery) ==
    [id |-> id, cell |-> id, class |-> "x", in |-> {Port("i")}, out |-> {Port("o")},
     effects |-> FALSE, claims |-> cl, pol |-> NoPolicy, delivery |-> delivery, dur |-> 1]
DataEdge == [id |-> "e1", from |-> "n1", to |-> "n2", kind |-> "data", out |-> "o",
             in |-> "i", schema |-> "s", scope |-> {}]
Gate == [DataEdge EXCEPT !.id = "e2", !.kind = "evidence", !.out = None, !.in = None,
                         !.schema = None]
InstanceTopology ==
    [id |-> "t", space |-> "case", nodes |-> {Node("n1", {}, "streaming"), Node("n2", {Claim}, "barrier")},
     edges |-> {DataEdge, Gate}, pols |-> [k \in PolicyKinds |-> {}]]
Other == [InstanceTopology EXCEPT !.edges = {DataEdge}]
Graph(t) == [id |-> t.id, hash |-> t]

Report(id, node, attempt, retry, ok, ins, outs) ==
    [id |-> id, known |-> TRUE, untrusted |-> TRUE, blank |-> {}, start |-> 1, finish |-> 2,
     graph |-> Graph(InstanceTopology), node |-> node, attempt |-> attempt, retry |-> retry,
     parents |-> IF node = "n2" THEN {"n1"} ELSE {}, ins |-> ins, outs |-> outs,
     expected |-> "s", actual |-> "s", status |-> IF ok THEN "succeeded" ELSE "timed_out",
     failure |-> IF ok THEN None ELSE "timeout", tokens |-> None, cost |-> None]
Content(b) == [bytes |-> b]
A == Address(Content("a"))
B == Address(Content("b"))
C == Address(Content("c"))
Failed == Report(1, "n1", "p1", None, FALSE, {}, {B})
Retried == Report(2, "n1", "p2", "p1", TRUE, {}, {A})
SecondRoot == Report(3, "n1", "p3", None, TRUE, {}, {A})
Stale == [Report(4, "n1", "p2", "p1", TRUE, {}, {B}) EXCEPT !.graph = Graph(Other)]
Consumer == Report(5, "n2", "q1", None, TRUE, {A}, {C})
Loop1 == Report(6, "n1", "p4", "p5", FALSE, {}, {})
Loop2 == Report(7, "n1", "p5", "p4", FALSE, {}, {})
RetryOfSuccess == Report(8, "n1", "p6", "p2", TRUE, {}, {A})
Circular == Report(10, "n1", "p1", "p2", FALSE, {}, {B})
Backwards == [Retried EXCEPT !.id = 9, !.finish = 0]

R(r) == [kind |-> "report", id |-> [report |-> r.id], body |-> r]
Bytes(b) == [kind |-> "artifact", id |-> Address(Content(b)), body |-> Content(b)]
Grant == GrantOf(Claim)
Alloc(id, res) == [id |-> id, reservation |-> res, attempt |-> "q1", grant |-> Grant,
                   untrusted |-> TRUE]
K(a) == [kind |-> "allocation", id |-> [allocation |-> a.id], body |-> a]
WholeRun == <<R(Consumer), R(Retried), Bytes("a"), R(Failed), Bytes("b"), Bytes("c"),
              K(Alloc("k1", "r1"))>>
CircularRun == <<R(Consumer), R(Retried), Bytes("a"), R(Circular), Bytes("b"), Bytes("c"),
                 K(Alloc("k1", "r1"))>>
InstanceBatches ==
    {WholeRun,
     <<R(Failed), R(Retried), Bytes("a"), Bytes("b")>>,
     <<R(Consumer), Bytes("c")>>,
     <<R(Consumer), Bytes("c"), K(Alloc("k1", "r1"))>>,
     <<R(Retried), R(Failed)>>,
     <<R(SecondRoot), Bytes("a")>>,
     <<R(Stale), Bytes("b")>>,
     <<R(Loop1), R(Loop2)>>,
     <<R(RetryOfSuccess)>>,
     CircularRun,
     <<R([Retried EXCEPT !.outs = {A, B}])>>,
     <<R(Backwards), [Bytes("a") EXCEPT !.body = Content("b")], [kind |-> "garbage"]>>,
     <<K(Alloc("k1", "r2")), K(Alloc("k2", "r1"))>>}

Chunk(id, seq, index, final) ==
    [id |-> id, valid |-> TRUE, graph |-> Graph(InstanceTopology), node |-> "n1",
     attempt |-> "p2", seq |-> seq, kind |-> "chunk", edge |-> "e1", artifact |-> A,
     schema |-> "s", index |-> index, hashed |-> TRUE, final |-> final]
InstanceEvents ==
    {Chunk("v1", 0, 0, TRUE), Chunk("v1", 0, 0, FALSE), Chunk("v2", 1, 1, TRUE),
     Chunk("v3", 0, 1, TRUE),
     [Chunk("v4", 2, 0, TRUE) EXCEPT !.edge = "e9"],
     [Chunk("v5", 0, 0, TRUE) EXCEPT !.graph = Graph(Other)]}

Declaration == [id |-> "d1", graph |-> Graph(InstanceTopology), node |-> "n2", claims |-> {Claim}]
Reservation == [id |-> "r1", decl |-> "d1", attempt |-> "q1", grants |-> {Grant}]
Authority(r) == [topology |-> InstanceTopology, rev |-> r, space |-> "case", node |-> "n2",
                 attempt |-> "q1", decl |-> Declaration]
Entry(r, allocations) ==
    [node |-> "n2", attempt |-> "q1", authority |-> Authority(r), decl |-> Declaration,
     res |-> Reservation, allocations |-> allocations, dispositions |-> {}]
Bundle(r, entries) == [topology |-> InstanceTopology, rev |-> r, entries |-> entries]
InstanceBundles ==
    {Bundle(0, {Entry(0, {Alloc("k1", "r1")})}), Bundle(0, {Entry(0, {})}),
     Bundle(2, {Entry(2, {Alloc("k1", "r1")})}),
     Bundle(0, {[Entry(0, {}) EXCEPT !.authority = None]})}
InstanceJournal == {[decl |-> Declaration, res |-> Reservation, authority |-> Authority(0)]}

InstanceGiven == {GraphExpectation(InstanceTopology), GraphExpectation(Other)}
InstanceResources == {{}, {[decl |-> Declaration, res |-> Reservation]}}

\* The worker may also review; another reviewer may only review.
InstanceGrants == ("work" :> {<<"worker", "dispatch">>, <<"worker", "review">>})
                  @@ ("judge" :> {<<"worker", "review">>, <<"reviewer", "review">>})
Gated(actor, cap, op) == [actor |-> actor, cap |-> cap, op |-> op]
WorkerGates == {Gated("worker", "work", "dispatch")}
InstanceReviewGates == {Gated("worker", "judge", "review"), Gated("reviewer", "judge", "review")}
InstanceEdited(f) == {[f EXCEPT !.stdout = "edited"],
                      [f EXCEPT !.trace.gate.actor = "reviewer"]}
Policy(differ, minimum, total, anchors) ==
    [known |-> TRUE, blank |-> FALSE, producerCaps |-> {"work"}, verifierCaps |-> {"judge"},
     differ |-> differ, minimum |-> minimum, total |-> total, anchors |-> anchors]
InstancePolicies == {Policy(TRUE, 1, 1, {"trace"}), Policy(FALSE, 2, 2, {}), Policy(FALSE, 1, 1, {"file"}),
                     Policy(FALSE, 0, 1, {})}
InstanceArtifacts == {[id |-> A, content |-> Content("a"), life |-> "accepted"]}
InstanceAnchors == {[id |-> "file", artifact |-> A, bytes |-> Content("a")],
                    [id |-> "other", artifact |-> A, bytes |-> Content("b")]}
=============================================================================
