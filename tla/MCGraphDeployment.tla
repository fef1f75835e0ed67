-------------------------- MODULE MCGraphDeployment --------------------------
(***************************************************************************)
(* A small case for GraphDeployment.  Base: node a writes the files f and g *)
(* and feeds b, which reads g.  Patches: `later' adds c, a second writer of *)
(* f behind b; `beside' adds d, a writer of f that nothing orders; `both'  *)
(* adds two nodes; `cut' removes the edge between a and b; `dangling' adds  *)
(* an edge to nowhere.  The simulated graph is a join of two branches with *)
(* a shared resource.                                                      *)
(***************************************************************************)
EXTENDS GraphDeployment

Port(name) == [name |-> name, schema |-> "s"]
Claim(r, mode) == [resource |-> r, mode |-> mode, group |-> None, file |-> TRUE, isolated |-> FALSE]
NoPolicy == [k \in PolicyKinds |-> None]
Node(id, cl) == [id |-> id, cell |-> id, class |-> "x", in |-> {Port("i")}, out |-> {Port("o")},
                 effects |-> TRUE, claims |-> cl,
                 pol |-> [NoPolicy EXCEPT !["verification"] = "vp"],
                 delivery |-> "barrier", dur |-> 1]
Edge(id, from, to) == [id |-> id, from |-> from, to |-> to, kind |-> "data",
                       out |-> "o", in |-> "i", schema |-> "s", scope |-> {}]

NodeA == Node("a", {Claim("f", "write"), Claim("g", "write")})
NodeB == Node("b", {Claim("g", "read")})
NodeC == Node("c", {Claim("f", "write")})
NodeD == Node("d", {Claim("f", "write")})

Base == [id |-> "t", space |-> "case",
         nodes |-> {NodeA, NodeB}, edges |-> {Edge("e1", "a", "b")},
         pols |-> [k \in PolicyKinds |-> IF k = "verification" THEN {"vp"} ELSE {}]]

NoPatch == [addN |-> {}, updN |-> {}, addE |-> {}, remN |-> {}, remE |-> {}]
Later == [NoPatch EXCEPT !.addN = {NodeC}, !.addE = {Edge("e2", "b", "c")}]
Beside == [NoPatch EXCEPT !.addN = {NodeD}]
Both == [NoPatch EXCEPT !.addN = {NodeC, NodeD},
                        !.addE = {Edge("e2", "b", "c"), Edge("e3", "c", "d")}]
Cut == [NoPatch EXCEPT !.remE = {"e1"}]
Dangling == [NoPatch EXCEPT !.addE = {Edge("e2", "b", "z")}]

InstanceTopologies == {Base, Patched(Base, Later), Patched(Base, Beside)}

Docs(rev, valid) == [k \in PolicyKinds |-> IF k = "verification"
                        THEN [p \in {"vp"} |-> [id |-> "vp", valid |-> valid, rev |-> rev]]
                        ELSE [p \in {} |-> None]]
InstanceDocuments == {Docs(1, TRUE), Docs(2, TRUE), Docs(1, FALSE)}
Maps(ids) == {[node |-> id, worker |-> "w"] : id \in ids}
InstanceMappings == {Maps({"a", "b"}), Maps({"a", "b", "c"}), Maps({"a", "b", "d"})}

Recorded(t, docs, proposal, joined) ==
    [topology |-> t, manifest |-> DeploymentPolicyManifest(t, docs),
     proposal |-> proposal, joined |-> joined]
InstanceClaimRecords ==
    {Recorded(Base, Docs(1, TRUE), None, TRUE),
     Recorded(Base, Docs(1, TRUE), Later, TRUE),
     Recorded(Patched(Base, Later), Docs(2, TRUE), Later, TRUE),
     Recorded(Patched(Base, Later), Docs(1, TRUE), Beside, TRUE),
     Recorded(Patched(Base, Beside), Docs(1, TRUE), Beside, TRUE),
     Recorded(Base, Docs(1, FALSE), None, FALSE)}

ExpansionPolicy == [key |-> {"k"}, schema |-> "s", dry |-> 1, iterations |-> 3, nodes |-> 2,
                    cost |-> 2, latency |-> 9]
InstanceExpansionPolicies == {ExpansionPolicy, [ExpansionPolicy EXCEPT !.nodes = 0]}
Candidate(value, patch) ==
    [schema |-> "s", values |-> [k \in {"k"} |-> value], ask |-> "accept", patch |-> patch]
Round(candidates, cost) == [candidates |-> candidates, cost |-> cost, latency |-> 1]
InstanceRounds ==
    {Round(<<Candidate(1, Later)>>, 0),
     Round(<<Candidate(1, Cut), Candidate(2, Beside)>>, 0),
     Round(<<Candidate(3, Both), Candidate(4, Dangling)>>, 0),
     Round(<<Candidate(5, Later), [Candidate(6, Cut) EXCEPT !.ask = "defer"]>>, 1),
     Round(<<>>, 1)}

\* The simulated graph: p -> q -> s, p -> r -> s, where q and r share a rate
\* limit.
SimNode(id, group) ==
    [Node(id, IF group = None THEN {} ELSE {[Claim("h", "read") EXCEPT !.group = group]})
        EXCEPT !.dur = CASE id = "p" -> None [] id = "r" -> 4 [] OTHER -> 1]
Simulated == [Base EXCEPT
    !.nodes = {SimNode("p", None), SimNode("q", "g"), SimNode("r", "g"), SimNode("s", None)},
    !.edges = {Edge("e1", "p", "q"), Edge("e2", "p", "r"), Edge("e3", "q", "s"),
               [Edge("e4", "r", "s") EXCEPT !.kind = "control", !.out = None, !.in = None,
                                            !.schema = None]}]
SimRequest == [topology |-> Simulated, iterations |-> 1, parallel |-> 3, attempts |-> 2,
               penalty |-> 1, capacity |-> (<<"group", "g">> :> 2), bounds |-> <<>>,
               calib |-> {[node |-> "p", class |-> None, fail |-> 1,
                           m |-> [latency |-> <<1, 2>>, cost |-> None, tokens |-> None]],
                          [node |-> None, class |-> "x", fail |-> 0,
                           m |-> [latency |-> None, cost |-> <<1, 1>>, tokens |-> <<1, 1>>]]},
               routes |-> {[id |-> 1, class |-> "x", m |-> [cost |-> <<1, 3>>, latency |-> <<1, 1>>]],
                           [id |-> 2, class |-> "x", m |-> [cost |-> <<2, 2>>, latency |-> <<1, 1>>]]},
               budgets |-> [m \in Metrics |-> 5]]
InstanceSimulationRequests ==
    {SimRequest, [SimRequest EXCEPT !.capacity = <<>>], [SimRequest EXCEPT !.parallel = 1],
     [SimRequest EXCEPT !.iterations = 0]}

InstanceRedesignInputs ==
    {[audits |-> {"audit"}, references |-> {}, impact |-> {"i"}, uncertainty |-> {"u"},
      loss |-> {"none"}, authority |-> "authority"]}
InstanceDispositions ==
    {[kind |-> "accepted_binding", fields |-> {"review", "authority"}],
     [kind |-> "accepted_binding", fields |-> {"review", "other"}],
     [kind |-> "rejected", fields |-> {"review"}], [kind |-> "superseded", fields |-> {None}]}
=============================================================================
