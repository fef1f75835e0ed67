--------------------------- MODULE GraphSimulation ---------------------------
(***************************************************************************)
(* The seeded simulator of execution topologies (src/graph_simulation.rs).  *)
(*                                                                         *)
(* A request is a record with the fields topology (the hash it names),     *)
(* iterations, parallel, attempts, penalty, capacity (key -> capacity),    *)
(* bounds (expansion policy -> range), calib (a set of calibrations), routes *)
(* (a set of candidates) and budgets (metric -> maximum or None).  A range *)
(* is a pair <<minimum, maximum>>.  The pseudo-random generator is a choice *)
(* within the ranges: every sample a seed can produce is a behaviour.      *)
(***************************************************************************)
EXTENDS GraphTopology, Sequences, SequencesExt

Metrics == {"latency", "cost", "tokens"}

\* The largest number of iterations and of attempts a request may name
MaxIterations == 10000
MaxAttempts == 100

IsRange(r) == r # None => r[1] \in Nat /\ r[2] \in Nat
BadRange(r) == r # None /\ r[1] > r[2]

\* validate_request
RequestFindings(req) ==
    Codes([iterations_out_of_bounds |-> req.iterations \notin 1..MaxIterations,
           zero_parallelism |-> req.parallel = 0,
           retry_attempts_out_of_bounds |-> req.attempts \notin 1..MaxAttempts,
           invalid_resource_capacity |-> 0 \in Range(req.capacity),
           ambiguous_calibration_selector |->
              \E c \in req.calib : (c.node = None) = (c.class = None),
           duplicate_calibration_selector |->
              \E c, d \in req.calib : c # d /\ c.node = d.node /\ c.class = d.class,
           invalid_failure_probability |-> \E c \in req.calib : c.fail \notin 0..10000 \cup {None},
           duplicate_route_id |-> ~UniqueIds(req.routes),
           invalid_range |->
              \/ \E r \in Range(req.bounds) : BadRange(r)
              \/ \E c \in req.calib, m \in Metrics : BadRange(c.m[m])
              \/ \E r \in req.routes, m \in {"latency", "cost"} : BadRange(r.m[m])])

\* resolve_calibrations: a node's own calibration, then its executor class's;
\* only the latency falls back on the topology's own estimate.
OwnCalibration(req, n) == {c \in req.calib : c.node = n.id}
ClassCalibration(req, n) == {c \in req.calib : c.class = n.class}
Resolved(req, n, m) ==
    LET own == {c \in OwnCalibration(req, n) : c.m[m] # None}
        class == {c \in ClassCalibration(req, n) : c.m[m] # None}
    IN  CASE own # {} -> (CHOOSE c \in own : TRUE).m[m]
          [] own = {} /\ class # {} -> (CHOOSE c \in class : TRUE).m[m]
          [] own = {} /\ class = {} /\ m = "latency" /\ n.dur # None -> <<n.dur, n.dur>>
          [] OTHER -> None
ResolvedFailure(req, n) ==
    LET own == {c \in OwnCalibration(req, n) : c.fail # None}
        class == {c \in ClassCalibration(req, n) : c.fail # None}
    IN  IF own \cup class = {} THEN None
        ELSE (CHOOSE c \in (IF own # {} THEN own ELSE class) : TRUE).fail

Known(t, req, m) == \A n \in t.nodes : Resolved(req, n, m) # None
FailureKnown(t, req) == \A n \in t.nodes : ResolvedFailure(req, n) # None
Unknowns(t, req) ==
    (UNION {{<<n.id, m>> : m \in {k \in Metrics : Resolved(req, n, k) = None}} : n \in t.nodes})
    \cup {<<n.id, "failure">> : n \in {k \in t.nodes : ResolvedFailure(req, k) = None}}
    \cup {<<n.id, "expansion">> : n \in {k \in t.nodes :
                k.pol["expansion"] \notin DOMAIN req.bounds \cup {None}}}

\* SeededRng::sample and the retry loop: any value of the range, any number of
\* attempts the failure probability allows.
Sample(r) == IF r = None THEN {0} ELSE r[1]..r[2]
Attempts(req, n) ==
    LET fail == ResolvedFailure(req, n)
    IN  CASE fail \in {None, 0} -> {[attempts |-> 1, failed |-> FALSE]}
          [] fail = 10000 -> {[attempts |-> req.attempts, failed |-> TRUE]}
          [] OTHER -> {[attempts |-> a, failed |-> FALSE] : a \in 1..req.attempts}
                      \cup {[attempts |-> req.attempts, failed |-> TRUE]}
Expansions(req, n) ==
    IF n.pol["expansion"] \in DOMAIN req.bounds
    THEN {Max({1, e}) : e \in Sample(req.bounds[n.pol["expansion"]])} ELSE {1}

\* What one iteration may sample for a node
SampledNodes(req, n) ==
    LET values == {f \in [Metrics -> UNION {Sample(Resolved(req, n, m)) : m \in Metrics}] :
                      \A m \in Metrics : f[m] \in Sample(Resolved(req, n, m))}
    IN  {[failed |-> d.tried.failed,
          m |-> [metric \in Metrics |-> d.value[metric] * d.tried.attempts * d.times]] :
            d \in [tried : Attempts(req, n), times : Expansions(req, n), value : values]}

\* ... and for all of them
IterationSamples(t, req) ==
    LET per == [id \in Ids(t.nodes) |-> SampledNodes(req, NodeOf(t, id))]
    IN  {f \in [Ids(t.nodes) -> UNION Range(per)] : \A id \in Ids(t.nodes) : f[id] \in per[id]}

-----------------------------------------------------------------------------
(* SimulationGraph::simulate.  A state of the run is a record: the active
   nodes with their finish times, the completed ones, the clock, the widest
   moment and the number of waits.  usage and indegree follow from active and
   done. *)

\* resource_keys: every claim that is not a read, and every rate-limit group
ResourceKeys(n) ==
    {<<"resource", c.resource>> : c \in {d \in n.claims : d.mode # "read"}}
    \cup {<<"group", c.group>> : c \in {d \in n.claims : d.group # None}}
Capacity(req, key) == IF key \in DOMAIN req.capacity THEN req.capacity[key] ELSE 1
Usage(t, active, key) ==
    Cardinality({a \in active : key \in ResourceKeys(NodeOf(t, a.node))})

\* Variant: one finished predecessor is enough
ReadyNodesAny(t, s) ==
    {id \in Ids(t.nodes) \ (s.done \cup {a.node : a \in s.active}) :
        InEdges(t, id) = {} \/ \E e \in InEdges(t, id) : e.from \in s.done}
\* indegree zero, not started
ReadyNodes(t, s) ==
    {id \in Ids(t.nodes) \ (s.done \cup {a.node : a \in s.active}) :
        \A e \in InEdges(t, id) : e.from \in s.done}

\* The loop over the ready nodes, in the order of the topology's array: it stops
\* at the parallelism limit, and a node whose resources are taken waits.
StartNode(t, req, sampled, s, id) ==
    LET keys == ResourceKeys(NodeOf(t, id))
        finish == s.now + sampled[id].m["latency"]
                  + req.penalty * Cardinality(InEdges(t, id))
        taken == \E k \in keys : Usage(t, s.active, k) >= Capacity(req, k)
        grown == s.active \cup {[node |-> id, finish |-> finish]}
    IN  CASE Cardinality(s.active) >= req.parallel -> s
          [] Cardinality(s.active) < req.parallel /\ taken -> [s EXCEPT !.waits = @ + 1]
          [] OTHER -> [s EXCEPT !.active = grown,
                                !.width = Max({@, Cardinality(grown)})]
StartReady(t, req, order, sampled, s) ==
    LET state[k \in 0..Len(order)] ==
            IF k = 0 THEN s
            ELSE IF order[k] \in ReadyNodes(t, s)
                 THEN StartNode(t, req, sampled, state[k - 1], order[k]) ELSE state[k - 1]
    IN  state[Len(order)]

\* The clock advances to the next finish, and all that finish then are completed
FinishNext(s) ==
    LET next == Min({a.finish : a \in s.active})
        finished == {a \in s.active : a.finish = next}
    IN  IF s.active = {} THEN s
        ELSE [s EXCEPT !.now = next, !.active = @ \ finished,
                       !.done = @ \cup {a.node : a \in finished}]

\* The loop runs until all nodes are completed; each turn completes one or more.
RunStart == [active |-> {}, done |-> {}, now |-> 0, width |-> 0, waits |-> 0]
RunTurn(t, req, order, sampled, s) ==
    IF s.done = Ids(t.nodes) THEN s ELSE FinishNext(StartReady(t, req, order, sampled, s))
Run(t, req, order, sampled) ==
    LET state[k \in 0..Cardinality(t.nodes)] ==
            IF k = 0 THEN RunStart ELSE RunTurn(t, req, order, sampled, state[k - 1])
    IN  state[Cardinality(t.nodes)]

-----------------------------------------------------------------------------
(* simulate_execution_topology *)

\* summarize: minimum, lower median and maximum of the samples.  In their order,
\* the k-th is the one with fewer than k below it and k that are not above.
Ranked(samples, k) ==
    CHOOSE v \in Range(samples) :
        /\ Cardinality({i \in DOMAIN samples : samples[i] < v}) < k
        /\ k <= Cardinality({i \in DOMAIN samples : samples[i] <= v})
Summarize(samples) ==
    IF samples = <<>> THEN None
    ELSE [minimum |-> Ranked(samples, 1),
          p50 |-> Ranked(samples, (Len(samples) - 1) \div 2 + 1),
          maximum |-> Ranked(samples, Len(samples))]
BudgetViolations(max, samples) ==
    IF max = None THEN None ELSE Cardinality({i \in DOMAIN samples : samples[i] > max})

\* routing_proposal: the cheapest candidate of the node's class; ties fall to the
\* faster one and then to the smaller route id (route ids are numbers here)
Midpoint(r) == r[1] + (r[2] - r[1]) \div 2
Route(req, n) ==
    LET of == {r \in req.routes : r.class = n.class}
        before(a, b) ==
            LET ca == Midpoint(a.m["cost"])    cb == Midpoint(b.m["cost"])
                la == Midpoint(a.m["latency"]) lb == Midpoint(b.m["latency"])
            IN  \/ ca < cb
                \/ ca = cb /\ la < lb
                \/ ca = cb /\ la = lb /\ a.id <= b.id
    IN  IF of = {} THEN None ELSE (CHOOSE r \in of : \A q \in of : before(r, q)).id

SimulationFindings(t, req) ==
    RequestFindings(req) \cup LintErrors(t)
    \cup Codes([topology_hash_mismatch |-> req.topology # t])

\* The report on samples, one function from nodes to samples per iteration
SimulationReport(t, req, order, samples) ==
    LET runs == [i \in DOMAIN samples |-> Run(t, req, order, samples[i])]
        total(i, m) == MapThenSumSet(LAMBDA id : samples[i][id].m[m], Ids(t.nodes))
        seen == [m \in Metrics |->
                    IF ~Known(t, req, m) THEN <<>>
                    ELSE IF m = "latency" THEN [i \in DOMAIN samples |-> runs[i].now]
                    ELSE [i \in DOMAIN samples |-> total(i, m)]]
        failed == Cardinality({i \in DOMAIN samples :
                                  \E id \in Ids(t.nodes) : samples[i][id].failed})
    IN  [topology |-> t, unknowns |-> Unknowns(t, req),
         summary |-> [m \in Metrics |-> Summarize(seen[m])],
         failed |-> IF FailureKnown(t, req) THEN failed ELSE None,
         parallelism |-> IF Known(t, req, "latency")
                         THEN Max({runs[i].width : i \in DOMAIN runs}) ELSE 0,
         waits |-> IF Known(t, req, "latency")
                   THEN FoldLeft(LAMBDA acc, r : acc + r.waits, 0, runs) ELSE 0,
         violations |-> [m \in Metrics |-> BudgetViolations(req.budgets[m], seen[m])],
         routing |-> {<<n.id, Route(req, n)>> : n \in {k \in t.nodes : Route(req, k) # None}}]
=============================================================================
