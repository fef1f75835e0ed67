------------------------ MODULE MCResourceAllocator ------------------------
(* Instances of ResourceAllocator for TLC. *)
EXTENDS ResourceAllocator, TLC

MCGroups == {"ga"}
MCCapacity == [ga |-> 1]

Grant(resource, mode, group) ==
    [resource |-> resource, mode |-> mode, group |-> group,
     units |-> IF group = NoGroup THEN 0 ELSE 1]
Reserve(key, id, attempt, grants, deployment) ==
    [key |-> key, kind |-> "reserve", id |-> id, attempt |-> attempt, grants |-> grants,
     deployment |-> deployment, assertion |-> 0, how |-> "release", superseding |-> NoId]
Dispose(key, kind, id, attempt, assertion, how, superseding) ==
    [key |-> key, kind |-> kind, id |-> id, attempt |-> attempt, grants |-> {},
     deployment |-> NoDeployment, assertion |-> assertion, how |-> how,
     superseding |-> superseding]

Exclusive == {Grant("x", "exclusive", NoGroup)}
Limited == {Grant("y", "read", "ga")}

\* Two exclusive claims of one resource, two units of a group with capacity one, a
\* release under a key that a reservation uses too, and a reviewed supersession.
ContendedRequests ==
    {Reserve(3, 1, 1, Exclusive, "d1"),
     Reserve(2, 2, 2, Exclusive \cup Limited, "d1"),
     Reserve(5, 3, 3, Limited, "d1"),
     Dispose(5, "dispose", 1, 1, 1, "release", NoId),
     Dispose(4, "disposeReviewed", 1, 1, 2, "supersede", 3)}

\* A reservation id is used again, with another attempt and deployment, under a
\* key that sorts before the first one.
ReusedIdRequests ==
    {Reserve(3, 1, 1, Exclusive, "d1"),
     Dispose(4, "disposeReviewed", 1, 1, 1, "release", NoId),
     Reserve(2, 1, 3, Exclusive, "d2")}

Symmetry == Permutations(Procs)

=============================================================================
