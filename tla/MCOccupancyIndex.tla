-------------------------- MODULE MCOccupancyIndex --------------------------
(* Instances of OccupancyIndex for TLC. *)
EXTENDS OccupancyIndex

MCGroups == {"ga", "gb"}
MCCapacity == [ga |-> 2, gb |-> 1]

Grant(resource, mode, group) ==
    [resource |-> resource, mode |-> mode, group |-> group,
     units |-> IF group = NoGroup THEN 0 ELSE 1]

\* Grants of two resources in every mode, some of them rate limited; "gx" is a
\* group that has no capacity.
SmallGrants ==
    {Grant("x", m, k) : m \in {"read", "exclusive"}, k \in {NoGroup, "ga"}}
    \cup {Grant("y", m, "gb") : m \in {"read", "write"}}
    \cup {Grant("x", "write", "gx"), Grant("x", "write", NoGroup), Grant("y", "read", "ga")}

\* Every reservation of at most two grants, under ids and attempts that collide.
MCCandidates ==
    [id : {1, 2, 3}, attempt : {1, 2, 3},
     grants : {s \in SUBSET SmallGrants : Cardinality(s) \in 1 .. 2}]

=============================================================================
