-------------------------- MODULE ResourceProtocol --------------------------
(***************************************************************************)
(* The conflict and capacity rules for resource reservations               *)
(* (src/resource_protocol.rs), as operators on sets of reservations.       *)
(*                                                                         *)
(* A reservation is a record with the fields id, attempt and grants; a     *)
(* grant names a resource, a mode and, optionally, a rate-limit group of   *)
(* which it consumes units.  Schemas, declarations and named scopes, which *)
(* are compared and never interpreted, are left out.                       *)
(***************************************************************************)
EXTENDS Integers, FiniteSets, FiniteSetsExt

CONSTANTS Groups,     \* rate-limit groups with a capacity record
          NoGroup,    \* the group of a grant that names none
          Capacity    \* group -> units

ASSUME CapacityAssumption ==
    /\ NoGroup \notin Groups
    /\ Capacity \in [Groups -> Nat \ {0}]

\* Two grants of the same resource are compatible only when both read.
Conflicts(g, h) ==
    g.resource = h.resource /\ ~(g.mode = "read" /\ h.mode = "read")

\* Units of a group that a set of reservations holds
ReservationUnits(r, group) ==
    MapThenSumSet(LAMBDA g : g.units, {g \in r.grants : g.group = group})
UnitsHeld(active, group) ==
    MapThenSumSet(LAMBDA r : ReservationUnits(r, group), active)

\* Every group is within its capacity; a group without a capacity has none.
WithinCapacity(active) ==
    \A group \in Groups : UnitsHeld(active, group) <= Capacity[group]
GroupsKnown(r) == \A g \in r.grants : g.group \in Groups \cup {NoGroup}

\* grant_reservation: the decision on a candidate, given the active reservations.
Grantable(active, r) ==
    /\ \A s \in active : s.id # r.id /\ s.attempt # r.attempt
    /\ \A s \in active : \A g \in r.grants, h \in s.grants : ~Conflicts(g, h)
    /\ GroupsKnown(r)
    /\ WithinCapacity(active \cup {r})

\* What the rules are for: the reservations that are active at the same time
\* exclude each other only where they may share.
Compatible(active) ==
    /\ \A r, s \in active : r # s =>
          /\ r.id # s.id /\ r.attempt # s.attempt
          /\ \A g \in r.grants, h \in s.grants : ~Conflicts(g, h)
    /\ WithinCapacity(active)

=============================================================================
