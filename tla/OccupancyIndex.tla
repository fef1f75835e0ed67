--------------------------- MODULE OccupancyIndex ---------------------------
(***************************************************************************)
(* ResourceOccupancyIndex (src/resource_protocol.rs): the index an         *)
(* allocator keeps up to date with every granted and disposed reservation  *)
(* so that it need not scan the active reservations.  "The index changes   *)
(* lookup cost, not protocol meaning": the properties below compare every  *)
(* decision taken from the index with the decision that the rules of       *)
(* ResourceProtocol take from the active reservations themselves.  The     *)
(* names differ from those of ResourceAllocator, so that one module can    *)
(* reason about both.                                                      *)
(***************************************************************************)
EXTENDS ResourceProtocol

CONSTANTS Candidates,  \* reservations a caller may ask for
          MaxActive    \* bound: reservations active at once

Modes == {"read", "write", "exclusive"}

ASSUME CandidatesAssumption ==
    /\ MaxActive \in Nat
    /\ \A r \in Candidates :
          /\ IsFiniteSet(r.grants)
          /\ \A g \in r.grants :
                g.mode \in Modes /\ g.units \in Nat /\ (g.group = NoGroup <=> g.units = 0)

VARIABLES index,    \* ResourceOccupancyIndex
          held,     \* active_reservations_by_identity
          removal   \* what the last ResourceOccupancyIndex::remove returned

indexVars == <<index, held, removal>>

Resources == {g.resource : g \in UNION {r.grants : r \in Candidates}}
AllGroups == {g.group : g \in UNION {r.grants : r \in Candidates}} \ {NoGroup}

EmptyIndex ==
    [ids      |-> {},
     attempts |-> {},
     holders  |-> [x \in Resources |-> [m \in Modes |-> {}]],
     units    |-> [x \in AllGroups |-> 0]]

HasGrant(r, resource, mode) == \E g \in r.grants : g.resource = resource /\ g.mode = mode

\* ResourceOccupancyIndex::insert.  Maps without an entry read as empty.
Insert(ix, r) ==
    [ids      |-> ix.ids \cup {r.id},
     attempts |-> ix.attempts \cup {r.attempt},
     holders  |-> [x \in Resources |-> [m \in Modes |->
                      IF HasGrant(r, x, m) THEN ix.holders[x][m] \cup {r.id}
                                           ELSE ix.holders[x][m]]],
     units    |-> [x \in AllGroups |-> ix.units[x] + ReservationUnits(r, x)]]

\* The checks of ResourceOccupancyIndex::remove.  The units are compared grant by
\* grant first and in total while they are subtracted; both end in an underflow.
RemovalRefusal(ix, r) ==
    IF r.id \notin ix.ids THEN "MissingReservationIdentity"
    ELSE IF r.attempt \notin ix.attempts THEN "MissingAttemptIdentity"
    ELSE IF \E g \in r.grants : r.id \notin ix.holders[g.resource][g.mode]
    THEN "MissingResourceHolder"
    ELSE IF \E x \in AllGroups : ix.units[x] < ReservationUnits(r, x)
    THEN "RateLimitUsageUnderflow"
    ELSE "ok"

\* Variant: the units a reservation consumed are not given back.
RemoveKeepingUnits(ix, r) ==
    [ix EXCEPT !.ids = @ \ {r.id}, !.attempts = @ \ {r.attempt},
               !.holders = [x \in Resources |-> [m \in Modes |-> ix.holders[x][m] \ {r.id}]]]

\* ResourceOccupancyIndex::remove, after its checks
Remove(ix, r) ==
    [ids      |-> ix.ids \ {r.id},
     attempts |-> ix.attempts \ {r.attempt},
     holders  |-> [x \in Resources |-> [m \in Modes |->
                      IF HasGrant(r, x, m) THEN ix.holders[x][m] \ {r.id}
                                           ELSE ix.holders[x][m]]],
     units    |-> [x \in AllGroups |-> ix.units[x] - ReservationUnits(r, x)]]

\* Modes of other holders that a grant in this mode collides with
CollidingModes(mode) == IF mode = "read" THEN {"write", "exclusive"} ELSE Modes

\* grant_indexed_reservation
IndexGrants(ix, r) ==
    /\ r.id \notin ix.ids
    /\ r.attempt \notin ix.attempts
    /\ \A g \in r.grants : \A m \in CollidingModes(g.mode) : ix.holders[g.resource][m] = {}
    /\ \A x \in AllGroups :
          LET used == ix.units[x] + ReservationUnits(r, x)
          IN  used = 0 \/ (x \in Groups /\ used <= Capacity[x])

----------------------------------------------------------------------------
IndexInit ==
    /\ index = EmptyIndex
    /\ held = {}
    /\ removal = "ok"

\* apply_replayed_event, Reserve: the grant is decided on the index.
Reserve(r) ==
    /\ Cardinality(held) < MaxActive
    /\ IndexGrants(index, r)
    /\ index' = Insert(index, r)
    /\ held' = held \cup {r}
    /\ UNCHANGED removal

\* apply_replayed_event, Disposition of an active reservation.
Dispose(r) ==
    /\ r \in held
    /\ removal' = RemovalRefusal(index, r)
    /\ IF removal' = "ok" THEN index' = Remove(index, r) /\ held' = held \ {r}
                          ELSE UNCHANGED <<index, held>>

IndexNext == \E r \in Candidates : Reserve(r) \/ Dispose(r)

IndexSpec == IndexInit /\ [][IndexNext]_indexVars

----------------------------------------------------------------------------
(* Properties *)

\* The index kept step by step equals the index that from_active_reservations
\* derives from the active reservations, which a restart from a checkpoint does.
IndexIsDerived ==
    /\ index.ids = {r.id : r \in held}
    /\ index.attempts = {r.attempt : r \in held}
    /\ \A x \in Resources, m \in Modes :
          index.holders[x][m] = {r.id : r \in {s \in held : HasGrant(s, x, m)}}
    /\ \A x \in AllGroups : index.units[x] = UnitsHeld(held, x)

\* A decision taken from the index is the decision the rules take from the
\* active reservations, for every candidate in every reachable state.
DecisionsAgree ==
    \A r \in Candidates \ held : IndexGrants(index, r) <=> Grantable(held, r)

\* Reservations that are active at the same time never conflict and never exceed
\* a capacity.
ActiveCompatible == Compatible(held)

\* Removing an active reservation never fails ("allocator occupancy removal
\* failed closed" would make a committed event impossible to replay).
RemovalNeverFails == removal = "ok"

\* The index that ResourceOccupancyIndex keeps step by step stands for the active
\* reservations: it is what they give, decides as they do, can take each of them
\* back, and has admitted no two that collide.
IndexIsFaithful == IndexIsDerived /\ DecisionsAgree /\ RemovalNeverFails /\ ActiveCompatible

============================================================================
