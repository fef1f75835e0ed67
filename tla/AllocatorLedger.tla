-------------------------- MODULE AllocatorLedger --------------------------
(***************************************************************************)
(* What the resource allocator promises: one ledger of committed requests  *)
(* that only grows, in which every request was admissible when it was      *)
(* committed and no idempotency key occurs twice.  The rules are those of  *)
(* src/resource_allocator.rs (validate_new_reservation_identity,           *)
(* validate_disposition) and of ResourceProtocol.                          *)
(*                                                                         *)
(* A request has a key and a kind.  "reserve" asks for the reservation     *)
(* [id, attempt, grants], with the reviewed deployment that authorizes it; *)
(* "dispose" and "disposeReviewed" end the reservation <<id, attempt>>,    *)
(* under an assertion id, by "release" or in favour of `superseding`.      *)
(***************************************************************************)
EXTENDS Sequences, ResourceProtocol

CONSTANTS Requests,      \* requests that callers make
          NoId,          \* an absent superseding reservation
          NoDeployment   \* the deployment of an unreviewed reservation

VARIABLE ledger          \* the committed requests

----------------------------------------------------------------------------
IdentityOf(q) == <<q.id, q.attempt>>
ReservationOf(q) == [id |-> q.id, attempt |-> q.attempt, grants |-> q.grants]

Reserved(es) == {i \in 1 .. Len(es) : es[i].kind = "reserve"}
Disposals(es) == {i \in 1 .. Len(es) : es[i].kind # "reserve"}
Disposed(es) == {IdentityOf(es[i]) : i \in Disposals(es)}

\* reservations_by_identity and active_reservations_by_identity
UsedIdentities(es) == {IdentityOf(es[i]) : i \in Reserved(es)}
ActiveReservations(es) ==
    {ReservationOf(es[i]) : i \in {j \in Reserved(es) : IdentityOf(es[j]) \notin Disposed(es)}}

KeyUsed(es, key) == \E i \in 1 .. Len(es) : es[i].key = key

\* validate_new_reservation_identity and the grant decision
ReserveAdmissible(es, q) ==
    /\ IdentityOf(q) \notin UsedIdentities(es)
    /\ Grantable(ActiveReservations(es), ReservationOf(q))

\* reservation_is_active: an assertion that ends the reservation it names
EndsReservation(q) ==
    IF q.how = "supersede" THEN q.superseding \notin {NoId, q.id} ELSE q.superseding = NoId

\* validate_disposition
DisposeAdmissible(es, q) ==
    /\ \A i \in Disposals(es) : es[i].assertion # q.assertion
    /\ IdentityOf(q) \in UsedIdentities(es) \ Disposed(es)
    /\ EndsReservation(q)
    /\ q.how = "supersede" => \E r \in ActiveReservations(es) : r.id = q.superseding

\* apply_replayed_event accepts the request after the committed ones.
Admissible(es, q) ==
    IF q.kind = "reserve" THEN ReserveAdmissible(es, q) ELSE DisposeAdmissible(es, q)

----------------------------------------------------------------------------
Init == ledger = <<>>

Commit(q) ==
    /\ ~KeyUsed(ledger, q.key)
    /\ Admissible(ledger, q)
    /\ ledger' = Append(ledger, q)

Next == \E q \in Requests : Commit(q)

Spec == Init /\ [][Next]_ledger

----------------------------------------------------------------------------
(* Properties *)

\* No two reservations that are active together hold the same reservation id,
\* attempt id or conflicting grants, and no rate-limit group is over capacity.
HoldersCompatible == Compatible(ActiveReservations(ledger))

============================================================================
