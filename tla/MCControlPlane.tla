-------------------------- MODULE MCControlPlane --------------------------
(* Instances of ControlPlane: a bundle compiled twice under two keys, a     *)
(* retry of one key under another request id, a reservation that needs the  *)
(* bundle, and a key an earlier build journaled a false claim for.          *)
EXTENDS ControlPlane

Payload(content, embedded, valid) == [content |-> content, embedded |-> embedded, valid |-> valid]
Request(id, key, tool, base, audit, payload) ==
    [id |-> id, key |-> key, tool |-> tool, base |-> base, audit |-> audit, payload |-> payload]

Compile == Request("r1", "k1", "compile_deployment_bundle", 1, FALSE, Payload("b", 1, TRUE))
CompileRetried == [Compile EXCEPT !.id = "r2"]
CompileAgain == [Compile EXCEPT !.id = "r3", !.key = "k2"]
Reserve == Request("r4", "k3", "reserve_resources", 1, TRUE, Payload("b", 1, TRUE))
Older == Request("r0", "k4", "lint_execution_topology", NoRevision, FALSE, Payload("t", 1, TRUE))

\* The earlier build's request retried under an id that the reservation has too.
OlderRetried == [Older EXCEPT !.id = Reserve.id]

HostRequests == {Compile, CompileRetried, CompileAgain, Reserve, OlderRetried}
OneNotification == {[id |-> "n1", content |-> "revision_changed"]}

OlderAnswer == [sequence |-> 1, outcome |-> "false_claim"]
JournalOfAnEarlierBuild ==
    [Empty EXCEPT !.next = 1,
                  !.byRequest = (Older.id :> [digest |-> Older, response |-> OlderAnswer]),
                  !.byKey = (Older.key :> [digest |-> Semantic(Older), response |-> OlderAnswer])]
=============================================================================
