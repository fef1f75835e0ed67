--------------------------- MODULE GraphRun_proofs ---------------------------
(***************************************************************************)
(* Proofs about GraphRun for any topology, records, events, expectations,  *)
(* bundles, gates, policies, files and bounds.                             *)
(***************************************************************************)
EXTENDS GraphRun, TLAPS, WellFoundedInduction, FiniteSetTheorems, SequenceTheorems

-----------------------------------------------------------------------------
(* The ledger of the case *)

\* The entries that runs and reviews append
DispatchActors == {g.actor : g \in DispatchGates}
RunTraces == {RunTrace(id, gate, base) : id \in Nat, gate \in DispatchGates, base \in Nat}
LedgerEntry ==
    [type : {"attach"}, actor : DispatchActors, claim : Nat, report : Nat, trace : Nat,
     content : {"out"}]
    \cup [type : {"anchor"}, actor : DispatchActors, trace : Nat, hash : RunTraces]
    \cup [type : {"review"}, actor : {g.actor : g \in ReviewGates}, target : Nat,
          action : {"accept", "reject", "reopen"}, gate : ReviewGates]

\* A claim and its trace have one number, and the entry after the claim anchors
\* its trace under the same actor.
IsRun(l, i) ==
    /\ l[i].type = "attach" /\ l[i].claim = l[i].trace
    /\ l[i + 1].type = "anchor" /\ l[i + 1].trace = l[i].trace /\ l[i + 1].actor = l[i].actor

\* The inductive invariant of the ledger: runs come as pairs, every claim is
\* attached once, the claims are numbered, and reviews are of earlier claims.
RunsArePairs ==
    \A i \in 1 .. Len(ledger) :
        /\ ledger[i].type = "attach" => i + 1 <= Len(ledger) /\ IsRun(ledger, i)
        /\ ledger[i].type = "anchor" => i - 1 >= 1 /\ IsRun(ledger, i - 1)
ClaimsAreAttachedOnce ==
    \A i, k \in 1 .. Len(ledger) :
        ledger[i].type = "attach" /\ ledger[k].type = "attach"
        /\ ledger[i].claim = ledger[k].claim => i = k
ClaimsAreNumbered == \E n \in Nat : Claims = 1 .. n
ReviewsFollowClaims ==
    \A k \in 1 .. Len(ledger) : ledger[k].type = "review" =>
        \E i \in 1 .. k - 1 : ledger[i].type = "attach" /\ ledger[i].claim = ledger[k].target
LedgerInv ==
    /\ ledger \in Seq(LedgerEntry)
    /\ RunsArePairs /\ ClaimsAreAttachedOnce /\ ClaimsAreNumbered /\ ReviewsFollowClaims

\* The ledger is extended at its end.
LEMMA LedgerGrows ==
  ASSUME ledger \in Seq(LedgerEntry), NEW es \in Seq(LedgerEntry), ledger' = ledger \o es
  PROVE  /\ Len(ledger) \in Nat /\ Len(es) \in Nat
         /\ ledger' \in Seq(LedgerEntry) /\ Len(ledger') = Len(ledger) + Len(es)
         /\ \A i \in 1 .. Len(ledger) : ledger'[i] = ledger[i]
         /\ \A j \in 1 .. Len(es) : ledger'[Len(ledger) + j] = es[j]
<1>1. Len(ledger) \in Nat /\ Len(es) \in Nat
  OBVIOUS
<1>2. /\ ledger \o es \in Seq(LedgerEntry) /\ Len(ledger \o es) = Len(ledger) + Len(es)
      /\ \A i \in 1 .. Len(ledger) + Len(es) : (ledger \o es)[i] =
             IF i <= Len(ledger) THEN ledger[i] ELSE es[i - Len(ledger)]
  BY ConcatProperties
<1>3. \A i \in 1 .. Len(ledger) : ledger'[i] = ledger[i]
  BY <1>1, <1>2
<1>4. ASSUME NEW j \in 1 .. Len(es) PROVE ledger'[Len(ledger) + j] = es[j]
  <2>1. /\ Len(ledger) + j \in 1 .. Len(ledger) + Len(es) /\ ~(Len(ledger) + j <= Len(ledger))
        /\ Len(ledger) + j - Len(ledger) = j
    BY <1>1
  <2> QED BY <1>2, <2>1
<1> QED BY <1>1, <1>2, <1>3, <1>4

\* Claims by position
LEMMA ClaimPositions ==
  ASSUME ledger \in Seq(LedgerEntry)
  PROVE  Claims = {ledger[i].claim : i \in {i \in 1 .. Len(ledger) : ledger[i].type = "attach"}}
<1>1. DOMAIN ledger = 1 .. Len(ledger)
  OBVIOUS
<1> QED BY <1>1 DEF Claims

\* A run appends one pair, with the next number.
LEMMA RunKeepsLedger ==
  ASSUME LedgerInv, CliRun
  PROVE  LedgerInv' /\ \E es \in Seq(LedgerEntry) : ledger' = ledger \o es
<1>1. PICK gate \in DispatchGates :
         LET id == Cardinality(Claims) + 1
             trace == RunTrace(id, gate, rev)
         IN  Grow(<<[type |-> "attach", actor |-> gate.actor, claim |-> id, report |-> id,
                      trace |-> id, content |-> trace.stdout],
                    [type |-> "anchor", actor |-> gate.actor, trace |-> id, hash |-> trace]>>)
  BY DEF CliRun
<1>2. PICK n \in Nat : Claims = 1 .. n
  BY DEF LedgerInv, ClaimsAreNumbered
<1>3. Cardinality(Claims) = n
  BY <1>2, FS_Interval
<1> PICK id \in Nat : id = n + 1
  OBVIOUS
<1> PICK L \in Nat : L = Len(ledger)
  BY DEF LedgerInv
<1> DEFINE trace == RunTrace(id, gate, L)
           a == [type |-> "attach", actor |-> gate.actor, claim |-> id, report |-> id,
                 trace |-> id, content |-> "out"]
           b == [type |-> "anchor", actor |-> gate.actor, trace |-> id, hash |-> trace]
           es == <<a, b>>
<1>4. ledger' = ledger \o es
  <2>1. trace.stdout = "out"
    BY DEF RunTrace
  <2>2. Cardinality(Claims) + 1 = id /\ rev = L
    BY <1>3 DEF rev
  <2> QED BY <1>1, <2>1, <2>2 DEF Grow
<1>5. a \in LedgerEntry /\ b \in LedgerEntry
  <2>1. trace \in RunTraces
    BY DEF RunTraces
  <2>2. gate.actor \in DispatchActors
    BY DEF DispatchActors
  <2> HIDE DEF trace
  <2> QED BY <2>1, <2>2 DEF LedgerEntry
<1>6. /\ a.type = "attach" /\ a.claim = id /\ a.trace = id /\ a.actor = gate.actor
      /\ b.type = "anchor" /\ b.trace = id /\ b.actor = gate.actor
  OBVIOUS
<1> HIDE DEF a, b
<1>7. es \in Seq(LedgerEntry) /\ Len(es) = 2 /\ es[1] = a /\ es[2] = b
  BY <1>5
<1> HIDE DEF es
<1>8. /\ ledger' \in Seq(LedgerEntry) /\ Len(ledger') = L + 2
      /\ \A i \in 1 .. L : ledger'[i] = ledger[i]
      /\ ledger'[L + 1] = a /\ ledger'[L + 2] = b
  <2>1. /\ ledger' \in Seq(LedgerEntry) /\ Len(ledger') = L + Len(es)
        /\ \A i \in 1 .. L : ledger'[i] = ledger[i]
        /\ \A j \in 1 .. Len(es) : ledger'[L + j] = es[j]
    BY <1>4, <1>7, LedgerGrows DEF LedgerInv
  <2>2. 1 \in 1 .. Len(es) /\ 2 \in 1 .. Len(es)
    BY <1>7
  <2>3. ledger'[L + 1] = es[1] /\ ledger'[L + 2] = es[2]
    BY <2>1, <2>2
  <2> QED BY <1>7, <2>1, <2>3
<1>9. \A i \in 1 .. L : ledger[i].type = "attach" => ledger[i].claim \in 1 .. n
  BY <1>2, ClaimPositions DEF LedgerInv
<1>10. \A i \in 1 .. Len(ledger') : i \in 1 .. L \/ i = L + 1 \/ i = L + 2
  BY <1>8
<1>11. RunsArePairs'
  <2>1. ASSUME NEW i \in 1 .. Len(ledger')
        PROVE  /\ ledger'[i].type = "attach" => i + 1 <= Len(ledger') /\ IsRun(ledger', i)
               /\ ledger'[i].type = "anchor" => i - 1 >= 1 /\ IsRun(ledger', i - 1)
    <3>1. CASE i \in 1 .. L
      <4>1. /\ ledger[i].type = "attach" => i + 1 <= L /\ IsRun(ledger, i)
            /\ ledger[i].type = "anchor" => i - 1 >= 1 /\ IsRun(ledger, i - 1)
        BY <3>1 DEF LedgerInv, RunsArePairs
      <4>2. CASE ledger[i].type = "attach"
        <5>1. i + 1 \in 1 .. L
          BY <3>1, <4>1, <4>2
        <5>2. ledger'[i] = ledger[i] /\ ledger'[i + 1] = ledger[i + 1]
          BY <1>8, <3>1, <5>1
        <5> QED BY <1>8, <3>1, <4>1, <4>2, <5>1, <5>2 DEF IsRun
      <4>3. CASE ledger[i].type = "anchor"
        <5>1. i - 1 \in 1 .. L /\ i - 1 + 1 = i
          BY <3>1, <4>1, <4>3
        <5>2. ledger'[i] = ledger[i] /\ ledger'[i - 1] = ledger[i - 1]
          BY <1>8, <3>1, <5>1
        <5> QED BY <3>1, <4>1, <4>3, <5>1, <5>2 DEF IsRun
      <4> QED BY <1>8, <3>1, <4>2, <4>3
    <3>2. CASE i = L + 1
      <4>1. IsRun(ledger', i) /\ i + 1 <= Len(ledger')
        <5>1. i + 1 = L + 2
          BY <3>2
        <5> QED BY <1>6, <1>8, <3>2, <5>1 DEF IsRun
      <4> QED BY <1>6, <1>8, <3>2, <4>1
    <3>3. CASE i = L + 2
      <4>1. i - 1 = L + 1 /\ L + 1 + 1 = L + 2
        BY <3>3
      <4>2. IsRun(ledger', i - 1)
        BY <1>6, <1>8, <4>1 DEF IsRun
      <4> QED BY <1>6, <1>8, <3>3, <4>1, <4>2
    <3> QED BY <1>10, <3>1, <3>2, <3>3
  <2> QED BY <2>1 DEF RunsArePairs
<1>12. ClaimsAreAttachedOnce'
  <2>1. \A i \in 1 .. Len(ledger') : ledger'[i].type = "attach" =>
            \/ i \in 1 .. L /\ ledger'[i] = ledger[i] /\ ledger'[i].claim \in 1 .. n
            \/ i = L + 1 /\ ledger'[i].claim = n + 1
    BY <1>6, <1>8, <1>9, <1>10
  <2>2. \A i, k \in 1 .. L :
            ledger[i].type = "attach" /\ ledger[k].type = "attach"
            /\ ledger[i].claim = ledger[k].claim => i = k
    BY DEF LedgerInv, ClaimsAreAttachedOnce
  <2>3. n + 1 \notin 1 .. n
    OBVIOUS
  <2>4. ASSUME NEW i \in 1 .. Len(ledger'), NEW k \in 1 .. Len(ledger'),
               ledger'[i].type = "attach", ledger'[k].type = "attach",
               ledger'[i].claim = ledger'[k].claim
        PROVE  i = k
    <3>1. CASE i \in 1 .. L /\ k \in 1 .. L
      <4>1. ledger'[i] = ledger[i] /\ ledger'[k] = ledger[k]
        BY <1>8, <3>1
      <4> QED BY <2>2, <2>4, <3>1, <4>1
    <3>2. CASE i \notin 1 .. L
      <4>1. i = L + 1 /\ ledger'[i].claim = n + 1
        BY <2>1, <2>4, <3>2
      <4>2. k \notin 1 .. L
        BY <2>1, <2>3, <2>4, <4>1
      <4> QED BY <2>1, <2>4, <4>1, <4>2
    <3>3. CASE k \notin 1 .. L
      <4>1. k = L + 1 /\ ledger'[k].claim = n + 1
        BY <2>1, <2>4, <3>3
      <4>2. i \notin 1 .. L
        BY <2>1, <2>3, <2>4, <4>1
      <4> QED BY <2>1, <2>4, <4>1, <4>2
    <3> QED BY <3>1, <3>2, <3>3
  <2> QED BY <2>4 DEF ClaimsAreAttachedOnce
<1>13. ClaimsAreNumbered'
  <2>0. Claims' = {ledger'[i].claim : i \in {i \in 1 .. Len(ledger') : ledger'[i].type = "attach"}}
    <3>1. DOMAIN ledger' = 1 .. Len(ledger')
      BY <1>8
    <3> QED BY <3>1 DEF Claims
  <2>1. Claims' \subseteq 1 .. n + 1
    <3>1. ASSUME NEW i \in 1 .. Len(ledger'), ledger'[i].type = "attach"
          PROVE  ledger'[i].claim \in 1 .. n + 1
      BY <1>6, <1>8, <1>9, <1>10, <3>1
    <3> QED BY <2>0, <3>1
  <2>2. 1 .. n + 1 \subseteq Claims'
    <3>1. ASSUME NEW c \in 1 .. n + 1
          PROVE  \E i \in 1 .. Len(ledger') : ledger'[i].type = "attach" /\ ledger'[i].claim = c
      <4>1. CASE c = n + 1
        BY <1>6, <1>8, <4>1
      <4>2. CASE c \in 1 .. n
        <5>1. PICK i \in 1 .. L : ledger[i].type = "attach" /\ ledger[i].claim = c
          BY <1>2, <4>2, ClaimPositions DEF LedgerInv
        <5> QED BY <1>8, <5>1
      <4> QED BY <4>1, <4>2
    <3> QED BY <2>0, <3>1
  <2>3. Claims' = 1 .. n + 1
    BY <2>1, <2>2
  <2> QED BY <2>3 DEF ClaimsAreNumbered
<1>14. ReviewsFollowClaims'
  <2>1. ASSUME NEW k \in 1 .. Len(ledger'), ledger'[k].type = "review"
        PROVE  \E i \in 1 .. k - 1 :
                  ledger'[i].type = "attach" /\ ledger'[i].claim = ledger'[k].target
    <3>1. k \in 1 .. L /\ ledger'[k] = ledger[k]
      BY <1>6, <1>8, <1>10, <2>1
    <3>2. PICK i \in 1 .. k - 1 : ledger[i].type = "attach" /\ ledger[i].claim = ledger[k].target
      BY <2>1, <3>1 DEF LedgerInv, ReviewsFollowClaims
    <3>3. ledger'[i] = ledger[i]
      BY <1>8, <3>1, <3>2
    <3> QED BY <3>1, <3>2, <3>3
  <2> QED BY <2>1 DEF ReviewsFollowClaims
<1> QED BY <1>4, <1>7, <1>8, <1>11, <1>12, <1>13, <1>14 DEF LedgerInv

\* A review appends one entry about a claim that is there.
LEMMA ReviewKeepsLedger ==
  ASSUME LedgerInv, CliReview
  PROVE  LedgerInv' /\ \E es \in Seq(LedgerEntry) : ledger' = ledger \o es
<1>1. PICK gate \in ReviewGates, claim \in Claims, action \in {"accept", "reject", "reopen"} :
         Grow(<<[type |-> "review", actor |-> gate.actor, target |-> claim,
                  action |-> action, gate |-> gate]>>)
  BY DEF CliReview
<1> PICK L \in Nat : L = Len(ledger)
  BY DEF LedgerInv
<1>2. PICK n \in Nat : Claims = 1 .. n
  BY DEF LedgerInv, ClaimsAreNumbered
<1> DEFINE a == [type |-> "review", actor |-> gate.actor, target |-> claim,
                 action |-> action, gate |-> gate]
           es == <<a>>
<1>3. ledger' = ledger \o es
  BY <1>1 DEF Grow
<1>4. a \in LedgerEntry
  <2>1. gate.actor \in {g.actor : g \in ReviewGates}
    OBVIOUS
  <2>2. claim \in Nat
    BY <1>2
  <2> QED BY <2>1, <2>2 DEF LedgerEntry
<1>5. a.type = "review" /\ a.target = claim
  OBVIOUS
<1> HIDE DEF a
<1>6. es \in Seq(LedgerEntry) /\ Len(es) = 1 /\ es[1] = a
  BY <1>4
<1> HIDE DEF es
<1>7. /\ ledger' \in Seq(LedgerEntry) /\ Len(ledger') = L + 1
      /\ \A i \in 1 .. L : ledger'[i] = ledger[i]
      /\ ledger'[L + 1] = a
  <2>1. /\ ledger' \in Seq(LedgerEntry) /\ Len(ledger') = L + Len(es)
        /\ \A i \in 1 .. L : ledger'[i] = ledger[i]
        /\ \A j \in 1 .. Len(es) : ledger'[L + j] = es[j]
    BY <1>3, <1>6, LedgerGrows DEF LedgerInv
  <2>2. 1 \in 1 .. Len(es)
    BY <1>6
  <2>3. ledger'[L + 1] = es[1]
    BY <2>1, <2>2
  <2> QED BY <1>6, <2>1, <2>3
<1>8. \A i \in 1 .. Len(ledger') : i \in 1 .. L \/ i = L + 1
  BY <1>7
<1>9. RunsArePairs'
  <2>1. ASSUME NEW i \in 1 .. Len(ledger')
        PROVE  /\ ledger'[i].type = "attach" => i + 1 <= Len(ledger') /\ IsRun(ledger', i)
               /\ ledger'[i].type = "anchor" => i - 1 >= 1 /\ IsRun(ledger', i - 1)
    <3>1. CASE i \in 1 .. L
      <4>1. /\ ledger[i].type = "attach" => i + 1 <= L /\ IsRun(ledger, i)
            /\ ledger[i].type = "anchor" => i - 1 >= 1 /\ IsRun(ledger, i - 1)
        BY <3>1 DEF LedgerInv, RunsArePairs
      <4>2. CASE ledger[i].type = "attach"
        <5>1. i + 1 \in 1 .. L
          BY <3>1, <4>1, <4>2
        <5>2. ledger'[i] = ledger[i] /\ ledger'[i + 1] = ledger[i + 1]
          BY <1>7, <3>1, <5>1
        <5> QED BY <1>7, <3>1, <4>1, <4>2, <5>1, <5>2 DEF IsRun
      <4>3. CASE ledger[i].type = "anchor"
        <5>1. i - 1 \in 1 .. L /\ i - 1 + 1 = i
          BY <3>1, <4>1, <4>3
        <5>2. ledger'[i] = ledger[i] /\ ledger'[i - 1] = ledger[i - 1]
          BY <1>7, <3>1, <5>1
        <5> QED BY <3>1, <4>1, <4>3, <5>1, <5>2 DEF IsRun
      <4> QED BY <1>7, <3>1, <4>2, <4>3
    <3>2. CASE i = L + 1
      BY <1>5, <1>7, <3>2
    <3> QED BY <1>8, <3>1, <3>2
  <2> QED BY <2>1 DEF RunsArePairs
<1>10. \A i \in 1 .. Len(ledger') : ledger'[i].type = "attach" =>
          i \in 1 .. L /\ ledger'[i] = ledger[i]
  BY <1>5, <1>7, <1>8
<1>11. ClaimsAreAttachedOnce'
  <2>1. \A i, k \in 1 .. L :
            ledger[i].type = "attach" /\ ledger[k].type = "attach"
            /\ ledger[i].claim = ledger[k].claim => i = k
    BY DEF LedgerInv, ClaimsAreAttachedOnce
  <2>2. ASSUME NEW i \in 1 .. Len(ledger'), NEW k \in 1 .. Len(ledger'),
               ledger'[i].type = "attach", ledger'[k].type = "attach",
               ledger'[i].claim = ledger'[k].claim
        PROVE  i = k
    BY <1>10, <2>1, <2>2
  <2> QED BY <2>2 DEF ClaimsAreAttachedOnce
<1>12. Claims' = Claims
  <2>1. Claims' = {ledger'[i].claim : i \in {i \in 1 .. Len(ledger') : ledger'[i].type = "attach"}}
    <3>1. DOMAIN ledger' = 1 .. Len(ledger')
      BY <1>7
    <3> QED BY <3>1 DEF Claims
  <2>2. Claims = {ledger[i].claim : i \in {i \in 1 .. L : ledger[i].type = "attach"}}
    BY ClaimPositions DEF LedgerInv
  <2>3. \A i \in 1 .. L : i \in 1 .. Len(ledger')
    BY <1>7
  <2> QED BY <1>7, <1>10, <2>1, <2>2, <2>3
<1>13. ReviewsFollowClaims'
  <2>1. ASSUME NEW k \in 1 .. Len(ledger'), ledger'[k].type = "review"
        PROVE  \E i \in 1 .. k - 1 :
                  ledger'[i].type = "attach" /\ ledger'[i].claim = ledger'[k].target
    <3>1. CASE k \in 1 .. L
      <4>1. PICK i \in 1 .. k - 1 : ledger[i].type = "attach" /\ ledger[i].claim = ledger[k].target
        BY <1>7, <2>1, <3>1 DEF LedgerInv, ReviewsFollowClaims
      <4>2. ledger'[i] = ledger[i] /\ ledger'[k] = ledger[k]
        BY <1>7, <3>1, <4>1
      <4> QED BY <4>1, <4>2
    <3>2. CASE k = L + 1
      <4>1. PICK i \in 1 .. L : ledger[i].type = "attach" /\ ledger[i].claim = claim
        BY ClaimPositions DEF LedgerInv
      <4>2. ledger'[i] = ledger[i] /\ ledger'[k].target = claim /\ i \in 1 .. k - 1
        BY <1>5, <1>7, <3>2, <4>1
      <4> QED BY <4>1, <4>2
    <3> QED BY <1>8, <3>1, <3>2
  <2> QED BY <2>1 DEF ReviewsFollowClaims
<1>14. LedgerInv'
  BY <1>2, <1>7, <1>9, <1>11, <1>12, <1>13 DEF LedgerInv, ClaimsAreNumbered
<1> QED BY <1>3, <1>6, <1>14

-----------------------------------------------------------------------------
(* Proofs and policies *)

\* What a derived proof says, and what of it the ledger keeps true
ProofFields == {"kind", "base", "claim", "subject", "step", "attempt", "gate", "report",
                "stdout", "attach", "authority", "disposition"}
IsProducer(x) == DOMAIN x = ProofFields /\ x.kind = "producer"
IsVerifier(v) ==
    /\ v.kind = "verifier" /\ v.authority \in 1 .. Len(ledger)
    /\ v.gate = ledger[v.authority].gate /\ v.disposition = ledger[v.authority].action

\* A proof without findings is current in each respect.
LEMMA NothingFound ==
  ASSUME NEW l, NEW x, NEW op, CurrentFindings(l, x, op) = {}
  PROVE  GateHolds(x.gate, op) /\ ClaimIsCurrent(l, x) /\ AuthorityIsCurrent(l, x)
         /\ ReviewIsEffective(l, x)
<1> DEFINE f == [lineage_current_operation_gate_invalid |-> ~GateHolds(x.gate, op),
                 lineage_current_claim_mismatch |-> ~ClaimIsCurrent(l, x),
                 lineage_current_authority_invalid |-> ~AuthorityIsCurrent(l, x),
                 verifier_review_no_longer_effective |-> ~ReviewIsEffective(l, x)]
<1>1. \A c \in DOMAIN f : ~f[c]
  BY DEF CurrentFindings, Codes
<1>2. /\ "lineage_current_operation_gate_invalid" \in DOMAIN f
      /\ "lineage_current_claim_mismatch" \in DOMAIN f
      /\ "lineage_current_authority_invalid" \in DOMAIN f
      /\ "verifier_review_no_longer_effective" \in DOMAIN f
  OBVIOUS
<1>3. /\ ~f["lineage_current_operation_gate_invalid"]
      /\ ~f["lineage_current_claim_mismatch"]
      /\ ~f["lineage_current_authority_invalid"]
      /\ ~f["verifier_review_no_longer_effective"]
  <2> HIDE DEF f
  <2> QED BY <1>1, <1>2
<1> QED BY <1>3

\* A producer proof that is current names one run: its claim and its anchor are
\* the two entries that the run appended.
LEMMA CurrentProducer ==
  ASSUME LedgerInv, NEW x, x.kind = "producer", CurrentFindings(ledger, x, "dispatch") = {}
  PROVE  \E i \in 1 .. Len(ledger) :
            /\ i + 1 <= Len(ledger)
            /\ ledger[i].type = "attach" /\ ledger[i].claim = x.claim
            /\ ledger[i].content = x.stdout /\ ledger[i].actor = x.gate.actor
            /\ ledger[i + 1].type = "anchor" /\ ledger[i + 1].hash = x.subject
<1>0. DOMAIN ledger = 1 .. Len(ledger) /\ Len(ledger) \in Nat
  BY DEF LedgerInv
<1>1. /\ ClaimMatches(ledger, x.claim, x.report, x.attempt, x.stdout)
      /\ x.authority \in DOMAIN ledger
      /\ ledger[x.authority].actor = x.gate.actor
      /\ ledger[x.authority].type = "anchor"
      /\ ledger[x.authority].trace = x.attempt
      /\ ledger[x.authority].hash = x.subject
  BY NothingFound DEF ClaimIsCurrent, AuthorityIsCurrent
<1>2. PICK i \in 1 .. Len(ledger) :
         /\ ledger[i].type = "attach" /\ ledger[i].claim = x.claim
         /\ ledger[i].trace = x.attempt /\ ledger[i].content = x.stdout
  BY <1>0, <1>1 DEF ClaimMatches
<1> PICK m \in 1 .. Len(ledger) : m = x.authority
  BY <1>0, <1>1
<1>3. m - 1 \in 1 .. Len(ledger) /\ IsRun(ledger, m - 1) /\ m - 1 + 1 = m
  BY <1>0, <1>1 DEF LedgerInv, RunsArePairs
<1>4. i + 1 <= Len(ledger) /\ IsRun(ledger, i)
  BY <1>2 DEF LedgerInv, RunsArePairs
<1>5. /\ ledger[m - 1].type = "attach" /\ ledger[m - 1].claim = x.attempt
      /\ ledger[m - 1].actor = x.gate.actor
  BY <1>1, <1>3 DEF IsRun
<1>6. ledger[i].claim = x.attempt
  BY <1>2, <1>4 DEF IsRun
<1>7. i = m - 1
  BY <1>2, <1>3, <1>5, <1>6 DEF LedgerInv, ClaimsAreAttachedOnce
<1>8. i + 1 = m
  BY <1>0, <1>7
<1> QED BY <1>1, <1>2, <1>4, <1>5, <1>7, <1>8

\* A verifier proof that is current is a review of its claim that still has
\* effect.
LEMMA CurrentVerifier ==
  ASSUME LedgerInv, NEW v, IsVerifier(v), CurrentFindings(ledger, v, "review") = {}
  PROVE  /\ GateHolds(v.gate, "review")
         /\ ledger[v.authority].actor = v.gate.actor
         /\ ledger[v.authority].type = "review" /\ ledger[v.authority].target = v.claim
         /\ v.disposition = "accept" => LatestStatus(ledger, v.claim) = "accepted"
BY NothingFound DEF AuthorityIsCurrent, ReviewIsEffective, IsVerifier

\* A set of positions that is not empty has a last one.
LEMMA LastPosition ==
  ASSUME NEW n \in Nat, NEW S, S \subseteq 1 .. n, S # {}
  PROVE  /\ Max(S) \in S
         /\ \A i \in S : i <= Max(S)
<1> DEFINE T == {k \in 0 .. n : n - k \in S}
<1>1. T \subseteq Nat /\ T # {}
  <2> PICK i \in S : TRUE
    OBVIOUS
  <2>1. n - i \in 0 .. n /\ n - (n - i) = i
    OBVIOUS
  <2>2. n - i \in T
    BY <2>1
  <2>3. T \subseteq Nat
    OBVIOUS
  <2> HIDE DEF T
  <2> QED BY <2>2, <2>3
<1>2. PICK m \in T : \A k \in T : ~(<<k, m>> \in OpToRel(<, Nat))
  <2> HIDE DEF T
  <2> QED BY <1>1, NatLessThanWellFounded, WFMin
<1>3. \A j \in S : j <= n - m
  <2> TAKE j \in S
  <2>1. n - j \in 0 .. n /\ n - (n - j) = j
    OBVIOUS
  <2>2. n - j \in T
    BY <2>1
  <2>3. ~(n - j < m)
    BY <1>1, <1>2, <2>1, <2>2 DEF OpToRel
  <2> QED BY <2>1, <2>3
<1>4. n - m \in S
  OBVIOUS
<1>5. \E x \in S : \A y \in S : x >= y
  BY <1>3, <1>4
<1> QED BY <1>5 DEF Max

\* When a claim that was reviewed stands accepted, its last review says so.
LEMMA AcceptedByTheLast ==
  ASSUME LedgerInv, NEW i \in 1 .. Len(ledger), ledger[i].type = "attach",
         NEW m \in 1 .. Len(ledger),
         ledger[m].type = "review", ledger[m].target = ledger[i].claim,
         LatestStatus(ledger, ledger[i].claim) = "accepted"
  PROVE  \E k \in i + 1 .. rev :
            /\ ledger[k] \in ReviewsSince(i) /\ ledger[k].action = "accept"
            /\ \A h \in k + 1 .. rev : ledger[h] \notin ReviewsSince(i)
<1>0. DOMAIN ledger = 1 .. Len(ledger) /\ Len(ledger) \in Nat /\ rev = Len(ledger)
  BY DEF LedgerInv, rev
<1> DEFINE S == ReviewsOf(ledger, ledger[i].claim)
<1>1. \A h : h \in S <=> /\ h \in 1 .. Len(ledger) /\ ledger[h].type = "review"
                         /\ ledger[h].target = ledger[i].claim
  BY <1>0 DEF ReviewsOf
<1>2. S \subseteq 1 .. Len(ledger) /\ S # {}
  BY <1>1
<1> PICK k : k = Max(S)
  OBVIOUS
<1>3. k \in S /\ \A h \in S : h <= k
  <2> HIDE DEF S
  <2> QED BY <1>0, <1>2, LastPosition
<1>4. k # 0 /\ k = LatestReview(ledger, ledger[i].claim)
  BY <1>2, <1>3 DEF LatestReview
<1>5. ledger[k].action = "accept"
  BY <1>4 DEF LatestStatus
<1> HIDE DEF S
<1>6. \A h \in S : h \in i + 1 .. rev
  <2> TAKE h \in S
  <2>1. h \in 1 .. Len(ledger) /\ ledger[h].type = "review" /\ ledger[h].target = ledger[i].claim
    BY <1>1
  <2>2. PICK j \in 1 .. h - 1 : ledger[j].type = "attach" /\ ledger[j].claim = ledger[h].target
    BY <2>1 DEF LedgerInv, ReviewsFollowClaims
  <2>3. j \in 1 .. Len(ledger)
    BY <1>0, <2>1
  <2>4. j = i
    BY <2>1, <2>2, <2>3 DEF LedgerInv, ClaimsAreAttachedOnce
  <2> QED BY <1>0, <2>1, <2>2, <2>4
<1>7. ledger[k] \in ReviewsSince(i)
  BY <1>1, <1>3, <1>6 DEF ReviewsSince
<1>8. ASSUME NEW h \in k + 1 .. rev, ledger[h] \in ReviewsSince(i)
      PROVE  FALSE
  <2>1. ledger[h].type = "review" /\ ledger[h].target = ledger[i].claim
    BY <1>8 DEF ReviewsSince
  <2>2. k \in 1 .. Len(ledger)
    BY <1>1, <1>3
  <2>3. h \in S
    BY <1>0, <1>1, <2>1, <2>2
  <2> QED BY <1>0, <1>3, <2>2, <2>3
<1> QED BY <1>3, <1>5, <1>6, <1>7, <1>8

\* A policy without findings is well formed, and its quorum is met.
LEMMA QuorumIsMet ==
  ASSUME NEW p, NEW producer, NEW verifiers, NEW anchors, NEW qualifying,
         BoundFindings(p, producer, verifiers, anchors, qualifying) = {}
  PROVE  p.minimum # 0 /\ Quorum(p, verifiers, qualifying)
<1>1. PolicyFindings(p) = {}
  BY DEF BoundFindings
<1>2. p.minimum # 0
  <2> DEFINE f == [unsupported_schema |-> ~p.known, empty_required_field |-> p.blank,
                   invalid_quorum |-> p.minimum = 0 \/ p.total = 0 \/ p.minimum > p.total,
                   invalid_policy_identifier |->
                      Blank \in p.producerCaps \cup p.verifierCaps \cup p.anchors]
  <2>1. \A c \in DOMAIN f : ~f[c]
    BY <1>1 DEF PolicyFindings, Codes
  <2>2. "invalid_quorum" \in DOMAIN f
    OBVIOUS
  <2>3. ~f["invalid_quorum"]
    <3> HIDE DEF f
    <3> QED BY <2>1, <2>2
  <2> QED BY <2>3
<1>3. Quorum(p, verifiers, qualifying)
  <2> DEFINE f == [producer_capability_missing |-> ~(p.producerCaps \subseteq {producer.gate.cap}),
           duplicate_or_empty_verifier_report |->
              \E i, k \in DOMAIN verifiers : i # k /\ verifiers[i].report = verifiers[k].report,
           duplicate_or_empty_verifier_actor |->
              \E i, k \in DOMAIN verifiers : /\ verifiers[i].report # verifiers[k].report
                                             /\ verifiers[i].gate.actor = verifiers[k].gate.actor,
           verifier_lineage_binding_mismatch |->
              \E i \in Members(verifiers) : ~SameBinding(verifiers[i], producer),
           same_actor_policy_violation |->
              \E i \in Members(verifiers) : ~Differs(p, verifiers[i], producer),
           quorum_not_satisfied |-> ~Quorum(p, verifiers, qualifying),
           required_anchor_not_satisfied |-> ~(p.anchors \subseteq anchors)]
  <2>1. \A c \in DOMAIN f : ~f[c]
    BY DEF BoundFindings, Codes
  <2>2. "quorum_not_satisfied" \in DOMAIN f
    OBVIOUS
  <2>3. ~f["quorum_not_satisfied"]
    <3> HIDE DEF f
    <3> QED BY <2>1, <2>2
  <2> QED BY <2>3
<1> QED BY <1>2, <1>3

\* Two verifiers that count have different actors.
LEMMA MembersDiffer ==
  ASSUME NEW n \in Nat, NEW verifiers, DOMAIN verifiers = 1 .. n,
         NEW j \in Members(verifiers), NEW k \in Members(verifiers),
         verifiers[j].gate.actor = verifiers[k].gate.actor
  PROVE  j = k
<1>1. j \in 1 .. n /\ k \in 1 .. n
  BY DEF Members
<1>2. ~(k < j) /\ ~(j < k)
  BY DEF Members
<1> QED BY <1>1, <1>2

\* The actors whose acceptance counts are finitely many.
LEMMA AcceptingIsFinite ==
  ASSUME LedgerInv, NEW p, NEW i \in 1 .. Len(ledger)
  PROVE  IsFiniteSet(Accepting(p, i))
<1>0. Len(ledger) \in Nat
  BY DEF LedgerInv
<1> DEFINE A == {ledger[k].actor : k \in 1 .. Len(ledger)}
           g == [k \in 1 .. Len(ledger) |-> ledger[k].actor]
<1>1. g \in Surjection(1 .. Len(ledger), A)
  BY DEF Surjection
<1>2. IsFiniteSet(1 .. Len(ledger))
  BY <1>0, FS_Interval
<1>3. IsFiniteSet(A)
  <2> HIDE DEF A, g
  <2> QED BY <1>1, <1>2, FS_Surjection
<1>4. Accepting(p, i) \subseteq A
  <2>1. \A k \in i + 1 .. rev : k \in 1 .. Len(ledger)
    BY <1>0 DEF rev
  <2> QED BY <2>1 DEF Accepting, ReviewsSince
<1> HIDE DEF A
<1> QED BY <1>3, <1>4, FS_Subset

\* A policy that proofs of the case satisfy is satisfied by the ledger.
LEMMA SatisfiedByTheLedger ==
  ASSUME LedgerInv, NEW p \in Policies, NEW producer, producer.kind = "producer",
         NEW n \in Nat, NEW verifiers, DOMAIN verifiers = 1 .. n,
         \A j \in 1 .. n : IsVerifier(verifiers[j]), NEW anchors,
         ReconcilePolicy(ledger, p, producer, verifiers, anchors).satisfied
  PROVE  \E i \in DOMAIN ledger : SatisfiedBy(p, producer, i)
<1>0. DOMAIN ledger = 1 .. Len(ledger) /\ Len(ledger) \in Nat /\ rev = Len(ledger)
  BY DEF LedgerInv, rev
<1> DEFINE Q == Qualifying(p, producer, verifiers)
           acc == {j \in Q : verifiers[j].disposition = "accept"}
<1>1. /\ BoundFindings(p, producer, verifiers, anchors, Q) = {}
      /\ CurrentFindings(ledger, producer, "dispatch") = {}
      /\ \A j \in 1 .. n : CurrentFindings(ledger, verifiers[j], "review") = {}
  <2>1. BoundFindings(p, producer, verifiers, anchors, Q)
        \cup (CurrentFindings(ledger, producer, "dispatch")
              \cup UNION {CurrentFindings(ledger, verifiers[j], "review") : j \in DOMAIN verifiers})
        = {}
    BY DEF ReconcilePolicy, PolicyResult
  <2> HIDE DEF Q
  <2>2. UNION {CurrentFindings(ledger, verifiers[j], "review") : j \in 1 .. n} = {}
    BY <2>1
  <2>3. \A j \in 1 .. n : CurrentFindings(ledger, verifiers[j], "review") = {}
    BY <2>2
  <2> QED BY <2>1, <2>3
<1>2. p.minimum \in Nat /\ p.minimum > 0 /\ Cardinality(acc) >= p.minimum
  <2>1. p.minimum # 0 /\ Quorum(p, verifiers, Q)
    BY <1>1, QuorumIsMet
  <2>2. Cardinality(acc) >= p.minimum
    BY <2>1 DEF Quorum
  <2> HIDE DEF acc
  <2> QED BY <2>1, <2>2, PoliciesHaveMinimum
<1>3. PICK i \in 1 .. Len(ledger) :
         /\ i + 1 <= Len(ledger)
         /\ ledger[i].type = "attach" /\ ledger[i].claim = producer.claim
         /\ ledger[i].content = producer.stdout /\ ledger[i].actor = producer.gate.actor
         /\ ledger[i + 1].type = "anchor" /\ ledger[i + 1].hash = producer.subject
  BY <1>1, CurrentProducer
\* What each verifier of the quorum is in the ledger
<1>4. ASSUME NEW j \in acc
      PROVE  /\ j \in Members(verifiers) /\ j \in 1 .. n
             /\ verifiers[j].authority \in 1 .. Len(ledger)
             /\ ledger[verifiers[j].authority].type = "review"
             /\ ledger[verifiers[j].authority].target = ledger[i].claim
             /\ ledger[verifiers[j].authority].action = "accept"
             /\ ledger[verifiers[j].authority].actor = verifiers[j].gate.actor
             /\ ledger[verifiers[j].authority].gate = verifiers[j].gate
             /\ p.verifierCaps \subseteq {verifiers[j].gate.cap}
             /\ <<verifiers[j].gate.actor, "review">> \in Grants[verifiers[j].gate.cap]
             /\ p.differ => verifiers[j].gate.actor # ledger[i].actor
             /\ LatestStatus(ledger, ledger[i].claim) = "accepted"
  <2>1. /\ j \in Members(verifiers) /\ verifiers[j].disposition = "accept"
        /\ p.verifierCaps \subseteq {verifiers[j].gate.cap}
        /\ Differs(p, verifiers[j], producer) /\ SameBinding(verifiers[j], producer)
    BY DEF Qualifying
  <2>2. j \in 1 .. n
    BY <2>1 DEF Members
  <2>3. verifiers[j].claim = producer.claim
    BY <2>1 DEF SameBinding
  <2>4. IsVerifier(verifiers[j])
    BY <2>2
  <2>5. /\ GateHolds(verifiers[j].gate, "review")
        /\ ledger[verifiers[j].authority].actor = verifiers[j].gate.actor
        /\ ledger[verifiers[j].authority].type = "review"
        /\ ledger[verifiers[j].authority].target = verifiers[j].claim
        /\ LatestStatus(ledger, verifiers[j].claim) = "accepted"
    BY <1>1, <2>1, <2>2, <2>4, CurrentVerifier
  <2>6. /\ verifiers[j].authority \in 1 .. Len(ledger)
        /\ ledger[verifiers[j].authority].action = "accept"
        /\ ledger[verifiers[j].authority].gate = verifiers[j].gate
    BY <2>1, <2>4 DEF IsVerifier
  <2>7. <<verifiers[j].gate.actor, "review">> \in Grants[verifiers[j].gate.cap]
    BY <2>5 DEF GateHolds
  <2>8. p.differ => verifiers[j].gate.actor # ledger[i].actor
    BY <1>3, <2>1 DEF Differs
  <2> HIDE DEF acc
  <2> QED BY <1>3, <2>1, <2>2, <2>3, <2>5, <2>6, <2>7, <2>8
<1>5. acc \subseteq 1 .. n
  BY <1>4
<1>6. IsFiniteSet(acc) /\ Cardinality(acc) \in Nat
  <2> HIDE DEF acc
  <2>1. IsFiniteSet(1 .. n)
    BY FS_Interval
  <2>2. IsFiniteSet(acc)
    BY <1>5, <2>1, FS_Subset
  <2> QED BY <2>2, FS_CardinalityType
<1> HIDE DEF Q, acc
<1>7. Cardinality(Accepting(p, i)) >= p.minimum
  <2> DEFINE g == [j \in acc |-> verifiers[j].gate.actor]
  <2>1. ASSUME NEW j \in acc PROVE g[j] \in Accepting(p, i)
    <3> PICK k \in 1 .. Len(ledger) : k = verifiers[j].authority
      BY <1>4
    <3>1. k \in i + 1 .. rev
      <4>1. ledger[k].type = "review" /\ ledger[k].target = ledger[i].claim
        BY <1>4
      <4>2. PICK h \in 1 .. k - 1 : ledger[h].type = "attach" /\ ledger[h].claim = ledger[k].target
        BY <4>1 DEF LedgerInv, ReviewsFollowClaims
      <4>3. h \in 1 .. Len(ledger)
        BY <1>0
      <4>4. h = i
        BY <1>3, <4>1, <4>2, <4>3 DEF LedgerInv, ClaimsAreAttachedOnce
      <4> QED BY <1>0, <4>2, <4>4
    <3>2. ledger[k] \in ReviewsSince(i)
      BY <1>4, <3>1 DEF ReviewsSince
    <3>3. ledger[k].actor \in Accepting(p, i)
      <4> PICK r : r = ledger[k]
        OBVIOUS
      <4>1. /\ r.action = "accept" /\ p.verifierCaps \subseteq {r.gate.cap}
            /\ <<r.actor, "review">> \in Grants[r.gate.cap]
            /\ p.differ => r.actor # ledger[i].actor
        BY <1>4
      <4> QED BY <3>2, <4>1 DEF Accepting
    <3> QED BY <1>4, <3>3
  <2>2. g \in [acc -> Accepting(p, i)]
    BY <2>1
  <2>3. \A a, b \in acc : g[a] = g[b] => a = b
    BY <1>4, MembersDiffer
  <2>4. g \in Injection(acc, Accepting(p, i))
    BY <2>2, <2>3 DEF Injection, IsInjective
  <2>5. IsFiniteSet(Accepting(p, i))
    BY AcceptingIsFinite
  <2>6. Cardinality(Accepting(p, i)) \in Nat
    BY <2>5, FS_CardinalityType
  <2>7. Cardinality(acc) <= Cardinality(Accepting(p, i))
    <3> HIDE DEF g
    <3> QED BY <2>4, <2>5, FS_Injection
  <2> QED BY <1>2, <1>6, <2>6, <2>7
<1>8. \E k \in i + 1 .. rev :
         /\ ledger[k] \in ReviewsSince(i) /\ ledger[k].action = "accept"
         /\ \A h \in k + 1 .. rev : ledger[h] \notin ReviewsSince(i)
  <2>1. acc # {}
    <3>1. Cardinality({}) = 0
      BY FS_EmptySet
    <3>2. Cardinality(acc) # 0
      BY <1>2, <1>6
    <3> QED BY <3>1, <3>2
  <2>2. PICK j \in acc : TRUE
    BY <2>1
  <2> PICK m \in 1 .. Len(ledger) : m = verifiers[j].authority
    BY <1>4
  <2>3. /\ ledger[m].type = "review" /\ ledger[m].target = ledger[i].claim
        /\ LatestStatus(ledger, ledger[i].claim) = "accepted"
    BY <1>4
  <2> QED BY <1>3, <2>3, AcceptedByTheLast
<1>9. SatisfiedBy(p, producer, i)
  BY <1>2, <1>3, <1>7, <1>8 DEF SatisfiedBy
<1> QED BY <1>0, <1>9

-----------------------------------------------------------------------------
(* The inductive invariant behind PolicySatisfactionIsCurrent *)

\* What a caller keeps are proofs of this case.
HeldInv ==
    /\ DOMAIN held = {"producer", "anchors", "verifiers"}
    /\ held.producer # None => IsProducer(held.producer)
    /\ held.verifiers \in Seq(Range(held.verifiers))
    /\ \A j \in DOMAIN held.verifiers : IsVerifier(held.verifiers[j])
RunInv == LedgerInv /\ HeldInv /\ PolicySatisfactionIsCurrent

\* What was held stays true as the ledger grows.
LEMMA HeldStays ==
  ASSUME LedgerInv, HeldInv, NEW es \in Seq(LedgerEntry),
         ledger' = ledger \o es, held' = held
  PROVE  HeldInv'
<1>1. /\ Len(ledger) \in Nat /\ Len(ledger) <= Len(ledger')
      /\ \A i \in 1 .. Len(ledger) : ledger'[i] = ledger[i]
  BY LedgerGrows DEF LedgerInv
<1>2. ASSUME NEW v, IsVerifier(v) PROVE IsVerifier(v)'
  BY <1>1, <1>2 DEF IsVerifier
<1> QED BY <1>2 DEF HeldInv

\* A derived producer proof has the fields of a proof.
LEMMA DerivedProducer ==
  ASSUME NEW l, NEW c, NEW f
  PROVE  IsProducer(ProducerProof(l, c, f))
BY DEF IsProducer, ProducerProof, ProofFields

\* A verifier proof without findings is a review of the ledger.
LEMMA DerivedVerifier ==
  ASSUME LedgerInv, NEW x, IsProducer(x), NEW i, VerifierFindings(ledger, x, i) = {}
  PROVE  IsVerifier(VerifierProof(ledger, x, i))
<1>1. DOMAIN ledger = 1 .. Len(ledger)
  BY DEF LedgerInv
<1>2. i \in 1 .. Len(ledger)
  BY <1>1 DEF VerifierFindings
<1>3. /\ VerifierProof(ledger, x, i).kind = "verifier"
      /\ VerifierProof(ledger, x, i).authority = i
      /\ VerifierProof(ledger, x, i).gate = ledger[i].gate
      /\ VerifierProof(ledger, x, i).disposition = ledger[i].action
  BY DEF IsProducer, ProofFields, VerifierProof
<1> QED BY <1>2, <1>3 DEF IsVerifier

\* The proofs of a set of reviews, in a sequence
LEMMA SequenceOfProofs ==
  ASSUME NEW S, IsFiniteSet(S)
  PROVE  /\ Cardinality(S) \in Nat
         /\ DOMAIN SetToSeq(S) = 1 .. Cardinality(S)
         /\ \A j \in 1 .. Cardinality(S) : SetToSeq(S)[j] \in S
         /\ SetToSeq(S) \in [1 .. Cardinality(S) -> S]
<1>1. Cardinality(S) \in Nat /\ ExistsBijection(1 .. Cardinality(S), S)
  BY FS_CardinalityType
<1>2. \E f \in [1 .. Cardinality(S) -> S] : IsInjective(f)
  BY <1>1 DEF ExistsBijection, Bijection, Injection, IsInjective
<1>3. SetToSeq(S) \in [1 .. Cardinality(S) -> S]
  BY <1>2 DEF SetToSeq
<1> QED BY <1>1, <1>3

\* An answer about a policy is about the ledger as it stands.
LEMMA AnswerIsCurrent ==
  ASSUME LedgerInv, NEW p \in Policies, NEW producer, producer.kind = "producer",
         NEW n \in Nat, NEW verifiers, DOMAIN verifiers = 1 .. n,
         \A j \in 1 .. n : IsVerifier(verifiers[j]), NEW anchors,
         AnswerPolicy(p, producer, verifiers, anchors), ledger' = ledger
  PROVE  PolicySatisfactionIsCurrent'
<1> PICK x : x = producer
  OBVIOUS
<1>1. /\ answer'.policy = p /\ answer'.producer = x
      /\ answer'.result = ReconcilePolicy(ledger, p, producer, verifiers, anchors)
  BY DEF AnswerPolicy
<1>2. ASSUME ReconcilePolicy(ledger, p, producer, verifiers, anchors).satisfied
      PROVE  \E i \in DOMAIN ledger' : SatisfiedBy(p, x, i)'
  <2>1. PICK i \in DOMAIN ledger : SatisfiedBy(p, x, i)
    BY <1>2, SatisfiedByTheLedger
  <2>2. SatisfiedBy(p, x, i)'
    BY <2>1, SMTT(30) DEF SatisfiedBy, ReviewsSince, Accepting, rev
  <2> QED BY <2>2
<1> QED BY <1>1, <1>2 DEF PolicySatisfactionIsCurrent

\* Answers about other things, and refusals
LEMMA OtherAnswers ==
  ASSUME answer' = None \/ ~Answers("verification")'
  PROVE  PolicySatisfactionIsCurrent'
BY DEF PolicySatisfactionIsCurrent, Answers

\* A refusal is no answer.
LEMMA RefusalIsNoAnswer ==
  ASSUME NEW tool, NEW codes, codes # {}, Refuse(tool, codes)
  PROVE  ~Answers("verification")'
BY DEF Refuse, Answers

\* What the host answers about a claim is derived from the ledger it answers about.
LEMMA LineageIsCurrent ==
  ASSUME RunInv, ReconcileVerificationLineage
  PROVE  PolicySatisfactionIsCurrent'
<1>1. PICK p \in Policies, claim \in Claims, f \in Presentable, believed \in {rev, 0},
           reviews \in SUBSET UNION {ReviewsOf(ledger, c) : c \in Claims},
           wanted \in SUBSET ArtifactAnchors, trace \in BOOLEAN :
         IF believed # rev THEN Refuse("verification", {"stale_revision"})
         ELSE AnswerLineage(p, claim, f, reviews, wanted, trace,
                            LineageFindings(claim, f, reviews, wanted, trace))
  BY DEF ReconcileVerificationLineage
<1>2. ledger' = ledger /\ LedgerInv
  BY DEF ReconcileVerificationLineage, RunInv
<1> DEFINE findings == LineageFindings(claim, f, reviews, wanted, trace)
           producer == ProducerProof(ledger, claim, f)
           S == {VerifierProof(ledger, producer, i) : i \in reviews}
           anchors == Ids(wanted) \cup IF trace THEN {"trace"} ELSE {}
<1>3. CASE believed # rev
  BY <1>1, <1>3, RefusalIsNoAnswer, OtherAnswers
<1>4. CASE believed = rev /\ findings # {}
  <2>1. Refuse("verification", findings)
    BY <1>1, <1>4 DEF AnswerLineage
  <2> HIDE DEF findings
  <2> QED BY <1>4, <2>1, RefusalIsNoAnswer, OtherAnswers
<1>5. CASE believed = rev /\ findings = {}
  <2>1. AnswerPolicy(p, producer, SetToSeq(S), anchors)
    BY <1>1, <1>5 DEF AnswerLineage
  <2>2. IsProducer(producer)
    BY DerivedProducer
  <2>3. \A i \in reviews : VerifierFindings(ledger, producer, i) = {}
    <3>1. ProducerFindings(ledger, claim, f) = {}
      BY <1>5 DEF LineageFindings
    <3>2. UNION {VerifierFindings(ledger, producer, i) : i \in reviews} = {}
      BY <1>5, <3>1 DEF LineageFindings
    <3> HIDE DEF producer
    <3> QED BY <3>2
  <2> HIDE DEF producer, anchors
  <2>4. \A v \in S : IsVerifier(v)
    BY <1>2, <2>2, <2>3, DerivedVerifier
  <2>5. IsFiniteSet(S)
    <3>1. Len(ledger) \in Nat /\ DOMAIN ledger = 1 .. Len(ledger)
      BY <1>2 DEF LedgerInv
    <3>2. reviews \subseteq 1 .. Len(ledger)
      BY <3>1 DEF ReviewsOf
    <3>3. IsFiniteSet(1 .. Len(ledger))
      BY <3>1, FS_Interval
    <3>4. IsFiniteSet(reviews)
      BY <3>2, <3>3, FS_Subset
    <3> DEFINE g == [i \in reviews |-> VerifierProof(ledger, producer, i)]
    <3>5. g \in Surjection(reviews, S)
      BY DEF Surjection
    <3> HIDE DEF S, g
    <3> QED BY <3>4, <3>5, FS_Surjection
  <2> HIDE DEF S
  <2>6. /\ Cardinality(S) \in Nat /\ DOMAIN SetToSeq(S) = 1 .. Cardinality(S)
        /\ \A j \in 1 .. Cardinality(S) : SetToSeq(S)[j] \in S
    BY <2>5, SequenceOfProofs
  <2>7. \A j \in 1 .. Cardinality(S) : IsVerifier(SetToSeq(S)[j])
    BY <2>4, <2>6
  <2>8. producer.kind = "producer"
    BY <2>2 DEF IsProducer
  <2> QED BY <1>2, <2>1, <2>6, <2>7, <2>8, AnswerIsCurrent
<1> QED BY <1>3, <1>4, <1>5

\* So is what a caller gets for proofs that he kept.
LEMMA HeldIsCurrent ==
  ASSUME RunInv, ReconcileHeld
  PROVE  PolicySatisfactionIsCurrent'
<1>1. PICK p \in Policies : AnswerPolicy(p, held.producer, held.verifiers, held.anchors)
  BY DEF ReconcileHeld
<1>2. ledger' = ledger /\ LedgerInv /\ held.producer.kind = "producer"
  BY DEF ReconcileHeld, RunInv, HeldInv, IsProducer
<1>3. /\ Len(held.verifiers) \in Nat /\ DOMAIN held.verifiers = 1 .. Len(held.verifiers)
      /\ \A j \in 1 .. Len(held.verifiers) : IsVerifier(held.verifiers[j])
  BY DEF RunInv, HeldInv
<1> QED BY <1>1, <1>2, <1>3, AnswerIsCurrent

\* A step that leaves the ledger and the kept proofs leaves what is said of them.
LEMMA QuietSteps ==
  ASSUME LedgerInv, HeldInv, ledger' = ledger, held' = held
  PROVE  LedgerInv' /\ HeldInv'
<1>1. LedgerInv'
  BY DEF LedgerInv, RunsArePairs, ClaimsAreAttachedOnce, ClaimsAreNumbered,
         ReviewsFollowClaims, Claims, IsRun
<1>2. ASSUME NEW v, IsVerifier(v) PROVE IsVerifier(v)'
  BY <1>2 DEF IsVerifier
<1>3. HeldInv'
  BY <1>2 DEF HeldInv
<1> QED BY <1>1, <1>3

\* Growth of the ledger is by its entries, and answers nothing.
LEMMA GrowthKeepsInv ==
  ASSUME RunInv, CliRun \/ CliReview
  PROVE  RunInv'
<1>1. LedgerInv' /\ \E es \in Seq(LedgerEntry) : ledger' = ledger \o es
  BY RunKeepsLedger, ReviewKeepsLedger DEF RunInv
<1>2. held' = held /\ answer' = None
  BY DEF CliRun, CliReview, Grow
<1>3. HeldInv'
  BY <1>1, <1>2, HeldStays DEF RunInv
<1> QED BY <1>1, <1>2, <1>3, OtherAnswers DEF RunInv

\* A proof is kept only while it is current.
LEMMA HoldingKeepsInv ==
  ASSUME RunInv, HoldProducer \/ HoldVerifier
  PROVE  RunInv'
<1>0. LedgerInv /\ HeldInv
  BY DEF RunInv
<1>1. ledger' = ledger /\ answer' = None
  BY DEF HoldProducer, HoldVerifier
<1>2. LedgerInv'
  BY <1>0, <1>1, SMTT(30) DEF LedgerInv, RunsArePairs, ClaimsAreAttachedOnce, ClaimsAreNumbered,
                    ReviewsFollowClaims, Claims, IsRun
<1>3. CASE HoldProducer
  <2>1. PICK claim \in Claims, f \in Presentable :
           held' = [NothingHeld EXCEPT !.producer = ProducerProof(ledger, claim, f),
                      !.anchors = IF ObserveTraceFindings(ledger, f) = {} THEN {"trace"} ELSE {}]
    BY <1>3 DEF HoldProducer
  <2> PICK x : x = ProducerProof(ledger, claim, f)
    OBVIOUS
  <2>2. /\ DOMAIN held' = {"producer", "anchors", "verifiers"}
        /\ held'.producer = x /\ held'.verifiers = <<>>
    BY <2>1 DEF NothingHeld
  <2>3. IsProducer(x)
    BY DerivedProducer
  <2>4. <<>> \in Seq(Range(<<>>)) /\ DOMAIN <<>> = {}
    OBVIOUS
  <2>5. HeldInv'
    BY <2>2, <2>3, <2>4 DEF HeldInv, IsProducer
  <2> QED BY <1>1, <1>2, <2>5, OtherAnswers DEF RunInv
<1>4. CASE HoldVerifier
  <2>1. PICK i : /\ VerifierFindings(ledger, held.producer, i) = {}
                 /\ held' = [held EXCEPT !.verifiers =
                               Append(@, VerifierProof(ledger, held.producer, i))]
    BY <1>4 DEF HoldVerifier
  <2>2. IsProducer(held.producer)
    BY <1>0, <1>4 DEF HoldVerifier, HeldInv
  <2> PICK v : v = VerifierProof(ledger, held.producer, i)
    OBVIOUS
  <2>3. IsVerifier(v)
    BY <1>0, <2>1, <2>2, DerivedVerifier
  <2>4. IsVerifier(v)'
    BY <1>1, <2>3 DEF IsVerifier
  <2> PICK s : s = held.verifiers
    OBVIOUS
  <2> PICK t : t = Append(s, v)
    OBVIOUS
  <2>5. /\ DOMAIN held' = {"producer", "anchors", "verifiers"}
        /\ held'.producer = held.producer /\ held'.verifiers = t
    BY <1>0, <2>1 DEF HeldInv
  <2>6. /\ t \in Seq(Range(t)) /\ DOMAIN t = 1 .. Len(s) + 1
        /\ \A j \in 1 .. Len(s) : t[j] = s[j]
        /\ t[Len(s) + 1] = v
    <3> PICK R : R = Range(s) \cup {v}
      OBVIOUS
    <3>1. s \in Seq(R)
      <4>1. s \in Seq(Range(s))
        BY <1>0 DEF HeldInv
      <4> QED BY <4>1
    <3>2. /\ t \in Seq(R) /\ DOMAIN t = 1 .. Len(s) + 1
          /\ \A j \in 1 .. Len(s) : t[j] = s[j]
          /\ t[Len(s) + 1] = v
      BY <3>1
    <3>3. \A j \in DOMAIN t : t[j] \in Range(t)
      BY DEF Range
    <3>4. t \in Seq(Range(t))
      BY <3>2, <3>3
    <3> QED BY <3>2, <3>4
  <2>7. \A j \in 1 .. Len(s) : IsVerifier(s[j])
    BY <1>0 DEF HeldInv
  <2>8. ASSUME NEW j \in DOMAIN t PROVE IsVerifier(t[j])'
    <3>1. CASE j \in 1 .. Len(s)
      <4> PICK w : w = s[j]
        OBVIOUS
      <4>1. IsVerifier(w)'
        BY <1>1, <2>7, <3>1 DEF IsVerifier
      <4> QED BY <2>6, <3>1, <4>1
    <3>2. CASE j = Len(s) + 1
      BY <2>4, <2>6, <3>2
    <3>3. Len(s) \in Nat
      BY <1>0 DEF HeldInv
    <3> QED BY <2>6, <3>1, <3>2, <3>3
  <2>9. HeldInv'
    BY <2>2, <2>5, <2>6, <2>8 DEF HeldInv, IsProducer
  <2> QED BY <1>1, <1>2, <2>9, OtherAnswers DEF RunInv
<1> QED BY <1>3, <1>4

\* The first state holds the invariant.
LEMMA RunInit == Init => RunInv
<1> SUFFICES ASSUME Init PROVE RunInv
  OBVIOUS
<1>1. ledger = <<>> /\ held = NothingHeld /\ answer = None
  BY DEF Init
<1>2. Claims = 1 .. 0
  BY <1>1 DEF Claims
<1>3. LedgerInv
  BY <1>1, <1>2 DEF LedgerInv, RunsArePairs, ClaimsAreAttachedOnce, ClaimsAreNumbered,
                    ReviewsFollowClaims
<1>4. HeldInv
  BY <1>1 DEF HeldInv, NothingHeld
<1> QED BY <1>1, <1>3, <1>4 DEF RunInv, PolicySatisfactionIsCurrent, Answers

\* Every step, stuttering included, keeps it.
LEMMA RunNext ==
  ASSUME RunInv, [Next]_vars
  PROVE  RunInv'
<1>0. LedgerInv /\ HeldInv /\ PolicySatisfactionIsCurrent
  BY DEF RunInv
<1>1. CASE HandRecords \/ HandEvent
  <2>1. ledger' = ledger /\ held' = held /\ answer' = None
    BY <1>1 DEF HandRecords, HandEvent
  <2> QED BY <1>0, <2>1, QuietSteps, OtherAnswers DEF RunInv
<1>2. CASE ReconcileRun
  <2>1. ledger' = ledger /\ held' = held
    BY <1>2 DEF ReconcileRun
  <2>2. answer'.tool = "run"
    <3>1. CASE Answered(records, {})
      BY <3>1 DEF Answered
    <3>2. ASSUME NEW b \in Bundles, NEW believed \in {rev, 0},
                 LET findings == BundleFindings(Topology, believed, b)
                 IN  IF findings # {} THEN Refuse("run", findings)
                     ELSE IF JournalFindings(b) # {} THEN Refuse("run", JournalFindings(b))
                     ELSE Answered(records \o AllocationRecords(b), Expectations(b))
          PROVE  answer'.tool = "run"
      BY <3>2 DEF Answered, Refuse
    <3> QED BY <1>2, <3>1, <3>2 DEF ReconcileRun
  <2>3. ~Answers("verification")'
    BY <2>2 DEF Answers
  <2> QED BY <1>0, <2>1, <2>3, QuietSteps, OtherAnswers DEF RunInv
<1>3. CASE ReconcileStreamingRun
  <2>1. ledger' = ledger /\ held' = held
    BY <1>3 DEF ReconcileStreamingRun
  <2>2. answer'.tool = "stream"
    <3>1. ASSUME NEW exp, NEW expectations,
                 AnswerIngested(Ingest(records), exp, expectations)
          PROVE  answer'.tool = "stream"
      BY <3>1 DEF AnswerIngested, AnswerIntegrated, AnswerStream, Refuse
    <3>2. ASSUME NEW codes, Refuse("stream", codes)
          PROVE  answer'.tool = "stream"
      BY <3>2 DEF Refuse
    <3> QED BY <1>3, <3>1, <3>2 DEF ReconcileStreamingRun
  <2>3. ~Answers("verification")'
    BY <2>2 DEF Answers
  <2> QED BY <1>0, <2>1, <2>3, QuietSteps, OtherAnswers DEF RunInv
<1>4. CASE ReconcileVerificationLineage
  <2>1. ledger' = ledger /\ held' = held
    BY <1>4 DEF ReconcileVerificationLineage
  <2> QED BY <1>0, <1>4, <2>1, QuietSteps, LineageIsCurrent DEF RunInv
<1>5. CASE ReconcileHeld
  <2>1. ledger' = ledger /\ held' = held
    BY <1>5 DEF ReconcileHeld
  <2> QED BY <1>0, <1>5, <2>1, QuietSteps, HeldIsCurrent DEF RunInv
<1>6. CASE UNCHANGED vars
  <2>1. ledger' = ledger /\ held' = held /\ answer' = answer
    BY <1>6 DEF vars
  <2>2. PolicySatisfactionIsCurrent'
    <3> PICK p, x : p = answer.policy /\ x = answer.producer
      OBVIOUS
    <3>1. ASSUME Answers("verification"), answer.result.satisfied
          PROVE  \E i \in DOMAIN ledger' : SatisfiedBy(p, x, i)'
      <4>1. PICK i \in DOMAIN ledger : SatisfiedBy(p, x, i)
        BY <1>0, <3>1 DEF PolicySatisfactionIsCurrent
      <4>2. SatisfiedBy(p, x, i)'
        BY <2>1, <4>1 DEF SatisfiedBy, ReviewsSince, Accepting, rev
      <4> QED BY <2>1, <4>2
    <3> QED BY <2>1, <3>1 DEF PolicySatisfactionIsCurrent, Answers
  <2> QED BY <1>0, <2>1, <2>2, QuietSteps DEF RunInv
<1> QED BY <1>1, <1>2, <1>3, <1>4, <1>5, <1>6, GrowthKeepsInv, HoldingKeepsInv DEF Next

\* A policy that is reported satisfied is satisfied by the ledger as it stands,
\* for any gates, grants and policies and however old the proofs: one run attached
\* the claim and anchored the presented trace, the claim's last review is an
\* accept, and enough different reviewers accepted it
\* (reconcile_verification_policy with current_lineage_findings).
THEOREM PolicySatisfactionIsCurrentHolds == Spec => []PolicySatisfactionIsCurrent
<1>1. RunInv => PolicySatisfactionIsCurrent
  BY DEF RunInv
<1>2. RunInv /\ [Next]_vars => RunInv'
  BY RunNext
<1> QED BY <1>1, <1>2, RunInit, PTL DEF Spec

-----------------------------------------------------------------------------
(* Stage releases *)

\* What the runtime handed over
Records == UNION {Range(b) : b \in Batches}
InputInv == events \in Seq(StreamEvents) /\ records \in Seq(Records)

\* A set of positions that is not empty has a first one.
LEMMA FirstPosition ==
  ASSUME NEW n \in Nat, NEW S, S \subseteq 1 .. n, S # {}
  PROVE  /\ Min(S) \in S
         /\ \A i \in S : Min(S) <= i
<1>1. S \subseteq Nat
  OBVIOUS
<1>2. PICK m \in S : \A k \in S : ~(<<k, m>> \in OpToRel(<, Nat))
  BY <1>1, NatLessThanWellFounded, WFMin
<1>3. \A k \in S : m =< k
  <2> TAKE k \in S
  <2>1. k \in Nat /\ m \in Nat
    BY <1>1
  <2>2. ~(k < m)
    BY <1>2, <2>1 DEF OpToRel
  <2> QED BY <2>1, <2>2
<1>4. \E x \in S : \A y \in S : x =< y
  BY <1>3
<1> QED BY <1>4 DEF Min

\* The reports that the client sends are a vector.
LEMMA ReportsAreAVector ==
  ASSUME InputInv
  PROVE  \E n \in Nat : DOMAIN TerminalReportsSent = 1 .. n
<1> DEFINE sent == {i \in DOMAIN records : records[i].kind = "report"}
<1>1. Len(records) \in Nat /\ DOMAIN records = 1 .. Len(records)
  BY DEF InputInv
<1>2. IsFiniteSet(1 .. Len(records)) /\ sent \subseteq 1 .. Len(records)
  BY <1>1, FS_Interval
<1>3. Cardinality(sent) \in Nat
  <2> HIDE DEF sent
  <2> QED BY <1>2, FS_Subset, FS_CardinalityType
<1>4. DOMAIN TerminalReportsSent = 1 .. Cardinality(sent)
  BY DEF TerminalReportsSent
<1> QED BY <1>3, <1>4

\* One of the reports retries the attempt, and one of them says that it failed.
FailedAndRetried(rs, own, k) ==
    \E m, h \in own : /\ rs[m].retry = rs[k].attempt
                      /\ rs[h].attempt = rs[k].attempt
                      /\ rs[h].status # "succeeded"

\* An attempt that a valid retry names failed.
LEMMA RetriedAttempts ==
  ASSUME NEW n \in Nat, NEW rs, DOMAIN rs = 1 .. n, NEW own, own \subseteq 1 .. n,
         NEW k \in own \ NodeLineage(rs, own).ends
  PROVE  FailedAndRetried(rs, own, k)
<1> DEFINE roots == {i \in own : rs[i].retry = None}
           retries == {i \in own \ roots : ValidRetry(rs, own, i)}
           parent == [a \in {rs[i].attempt : i \in retries} |->
                         rs[Max({i \in retries : rs[i].attempt = a})].retry]
<1>1. NodeLineage(rs, own).ends = {i \in own : rs[i].attempt \notin Range(parent)}
  BY DEF NodeLineage
<1>2. k \in own /\ rs[k].attempt \in Range(parent)
  BY <1>1
<1>3. PICK a \in {rs[i].attempt : i \in retries} :
         rs[k].attempt = rs[Max({i \in retries : rs[i].attempt = a})].retry
  BY <1>2 DEF Range
<1> DEFINE S == {i \in retries : rs[i].attempt = a}
<1> PICK m : m = Max(S)
  OBVIOUS
<1>4. m \in retries /\ rs[k].attempt = rs[m].retry
  <2>1. S # {} /\ S \subseteq 1 .. n
    BY <1>3
  <2>2. Max(S) \in S
    <3> HIDE DEF S
    <3> QED BY <2>1, LastPosition
  <2> QED BY <1>3, <2>2
<1>5. ValidRetry(rs, own, m) /\ m \in own
  BY <1>4
<1> HIDE DEF S, roots, retries, parent
<1> PICK h : h = Min(Indices(rs, rs[m].retry))
  OBVIOUS
<1>6. h \in own /\ rs[h].status # "succeeded" /\ Indices(rs, rs[m].retry) # {}
  BY <1>5 DEF ValidRetry
<1> PICK I : I = Indices(rs, rs[m].retry)
  OBVIOUS
<1>7. I \subseteq 1 .. n /\ I # {} /\ h = Min(I)
  BY <1>6 DEF Indices
<1>8. h \in Indices(rs, rs[m].retry)
  BY <1>7, FirstPosition
<1>9. rs[h].attempt = rs[m].retry
  BY <1>8 DEF Indices
<1> QED BY <1>4, <1>5, <1>6, <1>9 DEF FailedAndRetried

\* The terminal attempt of a node is its only end, and a success.
LEMMA TerminalIsTheOnlyEnd ==
  ASSUME NEW n \in Nat, NEW rs, DOMAIN rs = 1 .. n, NEW exp, NEW observed,
         NEW node \in DOMAIN ReconcileReports(exp, rs, observed).terminal
  PROVE  LastAttemptSucceeded(exp, rs, node, ReconcileReports(exp, rs, observed).terminal[node])
<1> DEFINE own == {i \in DOMAIN rs : Joins(exp, rs[i]) /\ rs[i].node = node}
           lineage == Lineages(exp, rs)
           ends == SingleEnds(rs, lineage)
           terminal == TerminalAttempts(exp, ends)
           E == NodeLineage(rs, own).ends
<1>1. ReconcileReports(exp, rs, observed).terminal = [x \in DOMAIN terminal |-> terminal[x].attempt]
  BY DEF ReconcileReports, ReconcileLineages, ReconcileEnds, Completeness
<1>2. node \in DOMAIN terminal
      /\ ReconcileReports(exp, rs, observed).terminal[node] = terminal[node].attempt
  <2> HIDE DEF terminal
  <2> QED BY <1>1
<1>3. /\ node \in DOMAIN ends /\ terminal[node] = ends[node]
      /\ IsSuccess(ExpectedNode(exp, node), ends[node])
  <2> HIDE DEF ends
  <2> QED BY <1>2 DEF TerminalAttempts
<1>4. /\ node \in DOMAIN lineage /\ Cardinality(lineage[node].ends) = 1
      /\ ends[node] = rs[Max(lineage[node].ends)]
  <2> HIDE DEF lineage
  <2> QED BY <1>3 DEF SingleEnds
<1>5. lineage[node] = NodeLineage(rs, own)
  <2>1. {i \in {i \in DOMAIN rs : Joins(exp, rs[i])} : rs[i].node = node} = own
    OBVIOUS
  <2>2. lineage[node] = NodeLineage(rs, {i \in {i \in DOMAIN rs : Joins(exp, rs[i])} :
                                             rs[i].node = node})
    BY <1>4 DEF Lineages
  <2> QED BY <2>1, <2>2
<1>6. own \subseteq 1 .. n /\ E \subseteq own
  BY DEF NodeLineage
<1> HIDE DEF own, lineage, ends, terminal, E
<1>7. PICK i : E = {i}
  <2>1. IsFiniteSet(1 .. n)
    BY FS_Interval
  <2>2. E \subseteq 1 .. n
    BY <1>6
  <2>3. IsFiniteSet(E)
    BY <2>1, <2>2, FS_Subset
  <2>4. Cardinality(E) = 1
    BY <1>4, <1>5 DEF E
  <2> QED BY <2>3, <2>4, FS_Singleton
<1>8. i \in own /\ ends[node] = rs[i]
  <2>1. Max({i}) \in {i}
    BY <1>6, <1>7, LastPosition
  <2>2. ends[node] = rs[Max(E)]
    BY <1>4, <1>5 DEF E
  <2> QED BY <1>6, <1>7, <2>1, <2>2
<1>9. rs[i].status = "succeeded"
  BY <1>3, <1>8 DEF IsSuccess
<1>10. \A k \in own \ {i} : \E m, h \in own :
          /\ rs[m].retry = rs[k].attempt
          /\ rs[h].attempt = rs[k].attempt
          /\ rs[h].status # "succeeded"
  <2> TAKE k \in own \ {i}
  <2> PICK R : R = own
    OBVIOUS
  <2>1. R \subseteq 1 .. n /\ k \in R \ NodeLineage(rs, R).ends
    BY <1>6, <1>7 DEF E
  <2>2. FailedAndRetried(rs, R, k)
    BY <2>1, RetriedAttempts
  <2> QED BY <2>2 DEF FailedAndRetried
<1> QED BY <1>2, <1>3, <1>8, <1>9, <1>10 DEF own, LastAttemptSucceeded

\* When nothing is wrong with the chunks, those of one stream are numbered up to
\* the final one.
LEMMA ChunksAreNumbered ==
  ASSUME NEW logical, IsFiniteSet(logical), ChunkFindings(logical) = {},
         NEW e \in Chunks(logical), e.final
  PROVE  LET chunks == {f \in Chunks(logical) : SameStream(e, f)}
         IN  \E f \in [0 .. e.index -> chunks] :
                /\ Range(f) = chunks
                /\ \A k \in 0 .. e.index : f[k].index = k /\ (f[k].final <=> k = e.index)
<1> DEFINE C == {f \in Chunks(logical) : SameStream(e, f)}
           N == {f.index : f \in C}
           F == {f \in C : f.final}
<1>1. /\ Cardinality(N) = Cardinality(C) /\ N = 0 .. Cardinality(N) - 1
      /\ \A f \in F : f.index = Max(N)
  <2> DEFINE stream(x) == {f \in Chunks(logical) : SameStream(x, f)}
             numbers(x) == {f.index : f \in stream(x)}
             finals(x) == {f \in stream(x) : f.final}
             c == [chunk_index_collision |->
                      \E x \in Chunks(logical) : Cardinality(numbers(x)) # Cardinality(stream(x)),
                   non_contiguous_chunk_sequence |->
                      \E x \in Chunks(logical) : numbers(x) # 0 .. Cardinality(numbers(x)) - 1,
                   invalid_final_chunk_position |->
                      \E x \in Chunks(logical) :
                         \/ Cardinality(finals(x)) > 1
                         \/ \E f \in finals(x) : f.index # Max(numbers(x))]
  <2>1. \A d \in DOMAIN c : ~c[d]
    BY DEF ChunkFindings, Codes
  <2>2. DOMAIN c = {"chunk_index_collision", "non_contiguous_chunk_sequence",
                    "invalid_final_chunk_position"}
    OBVIOUS
  <2>3. /\ ~c["chunk_index_collision"] /\ ~c["non_contiguous_chunk_sequence"]
        /\ ~c["invalid_final_chunk_position"]
    <3> HIDE DEF c
    <3> QED BY <2>1, <2>2
  <2>4. /\ Cardinality(numbers(e)) = Cardinality(stream(e))
        /\ numbers(e) = 0 .. Cardinality(numbers(e)) - 1
        /\ \A f \in finals(e) : f.index = Max(numbers(e))
    <3> HIDE DEF stream, numbers, finals
    <3> QED BY <2>3
  <2> QED BY <2>4
<1>2. IsFiniteSet(C)
  <2>1. C \subseteq logical
    BY DEF Chunks
  <2> QED BY <2>1, FS_Subset
<1>3. e \in C /\ e \in F /\ e.index \in N
  BY DEF SameStream, SameAttempt
<1> DEFINE g == [f \in C |-> f.index]
<1>4. g \in Surjection(C, N)
  BY DEF Surjection
<1>5. \A x, y \in C : x.index = y.index => x = y
  <2>1. g \in Injection(C, N)
    <3> HIDE DEF C, N, g
    <3> QED BY <1>1, <1>2, <1>4, FS_SurjSameCardinalityImpliesInj
  <2>2. \A x, y \in C : g[x] = g[y] => x = y
    <3> HIDE DEF C, N
    <3> QED BY <2>1 DEF Injection, IsInjective
  <2> HIDE DEF C, N
  <2> QED BY <2>2
<1>6. N = 0 .. e.index /\ e.index \in Nat /\ \A f \in F : f.index = e.index
  <2> HIDE DEF C, N, F, g
  <2>1. Cardinality(N) \in Nat
    BY <1>1, <1>2, FS_CardinalityType
  <2> PICK c \in Nat : c = Cardinality(N)
    BY <2>1
  <2>2. N = 0 .. c - 1 /\ c - 1 \in N
    BY <1>1, <1>3
  <2>7. c - 1 \in Int /\ \A y \in N : y \in Int /\ c - 1 >= y
    <3>1. ASSUME NEW y \in N PROVE y \in Int /\ c - 1 >= y
      <4>1. y \in 0 .. c - 1
        BY <2>2
      <4> QED BY <4>1
    <3> QED BY <3>1
  <2>3. \E x \in N : \A y \in N : x >= y
    BY <2>2, <2>7
  <2>4. Max(N) \in N /\ \A y \in N : Max(N) >= y
    BY <2>3 DEF Max
  <2>5. Max(N) = c - 1
    <3> PICK x : x = Max(N)
      OBVIOUS
    <3>1. x \in Int /\ x >= c - 1 /\ c - 1 >= x
      BY <2>2, <2>4, <2>7
    <3> QED BY <2>7, <3>1
  <2>6. e.index = c - 1
    BY <1>1, <1>3, <2>5
  <2>8. e.index \in Nat
    BY <1>3, <2>2
  <2> QED BY <1>1, <2>2, <2>5, <2>6, <2>8
<1> DEFINE f == [k \in 0 .. e.index |-> CHOOSE x \in C : x.index = k]
<1>7. \A k \in 0 .. e.index : f[k] \in C /\ f[k].index = k
  <2> TAKE k \in 0 .. e.index
  <2>1. \E x \in C : x.index = k
    BY <1>6
  <2> HIDE DEF C, N, F
  <2> QED BY <2>1
<1>8. f \in [0 .. e.index -> C]
  <2> HIDE DEF C, N, F
  <2> QED BY <1>7
<1>9. Range(f) = C
  <2>1. \A x \in C : x.index \in 0 .. e.index
    BY <1>6
  <2> HIDE DEF C, N, F
  <2>2. ASSUME NEW x \in C PROVE x \in Range(f)
    <3>1. f[x.index] = x
      BY <1>5, <1>7, <2>1
    <3>2. DOMAIN f = 0 .. e.index
      BY <1>8
    <3> HIDE DEF f
    <3> QED BY <2>1, <3>1, <3>2 DEF Range
  <2>3. Range(f) \subseteq C
    <3> HIDE DEF f
    <3> QED BY <1>8 DEF Range
  <2> QED BY <2>2, <2>3
<1>10. ASSUME NEW k \in 0 .. e.index
       PROVE  f[k].final <=> k = e.index
  <2>1. ASSUME f[k].final PROVE k = e.index
    <3>1. f[k] \in F
      BY <1>7, <2>1
    <3> HIDE DEF C, N, F, f
    <3> QED BY <1>6, <1>7, <3>1
  <2>2. ASSUME k = e.index PROVE f[k].final
    <3>1. f[k] = e
      <4> HIDE DEF C, N, F, f
      <4> QED BY <1>3, <1>5, <1>7, <2>2
    <3> HIDE DEF C, N, F, f
    <3> QED BY <3>1
  <2> HIDE DEF C, N, F, f
  <2> QED BY <2>1, <2>2
<1> HIDE DEF f
<1> QED BY <1>7, <1>8, <1>9, <1>10

\* When nothing is wrong with the prefix, the logical events are all that arrived.
LEMMA EverythingIsLogical ==
  ASSUME NEW exp, NEW S, NEW es \in Seq(S), StreamPrefix(exp, es).findings = {}
  PROVE  StreamPrefix(exp, es).logical = ToSet(es) /\ IsFiniteSet(ToSet(es))
<1> DEFINE found == [i \in DOMAIN es |-> EventFindings(exp, es[i])]
           joining == {i \in DOMAIN es : found[i] = {}}
           first == {i \in joining : \A k \in joining : es[k].id = es[i].id => i <= k}
           logical == {es[i] : i \in first}
           redelivered == {i \in joining \ first : es[i] \in logical}
<1>1. /\ StreamPrefix(exp, es).logical = logical
      /\ UNION Range(found) = {}
      /\ redelivered = joining \ first
  <2>1. StreamPrefix(exp, es).logical = logical
    BY DEF StreamPrefix
  <2>2. StreamPrefix(exp, es).findings =
           (UNION Range(found))
           \cup IF redelivered = joining \ first THEN {} ELSE {"event_identity_collision"}
    BY DEF StreamPrefix
  <2> HIDE DEF found, joining, first, logical, redelivered
  <2> QED BY <2>1, <2>2
<1>2. \A i \in DOMAIN es : found[i] = {}
  <2>1. DOMAIN found = DOMAIN es
    OBVIOUS
  <2> HIDE DEF found
  <2> QED BY <1>1, <2>1 DEF Range
<1>4. \A i \in DOMAIN es : es[i] \in logical
  BY <1>1, <1>2
<1>5. logical = ToSet(es)
  BY <1>4 DEF ToSet
<1>6. IsFiniteSet(ToSet(es))
  <2>1. Len(es) \in Nat /\ DOMAIN es = 1 .. Len(es)
    OBVIOUS
  <2>2. IsFiniteSet(1 .. Len(es))
    BY <2>1, FS_Interval
  <2> DEFINE g == [i \in 1 .. Len(es) |-> es[i]]
  <2>3. g \in Surjection(1 .. Len(es), ToSet(es))
    BY <2>1 DEF Surjection, ToSet
  <2> HIDE DEF g
  <2> QED BY <2>2, <2>3, FS_Surjection
<1> QED BY <1>1, <1>5, <1>6

\* A reconciliation that is complete took exactly what was granted.
LEMMA CompleteAllocations ==
  ASSUME NEW d, NEW r, NEW as, ReconcileAllocations(d, r, as).complete
  PROVE  /\ DeclarationGrants(d) = r.grants
         /\ \A a \in as : a.reservation = r.id /\ a.attempt = r.attempt /\ a.grant \in r.grants
         /\ \A a, b \in as : a.grant = b.grant => a = b
         /\ r.grants \subseteq {a.grant : a \in as}
<1> DEFINE own == {a \in as : a.reservation = r.id /\ a.attempt = r.attempt}
           c == [invalid_allocation_trust_boundary |-> \E a \in as : ~a.untrusted,
                 allocation_join_mismatch |-> own # as,
                 unexpected_allocation |-> \E a \in own : a.grant \notin r.grants,
                 duplicate_allocation |-> \E a, b \in own : a # b /\ a.grant = b.grant,
                 missing_allocation |-> ~(r.grants \subseteq {a.grant : a \in own})]
           w == [declaration_join_mismatch |-> d.id # r.decl,
                 grant_declaration_mismatch |->
                    DeclarationGrants(d) # r.grants \/ Cardinality(r.grants) # Cardinality(d.claims),
                 noncanonical_resource_id |-> \E g \in r.grants : g.resource = Blank,
                 invalid_rate_limit_units |->
                    \E g \in r.grants : (g.group # None) # (g.units > 0)]
<1>1. ReservationFindings(d, r) = {} /\ Codes(c) = {}
  <2>1. ReservationFindings(d, r) \cup Codes(c) = {}
    BY DEF ReconcileAllocations
  <2> HIDE DEF c
  <2> QED BY <2>1
<1>2. ~w["grant_declaration_mismatch"]
  <2>1. Codes(w) = {}
    BY <1>1 DEF ReservationFindings
  <2>2. "grant_declaration_mismatch" \in DOMAIN w
    OBVIOUS
  <2> HIDE DEF w
  <2> QED BY <2>1, <2>2 DEF Codes
<1>3. DeclarationGrants(d) = r.grants
  BY <1>2
<1>4. /\ ~c["allocation_join_mismatch"] /\ ~c["unexpected_allocation"]
      /\ ~c["duplicate_allocation"] /\ ~c["missing_allocation"]
  <2>1. DOMAIN c = {"invalid_allocation_trust_boundary", "allocation_join_mismatch",
                    "unexpected_allocation", "duplicate_allocation", "missing_allocation"}
    OBVIOUS
  <2> HIDE DEF c
  <2> QED BY <1>1, <2>1 DEF Codes
<1>5. own = as
  BY <1>4
<1>6. /\ \A a \in own : a.grant \in r.grants
      /\ \A a, b \in own : a.grant = b.grant => a = b
      /\ r.grants \subseteq {a.grant : a \in own}
  BY <1>4
<1> QED BY <1>3, <1>5, <1>6

\* A declaration without findings has the claims of its node.
LEMMA DeclaredClaims ==
  ASSUME NEW t, NEW d, DeclarationFindings(t, d) = {}
  PROVE  NodeOf(t, d.node).claims = d.claims
<1> DEFINE c == [declaration_graph_join_mismatch |-> d.graph # [id |-> t.id, hash |-> t],
                 unknown_declaration_node |-> d.node \notin Ids(t.nodes),
                 declaration_topology_claim_mismatch |->
                    \E n \in t.nodes : n.id = d.node /\ n.claims # d.claims]
<1>1. Codes(c) = {}
  BY DEF DeclarationFindings
<1>2. ~c["unknown_declaration_node"] /\ ~c["declaration_topology_claim_mismatch"]
  <2>1. /\ "unknown_declaration_node" \in DOMAIN c
        /\ "declaration_topology_claim_mismatch" \in DOMAIN c
    OBVIOUS
  <2> HIDE DEF c
  <2> QED BY <1>1, <2>1 DEF Codes
<1>3. \E n \in t.nodes : n.id = d.node
  BY <1>2 DEF Ids
<1>4. NodeOf(t, d.node) \in t.nodes /\ NodeOf(t, d.node).id = d.node
  BY <1>3 DEF NodeOf
<1> QED BY <1>2, <1>4

\* A permit is only derived for an expectation whose grants were taken.
LEMMA PermitIsEarned ==
  ASSUME NEW in, NEW X, NEW acceptance,
         PermitFindings(Topology, X, Integrate(Topology, in, X), acceptance) = {},
         NEW x \in X
  PROVE  TookWhatWasGranted(x, in.allocations)
<1> DEFINE integration == Integrate(Topology, in, X)
           R == ResourceReconciliation(x, in.allocations)
           taken == {a \in in.allocations : Consumed(x, a)}
<1>1. integration.reconciliations = {ResourceReconciliation(y, in.allocations) : y \in X}
  BY DEF Integrate, IntegrationReport
<1> HIDE DEF integration
<1>2. R.decl = x.decl.id /\ R.reservation = x.res.id /\ R.attempt = x.res.attempt
  BY DEF ResourceReconciliation, ReconcileAllocations
<1>3. R \in ReconciliationsOf(integration, x)
  <2> HIDE DEF R
  <2>1. R \in integration.reconciliations
    BY <1>1 DEF R
  <2> QED BY <1>2, <2>1 DEF ReconciliationsOf
<1>4. R.complete /\ DeclarationFindings(Topology, x.decl) = {}
  <2> DEFINE own(y) == ReconciliationsOf(integration, y)
             c == [resource_permit_graph_mismatch |-> integration.topology # Topology,
               resource_permit_acceptance_mismatch |-> acceptance.topology # Topology,
               resource_integration_has_findings |->
                  \E k \in integration.findings : IsResourceCode(k),
               resource_permit_declaration_mismatch |->
                  \E y \in X : DeclarationFindings(Topology, y.decl) # {},
               duplicate_resource_permit_target |->
                  \E y, z \in X : y # z /\ y.decl.node = z.decl.node,
               resource_permit_reconciliation_join_mismatch |->
                  \E y \in X : Cardinality(own(y)) # 1,
               resource_permit_missing_integration_provenance |->
                  \E y \in X : \E rc \in own(y) :
                     [node |-> y.decl.node, of |-> rc] \notin integration.bindings,
               resource_permit_reconciliation_incomplete |->
                  \E y \in X : \E rc \in own(y) : ~rc.complete,
               unmatched_resource_reconciliation |->
                  integration.reconciliations # UNION {own(y) : y \in X}]
  <2>1. Codes(c) = {}
    BY DEF PermitFindings, integration
  <2>2. /\ "resource_permit_declaration_mismatch" \in DOMAIN c
        /\ "resource_permit_reconciliation_incomplete" \in DOMAIN c
    OBVIOUS
  <2>3. /\ ~c["resource_permit_declaration_mismatch"]
        /\ ~c["resource_permit_reconciliation_incomplete"]
    <3> HIDE DEF c
    <3> QED BY <2>1, <2>2 DEF Codes
  <2> HIDE DEF R
  <2>4. /\ \A y \in X : DeclarationFindings(Topology, y.decl) = {}
        /\ \A y \in X : \A rc \in ReconciliationsOf(integration, y) : rc.complete
    BY <2>3
  <2> QED BY <1>3, <2>4
<1>5. /\ DeclarationGrants(x.decl) = x.res.grants
      /\ \A a \in taken : /\ a.reservation = x.res.id /\ a.attempt = x.res.attempt
                          /\ a.grant \in x.res.grants
      /\ \A a, b \in taken : a.grant = b.grant => a = b
      /\ x.res.grants \subseteq {a.grant : a \in taken}
  <2>1. ReconcileAllocations(x.decl, x.res, taken).complete
    BY <1>4 DEF ResourceReconciliation
  <2> HIDE DEF taken
  <2> QED BY <2>1, CompleteAllocations
<1>6. x.res.grants = {GrantOf(k) : k \in NodeOf(Topology, x.decl.node).claims}
  BY <1>4, <1>5, DeclaredClaims DEF DeclarationGrants
<1> HIDE DEF taken
<1>7. \E f \in [taken -> x.res.grants] :
         /\ IsInjective(f) /\ Range(f) = x.res.grants
         /\ \A a \in taken : f[a] = a.grant /\ a.attempt = x.res.attempt
                             /\ a.reservation = x.res.id
  <2> DEFINE f == [a \in taken |-> a.grant]
  <2>1. f \in [taken -> x.res.grants]
    BY <1>5
  <2>2. \A a \in taken : f[a] = a.grant
    OBVIOUS
  <2> HIDE DEF f
  <2>3. IsInjective(f)
    BY <1>5, <2>1, <2>2 DEF IsInjective
  <2>4. Range(f) = x.res.grants
    <3>1. Range(f) \subseteq x.res.grants
      BY <2>1 DEF Range
    <3>2. ASSUME NEW g \in x.res.grants PROVE g \in Range(f)
      <4>1. PICK a \in taken : a.grant = g
        BY <1>5
      <4> QED BY <2>1, <2>2, <4>1 DEF Range
    <3> QED BY <3>1, <3>2
  <2> QED BY <1>5, <2>1, <2>2, <2>3, <2>4
<1> QED BY <1>6, <1>7 DEF TookWhatWasGranted, taken

\* A cell behind an evidence edge is only ready when an acceptance stands.
LEMMA ReadyIsAccepted ==
  ASSUME LedgerInv, ExpectationFindings(Topology) = {},
         Acceptance(Case, Topology) # None,
         NEW d \in Topology.edges, d.kind = "evidence",
         NodeOf(Topology, d.to).cell \in Acceptance(Case, Topology).ready
  PROVE  AcceptanceStands
<1>0. DOMAIN ledger = 1 .. Len(ledger) /\ Len(ledger) \in Nat /\ rev = Len(ledger)
  BY DEF LedgerInv, rev
<1>1. ValidateEdge(Topology, d) = {}
  <2>1. ValidateTopology(Topology) = {}
    BY DEF ExpectationFindings
  <2>2. UNION {ValidateEdge(Topology, e) : e \in Topology.edges} = {}
    BY <2>1 DEF ValidateTopology
  <2> QED BY <2>2
<1>2. d.from \in Ids(Topology.nodes) /\ d.to \in Ids(Topology.nodes)
  <2> DEFINE t == Topology
             ends == {n \in t.nodes : n.id \in {d.from, d.to}}
             bound == ~({d.out, d.in, d.schema} \subseteq {None})
             exclusion == d.kind = "resource_exclusion" /\ ~bound
             c == [required |-> Blank \in {d.id, d.from, d.to} \cup d.scope,
                   unknown_edge_endpoint |-> ~({d.from, d.to} \subseteq Ids(t.nodes)),
                   self_edge |-> d.from = d.to,
                   binding_on_non_data_edge |-> d.kind # "data" /\ bound,
                   missing_resource_scope |-> exclusion /\ d.scope = {},
                   unknown_resource_scope |->
                      /\ exclusion
                      /\ {d.from, d.to} \subseteq Ids(t.nodes)
                      /\ \E r \in d.scope, n \in ends : ~ClaimsResource(n, r)]
  <2>1. Codes(c) \cup (IF d.kind = "data" THEN ValidateDataEdge(t, d) ELSE {}) = {}
    BY <1>1 DEF ValidateEdge
  <2>2. "unknown_edge_endpoint" \in DOMAIN c
    OBVIOUS
  <2>3. ~c["unknown_edge_endpoint"]
    <3> HIDE DEF c
    <3> QED BY <2>1, <2>2 DEF Codes
  <2> QED BY <2>3
<1>3. d \in InEdges(Topology, d.to)
  BY <1>2 DEF InEdges, Joined
<1>4. NodeOf(Topology, d.to) \in Topology.nodes /\ NodeOf(Topology, d.to).id = d.to
  BY <1>2 DEF Ids, NodeOf
<1>5. NodeOf(Topology, d.to).cell \in Case.ready
  BY DEF Acceptance
<1>6. PICK k \in Claims : LatestStatus(ledger, k) = "accepted"
  <2> PICK n \in Topology.nodes : n = NodeOf(Topology, d.to)
    BY <1>4
  <2>1. \/ \A m \in Topology.nodes : m.cell = n.cell =>
              \A e \in InEdges(Topology, m.id) : e.kind # "evidence"
        \/ \E k \in Claims : LatestStatus(ledger, k) = "accepted"
    BY <1>5 DEF Case
  <2> QED BY <1>3, <1>4, <2>1
<1> DEFINE S == ReviewsOf(ledger, k)
<1>7. S # {} /\ LatestReview(ledger, k) = Max(S) /\ ledger[Max(S)].action = "accept"
  BY <1>6, NoneIsNoStatus DEF LatestStatus, LatestReview
<1>8. S \subseteq 1 .. Len(ledger)
  BY <1>0 DEF ReviewsOf
<1> PICK i : i = Max(S)
  OBVIOUS
<1>9. i \in S /\ \A j \in S : j <= i
  <2> HIDE DEF S
  <2> QED BY <1>0, <1>7, <1>8, LastPosition
<1>10. i \in DOMAIN ledger /\ ledger[i].type = "review" /\ ledger[i].target = k
  BY <1>9 DEF ReviewsOf
<1>11. ASSUME NEW m \in i + 1 .. rev, ledger[m].type = "review", ledger[m].target = k
       PROVE  FALSE
  <2>1. m \in 1 .. Len(ledger)
    BY <1>0, <1>10
  <2>2. m \in S
    BY <1>0, <1>11, <2>1 DEF ReviewsOf
  <2> HIDE DEF S
  <2> QED BY <1>0, <1>9, <1>10, <2>1, <2>2
<1> QED BY <1>7, <1>10, <1>11 DEF AcceptanceStands

\* What reconcile_stream checks before it releases a stage
LEMMA ReleaseFacts ==
  ASSUME NEW q, NEW release \in ReconcileStream(q).releases
  PROVE  LET e == release.event
             stream == StreamPrefix(q.exp, q.events)
             completeness == ReconcileReports(q.exp, q.reports, q.observed)
         IN  /\ release.artifact = e.artifact /\ release.to = EdgeOf(q, e).to
             /\ ExpectationFindings(q.topology) = {} /\ q.exp = GraphExpectation(q.topology)
             /\ stream.findings = {} /\ ChunkFindings(stream.logical) = {}
             /\ e \in Chunks(stream.logical) /\ EdgeOf(q, e).from = e.node
             /\ PermitsFor(q, e) # {} /\ GateOpen(q, e) /\ HandoffProven(q, completeness, e)
<1> DEFINE stream == StreamPrefix(q.exp, q.events)
           completeness == ReconcileReports(q.exp, q.reports, q.observed)
           joined == /\ ExpectationFindings(q.topology) = {}
                     /\ q.exp = GraphExpectation(q.topology)
           prefix == PrefixFindings(q, joined, stream)
           sound == SoundChunks(q, stream)
           released == IF joined /\ prefix = {} THEN Released(q, completeness, sound) ELSE {}
<1>1. ReconcileStream(q) = StreamReport(q, joined, completeness, stream, sound, released, prefix)
  BY DEF ReconcileStream, ReconcileJoined, ReconcilePrefix
<1> HIDE DEF stream, completeness, joined, prefix, sound, released
<1>2. ReconcileStream(q).releases =
         {[edge |-> e.edge, to |-> EdgeOf(q, e).to, artifact |-> e.artifact,
           event |-> e, rev |-> q.rev,
           permit |-> CHOOSE p \in PermitsFor(q, e) : TRUE] : e \in released}
  BY <1>1 DEF StreamReport
<1>3. PICK e \in released :
         release = [edge |-> e.edge, to |-> EdgeOf(q, e).to, artifact |-> e.artifact,
                    event |-> e, rev |-> q.rev,
                    permit |-> CHOOSE p \in PermitsFor(q, e) : TRUE]
  BY <1>2
<1>4. release.event = e /\ release.artifact = e.artifact /\ release.to = EdgeOf(q, e).to
  BY <1>3
<1>5. joined /\ prefix = {} /\ e \in Released(q, completeness, sound)
  BY <1>3 DEF released
<1>6. stream.findings = {} /\ ChunkFindings(stream.logical) = {}
  BY <1>5 DEF prefix, PrefixFindings
<1>7. /\ e \in sound /\ PermitsFor(q, e) # {} /\ GateOpen(q, e)
      /\ HandoffProven(q, completeness, e)
  BY <1>5 DEF Released
<1>8. e \in Chunks(stream.logical) /\ ChunkContract(q, e) = {}
  BY <1>7 DEF sound, SoundChunks
<1>9. EdgeOf(q, e).from = e.node
  <2>1. e.edge \in Ids(q.topology.edges)
    BY <1>8 DEF ChunkContract
  <2>2. \A d \in q.topology.edges : d.id = e.edge => d.from = e.node
    BY <1>8, <2>1 DEF ChunkContract
  <2>3. \E d \in q.topology.edges : d.id = e.edge
    BY <2>1 DEF Ids
  <2>4. EdgeOf(q, e) \in q.topology.edges /\ EdgeOf(q, e).id = e.edge
    BY <2>3 DEF EdgeOf
  <2> QED BY <2>2, <2>4
<1> QED BY <1>4, <1>5, <1>6, <1>7, <1>8, <1>9 DEF joined, stream, completeness

\* Producer, stream and bytes of a release
LEMMA ReleaseOfTheStream ==
  ASSUME NEW q, NEW n \in Nat, DOMAIN q.reports = 1 .. n, NEW S, q.events \in Seq(S),
         NEW release \in ReconcileStream(q).releases
  PROVE  /\ LastAttemptSucceeded(q.exp, q.reports, release.event.node, release.event.attempt)
         /\ ArrivedWhole(q, release.event)
         /\ release.artifact \in q.observed
<1> PICK e : e = release.event
  OBVIOUS
<1> DEFINE stream == StreamPrefix(q.exp, q.events)
           completeness == ReconcileReports(q.exp, q.reports, q.observed)
<1>1. /\ release.artifact = e.artifact
      /\ stream.findings = {} /\ ChunkFindings(stream.logical) = {}
      /\ e \in Chunks(stream.logical) /\ EdgeOf(q, e).from = e.node
      /\ HandoffProven(q, completeness, e)
  BY ReleaseFacts
<1>2. /\ e.final /\ e.node \in DOMAIN completeness.terminal
      /\ completeness.terminal[e.node] = e.attempt /\ e.artifact \in q.observed
  <2> HIDE DEF completeness
  <2> QED BY <1>1 DEF HandoffProven
<1>3. LastAttemptSucceeded(q.exp, q.reports, e.node, e.attempt)
  <2>1. LastAttemptSucceeded(q.exp, q.reports, e.node, completeness.terminal[e.node])
    BY <1>2, TerminalIsTheOnlyEnd
  <2> HIDE DEF completeness
  <2> QED BY <1>2, <2>1
<1>4. ArrivedWhole(q, e)
  <2>1. stream.logical = ToSet(q.events) /\ IsFiniteSet(ToSet(q.events))
    BY <1>1, EverythingIsLogical
  <2> PICK logical : logical = ToSet(q.events)
    OBVIOUS
  <2>2. IsFiniteSet(logical) /\ ChunkFindings(logical) = {} /\ e \in Chunks(logical)
    <3> HIDE DEF stream
    <3> QED BY <1>1, <2>1
  <2>3. LET chunks == {f \in Chunks(logical) : SameStream(e, f)}
        IN  \E f \in [0 .. e.index -> chunks] :
               /\ Range(f) = chunks
               /\ \A k \in 0 .. e.index : f[k].index = k /\ (f[k].final <=> k = e.index)
    BY <1>2, <2>2, ChunksAreNumbered
  <2> QED BY <2>3 DEF ArrivedWhole
<1> QED BY <1>1, <1>2, <1>3, <1>4

\* A release in the answer to a client: also its resources and its gate
LEMMA ReleaseOfTheRun ==
  ASSUME LedgerInv, InputInv, NEW exp, NEW X,
         Acceptance(Case, Topology) # None,
         PermitFindings(Topology, X, Integrate(Topology, Ingest(records), X),
                        Acceptance(Case, Topology)) = {},
         NEW q,
         q = StreamQuestion(Ingest(records), exp,
                Permits(Topology, X, Integrate(Topology, Ingest(records), X),
                        Acceptance(Case, Topology)), Acceptance(Case, Topology)),
         NEW release \in ReconcileStream(q).releases
  PROVE  /\ LastAttemptSucceeded(q.exp, q.reports, release.event.node, release.event.attempt)
         /\ ArrivedWhole(q, release.event)
         /\ release.artifact \in q.observed
         /\ \E x \in X : /\ x.decl.node = release.to
                         /\ TookWhatWasGranted(x, Ingest(records).allocations)
         /\ (\E d \in Topology.edges : d.to = release.to /\ d.kind = "evidence")
            => AcceptanceStands
<1> DEFINE in == Ingest(records)
           acceptance == Acceptance(Case, Topology)
           integration == Integrate(Topology, in, X)
           permits == Permits(Topology, X, integration, acceptance)
<1>1. /\ q.topology = Topology /\ q.events = events /\ q.reports = TerminalReportsSent
      /\ q.permits = permits /\ q.acceptance = acceptance
  <2> HIDE DEF in, acceptance, permits
  <2>1. q = StreamQuestion(in, exp, permits, acceptance)
    BY DEF in, acceptance, permits
  <2> QED BY <2>1 DEF StreamQuestion
<1> HIDE DEF in, acceptance, integration, permits
<1>2. /\ LastAttemptSucceeded(q.exp, q.reports, release.event.node, release.event.attempt)
      /\ ArrivedWhole(q, release.event) /\ release.artifact \in q.observed
  <2>1. PICK n \in Nat : DOMAIN q.reports = 1 .. n
    BY <1>1, ReportsAreAVector
  <2>2. q.events \in Seq(StreamEvents)
    BY <1>1 DEF InputInv
  <2> QED BY <2>1, <2>2, ReleaseOfTheStream
<1> PICK e : e = release.event
  OBVIOUS
<1>3. /\ release.to = EdgeOf(q, e).to /\ ExpectationFindings(Topology) = {}
      /\ PermitsFor(q, e) # {} /\ GateOpen(q, e)
  BY <1>1, ReleaseFacts
<1>4. \E x \in X : x.decl.node = release.to /\ TookWhatWasGranted(x, Ingest(records).allocations)
  <2>1. PICK p \in PermitsFor(q, e) : TRUE
    BY <1>3
  <2>2. p \in permits /\ p.target = release.to
    BY <1>1, <1>3, <2>1 DEF PermitsFor
  <2>3. PICK x \in X : p.target = x.decl.node
    BY <2>2 DEF permits, Permits
  <2>4. TookWhatWasGranted(x, in.allocations)
    BY PermitIsEarned DEF in
  <2> QED BY <2>2, <2>3, <2>4 DEF in
<1>5. ASSUME NEW d \in Topology.edges, d.to = release.to, d.kind = "evidence"
      PROVE  AcceptanceStands
  <2>1. NodeOf(Topology, d.to).cell \in acceptance.ready
    BY <1>1, <1>3, <1>5 DEF GateOpen
  <2> QED BY <1>3, <1>5, <2>1, ReadyIsAccepted DEF acceptance
<1> QED BY <1>2, <1>4, <1>5

\* The inductive invariant behind StageReleasesAreEarned
StageInv == RunInv /\ InputInv /\ StageReleasesAreEarned

\* What the host releases in answer to a client is earned.
LEMMA StreamAnswersAreEarned ==
  ASSUME StageInv, ReconcileStreamingRun
  PROVE  StageReleasesAreEarned'
<1>0. LedgerInv /\ InputInv /\ ledger' = ledger /\ records' = records
  BY DEF StageInv, RunInv, ReconcileStreamingRun, inputs
<1>1. PICK exp \in GivenExpectations, X \in ResourceExpectations, believed \in {rev, 0} :
         IF believed # rev THEN Refuse("stream", {"stale_revision"})
         ELSE IF Acceptance(Case, Topology) = None
              THEN Refuse("stream", {"streaming_acceptance_refused"})
         ELSE AnswerIngested(Ingest(records), exp, X)
  BY DEF ReconcileStreamingRun
<1>2. ASSUME NEW codes, codes # {}, Refuse("stream", codes) PROVE StageReleasesAreEarned'
  BY <1>2 DEF Refuse, StageReleasesAreEarned, Answers
<1>3. CASE believed # rev \/ Acceptance(Case, Topology) = None
  BY <1>1, <1>2, <1>3
<1>4. CASE Acceptance(Case, Topology) # None /\ AnswerIngested(Ingest(records), exp, X)
  <2> DEFINE findings == PermitFindings(Topology, X, Integrate(Topology, Ingest(records), X),
                                        Acceptance(Case, Topology))
  <2> PICK q : q = StreamQuestion(Ingest(records), exp,
                      Permits(Topology, X, Integrate(Topology, Ingest(records), X),
                              Acceptance(Case, Topology)), Acceptance(Case, Topology))
    OBVIOUS
  <2>1. AnswerStream(q, X, findings)
    BY <1>4 DEF AnswerIngested, AnswerIntegrated
  <2>2. CASE findings # {}
    <3> HIDE DEF findings
    <3> QED BY <1>2, <2>1, <2>2 DEF AnswerStream
  <2>3. CASE findings = {}
    <3>1. answer'.q = q /\ answer'.expectations = X /\ answer'.result = ReconcileStream(q)
      <4> HIDE DEF findings
      <4> QED BY <2>1, <2>3 DEF AnswerStream
    <3>2. ASSUME NEW release \in ReconcileStream(q).releases PROVE ReleaseIsEarned(q, release)'
      <4>1. /\ LastAttemptSucceeded(q.exp, q.reports, release.event.node, release.event.attempt)
            /\ ArrivedWhole(q, release.event)
            /\ release.artifact \in q.observed
            /\ \E x \in X : /\ x.decl.node = release.to
                            /\ TookWhatWasGranted(x, Ingest(records).allocations)
            /\ (\E d \in Topology.edges : d.to = release.to /\ d.kind = "evidence")
               => AcceptanceStands
        BY <1>0, <1>4, <2>3, ReleaseOfTheRun
      <4>2. AcceptanceStands => AcceptanceStands'
        BY <1>0 DEF AcceptanceStands, rev
      <4>3. \E x \in answer'.expectations :
               x.decl.node = release.to /\ TookWhatWasGranted(x, Ingest(records').allocations)
        BY <1>0, <3>1, <4>1
      <4> QED BY <4>1, <4>2, <4>3 DEF ReleaseIsEarned
    <3> QED BY <3>1, <3>2 DEF StageReleasesAreEarned
  <2> QED BY <2>2, <2>3
<1> QED BY <1>1, <1>3, <1>4

\* Answers about other things
LEMMA OtherStages ==
  ASSUME ~Answers("stream")'
  PROVE  StageReleasesAreEarned'
BY DEF StageReleasesAreEarned

\* What is handed over is appended.
LEMMA InputsGrow ==
  ASSUME InputInv, HandRecords \/ HandEvent
  PROVE  InputInv'
<1>1. CASE HandRecords
  <2>1. PICK b \in Batches : records' = records \o b
    BY <1>1 DEF HandRecords
  <2>2. b \in Seq(Range(b)) /\ Range(b) \subseteq Records
    BY BatchesAreSequences DEF Records
  <2>3. b \in Seq(Records)
    BY <2>2
  <2>4. records' \in Seq(Records)
    BY <2>1, <2>3, ConcatProperties DEF InputInv
  <2> QED BY <1>1, <2>4 DEF HandRecords, InputInv
<1>2. CASE HandEvent
  <2>1. PICK e \in StreamEvents : events' = Append(events, e)
    BY <1>2 DEF HandEvent
  <2>2. events' \in Seq(StreamEvents)
    BY <2>1 DEF InputInv
  <2> QED BY <1>2, <2>2 DEF HandEvent, InputInv
<1> QED BY <1>1, <1>2

\* The first state holds the invariant.
LEMMA StageInit == Init => StageInv
<1> SUFFICES ASSUME Init PROVE StageInv
  OBVIOUS
<1>1. events = <<>> /\ records = <<>> /\ answer = None
  BY DEF Init
<1>2. InputInv
  BY <1>1 DEF InputInv
<1>3. StageReleasesAreEarned
  BY <1>1 DEF StageReleasesAreEarned, Answers
<1> QED BY <1>2, <1>3, RunInit DEF StageInv

\* Each tool answers for itself, and the other steps leave no answer.
LEMMA WhoAnswers ==
  ASSUME Next
  PROVE  \/ answer' = None
         \/ ReconcileRun /\ answer'.tool = "run"
         \/ ReconcileStreamingRun
         \/ UNCHANGED inputs /\ answer'.tool = "verification"
<1>1. CASE HandRecords \/ HandEvent \/ CliRun \/ CliReview \/ HoldProducer \/ HoldVerifier
  BY <1>1 DEF HandRecords, HandEvent, CliRun, CliReview, Grow, HoldProducer, HoldVerifier
<1>2. CASE ReconcileRun
  <2>1. ASSUME NEW b \in Bundles, NEW believed \in {rev, 0},
               LET findings == BundleFindings(Topology, believed, b)
               IN  IF findings # {} THEN Refuse("run", findings)
                   ELSE IF JournalFindings(b) # {} THEN Refuse("run", JournalFindings(b))
                   ELSE Answered(records \o AllocationRecords(b), Expectations(b))
        PROVE  answer'.tool = "run"
    BY <2>1 DEF Answered, Refuse
  <2>2. answer'.tool = "run"
    BY <1>2, <2>1 DEF ReconcileRun, Answered
  <2> QED BY <1>2, <2>2
<1>3. CASE ReconcileVerificationLineage \/ ReconcileHeld
  <2>1. UNCHANGED inputs
    BY <1>3 DEF ReconcileVerificationLineage, ReconcileHeld
  <2>2. ASSUME NEW codes, Refuse("verification", codes)
        PROVE  answer'.tool = "verification"
    BY <2>2 DEF Refuse
  <2>3. ASSUME NEW p, NEW producer, NEW verifiers, NEW anchors,
               AnswerPolicy(p, producer, verifiers, anchors)
        PROVE  answer'.tool = "verification"
    BY <2>3 DEF AnswerPolicy
  <2>4. CASE ReconcileHeld
    <3>1. PICK p \in Policies : AnswerPolicy(p, held.producer, held.verifiers, held.anchors)
      BY <2>4 DEF ReconcileHeld
    <3> QED BY <2>1, <2>3, <3>1
  <2>5. CASE ReconcileVerificationLineage
    <3>1. PICK p \in Policies, claim \in Claims, f \in Presentable, believed \in {rev, 0},
               reviews \in SUBSET UNION {ReviewsOf(ledger, c) : c \in Claims},
               wanted \in SUBSET ArtifactAnchors, trace \in BOOLEAN :
             IF believed # rev THEN Refuse("verification", {"stale_revision"})
             ELSE AnswerLineage(p, claim, f, reviews, wanted, trace,
                                LineageFindings(claim, f, reviews, wanted, trace))
      BY <2>5 DEF ReconcileVerificationLineage
    <3>2. ASSUME NEW findings, AnswerLineage(p, claim, f, reviews, wanted, trace, findings)
          PROVE  answer'.tool = "verification"
      BY <2>2, <2>3, <3>2 DEF AnswerLineage
    <3>3. answer'.tool = "verification"
      BY <2>2, <3>1, <3>2
    <3> QED BY <2>1, <3>3
  <2> QED BY <1>3, <2>4, <2>5
<1> QED BY <1>1, <1>2, <1>3 DEF Next

\* Only reconcile_streaming_run answers about a stream.
LEMMA OtherStepsAnswerOthers ==
  ASSUME Next, ~ReconcileStreamingRun
  PROVE  ~Answers("stream")' /\ (UNCHANGED inputs \/ HandRecords \/ HandEvent)
<1>1. ~Answers("stream")'
  BY WhoAnswers DEF Answers
<1>2. UNCHANGED inputs \/ HandRecords \/ HandEvent
  BY DEF Next, CliRun, CliReview, Grow, ReconcileRun, ReconcileVerificationLineage,
         HoldProducer, HoldVerifier, ReconcileHeld
<1> QED BY <1>1, <1>2

\* Every step, stuttering included, keeps it.
LEMMA StageNext ==
  ASSUME StageInv, [Next]_vars
  PROVE  StageInv'
<1>0. RunInv /\ InputInv /\ RunInv'
  BY RunNext DEF StageInv
<1>1. ASSUME UNCHANGED inputs PROVE InputInv'
  BY <1>0, <1>1 DEF InputInv, inputs
<1>2. CASE ReconcileStreamingRun
  <2>1. UNCHANGED inputs
    BY <1>2 DEF ReconcileStreamingRun
  <2> QED BY <1>0, <1>1, <1>2, <2>1, StreamAnswersAreEarned DEF StageInv
<1>3. CASE Next /\ ~ReconcileStreamingRun
  <2>1. ~Answers("stream")' /\ (UNCHANGED inputs \/ HandRecords \/ HandEvent)
    BY <1>3, OtherStepsAnswerOthers
  <2>2. InputInv'
    BY <1>0, <1>1, <2>1, InputsGrow
  <2> QED BY <1>0, <2>1, <2>2, OtherStages DEF StageInv
<1>4. CASE UNCHANGED vars
  <2>1. UNCHANGED inputs /\ answer' = answer /\ ledger' = ledger /\ records' = records
    BY <1>4 DEF vars, inputs
  <2>2. StageReleasesAreEarned'
    <3> PICK q, X : q = answer.q /\ X = answer.expectations
      OBVIOUS
    <3>1. ASSUME NEW release, ReleaseIsEarned(q, release) PROVE ReleaseIsEarned(q, release)'
      BY <2>1, <3>1 DEF ReleaseIsEarned, AcceptanceStands, rev
    <3> QED BY <2>1, <3>1 DEF StageInv, StageReleasesAreEarned, Answers
  <2> QED BY <1>0, <1>1, <2>1, <2>2 DEF StageInv
<1> QED BY <1>2, <1>3, <1>4 DEF Next

\* A stage is only released when it is earned, for any topology, records, events
\* and expectations: its producer's only open attempt succeeded, its chunks are
\* all there, its bytes too, the runtime took what was granted, and an acceptance
\* stands where evidence gates it (reconcile_stream).
THEOREM StageReleasesAreEarnedHolds == Spec => []StageReleasesAreEarned
<1>1. StageInv => StageReleasesAreEarned
  BY DEF StageInv
<1>2. StageInv /\ [Next]_vars => StageInv'
  BY StageNext
<1> QED BY <1>1, <1>2, StageInit, PTL DEF Spec

-----------------------------------------------------------------------------
(* Lineages: walking along the retries *)

\* A walk along the parents, step by step
IsWalk(at, N, parent, a) ==
    at = [k \in 0 .. N |-> IF k = 0 THEN a
                           ELSE IF at[k - 1] \in DOMAIN parent THEN parent[at[k - 1]] ELSE None]

\* There is a walk of any length.
LEMMA WalkExists ==
  ASSUME NEW N \in Nat, NEW parent, NEW a
  PROVE  \E at : IsWalk(at, N, parent, a)
<1> DEFINE Step(x) == IF x \in DOMAIN parent THEN parent[x] ELSE None
           P(m) == \E at : IsWalk(at, m, parent, a)
           T == {m \in Nat : ~P(m)}
<1>1. SUFFICES ASSUME T # {} PROVE FALSE
  OBVIOUS
<1>2. PICK m \in T : \A k \in T : ~(<<k, m>> \in OpToRel(<, Nat))
  <2>1. T \subseteq Nat
    OBVIOUS
  <2> HIDE DEF T
  <2> QED BY <1>1, <2>1, NatLessThanWellFounded, WFMin
<1>3. m \in Nat /\ ~P(m)
  OBVIOUS
<1>4. CASE m = 0
  <2> DEFINE f == [k \in 0 .. 0 |-> a]
  <2>1. f = [k \in 0 .. 0 |-> IF k = 0 THEN a ELSE Step(f[k - 1])]
    OBVIOUS
  <2>2. IsWalk(f, 0, parent, a)
    BY <2>1 DEF IsWalk
  <2> QED BY <1>3, <1>4, <2>2
<1>5. CASE m # 0
  <2>1. m - 1 \in Nat /\ m - 1 < m
    BY <1>3, <1>5
  <2>2. m - 1 \notin T
    BY <1>2, <1>3, <2>1 DEF OpToRel
  <2>3. P(m - 1)
    BY <2>1, <2>2
  <2>4. PICK f : f = [k \in 0 .. m - 1 |-> IF k = 0 THEN a ELSE Step(f[k - 1])]
    BY <2>3 DEF IsWalk
  <2> DEFINE g == [k \in 0 .. m |-> IF k = m THEN Step(f[m - 1]) ELSE f[k]]
  <2>5. \A k \in 0 .. m : g[k] = IF k = 0 THEN a ELSE Step(g[k - 1])
    <3> HIDE DEF Step
    <3> TAKE k \in 0 .. m
    <3>1. CASE k = m
      <4>1. m - 1 \in 0 .. m /\ m - 1 # m
        BY <2>1
      <4> QED BY <1>5, <3>1, <4>1
    <3>2. CASE k # m /\ k # 0
      <4>1. k \in 0 .. m - 1 /\ k - 1 \in 0 .. m /\ k - 1 # m
        BY <1>3, <3>2
      <4>2. f[k] = Step(f[k - 1])
        BY <2>4, <3>2, <4>1
      <4> QED BY <3>2, <4>1, <4>2
    <3>3. CASE k # m /\ k = 0
      <4>1. 0 \in 0 .. m - 1
        BY <2>1
      <4>2. f[0] = a
        BY <2>4, <4>1
      <4> QED BY <3>3, <4>2
    <3> QED BY <3>1, <3>2, <3>3
  <2>6. g = [k \in 0 .. m |-> IF k = 0 THEN a ELSE Step(g[k - 1])]
    BY <2>5
  <2> HIDE DEF g
  <2>7. IsWalk(g, m, parent, a)
    BY <2>6 DEF IsWalk
  <2> QED BY <1>3, <2>7
<1> QED BY <1>4, <1>5

\* Walk sees what one such walk sees.
LEMMA WalkSees ==
  ASSUME NEW parent, IsFiniteSet(DOMAIN parent), NEW a
  PROVE  \E at : /\ IsWalk(at, Cardinality(DOMAIN parent) + 1, parent, a)
                 /\ Walk(parent, a) = Range(at)
<1> DEFINE N == Cardinality(DOMAIN parent) + 1
           P(at) == at = [k \in 0 .. N |-> IF k = 0 THEN a
                             ELSE IF at[k - 1] \in DOMAIN parent THEN parent[at[k - 1]] ELSE None]
           at == CHOOSE f : IsWalk(f, N, parent, a)
<1>1. N \in Nat
  BY FS_CardinalityType
<1>2. Walk(parent, a) = Range(CHOOSE f : P(f))
  BY DEF Walk
<1>3. \A f : P(f) <=> IsWalk(f, N, parent, a)
  BY DEF IsWalk
<1>4. (CHOOSE f : P(f)) = at
  BY <1>3
<1>5. IsWalk(at, N, parent, a)
  <2> HIDE DEF N
  <2> QED BY <1>1, WalkExists
<1> QED BY <1>2, <1>4, <1>5

\* A walk inside a set of attempts that all have their parents in it stays there.
LEMMA WalkStays ==
  ASSUME NEW parent, IsFiniteSet(DOMAIN parent), NEW A, A \subseteq DOMAIN parent,
         \A x \in A : parent[x] \in A, NEW a \in A
  PROVE  Walk(parent, a) \subseteq A /\ a \in Walk(parent, a)
<1> DEFINE N == Cardinality(DOMAIN parent) + 1
<1>1. PICK at : IsWalk(at, N, parent, a) /\ Walk(parent, a) = Range(at)
  BY WalkSees
<1>2. N \in Nat
  BY FS_CardinalityType
<1> HIDE DEF N
<1>3. /\ DOMAIN at = 0 .. N /\ at[0] = a
      /\ \A k \in 0 .. N : k # 0 => at[k] = IF at[k - 1] \in DOMAIN parent
                                           THEN parent[at[k - 1]] ELSE None
  BY <1>1, <1>2 DEF IsWalk
<1> DEFINE T == {k \in 0 .. N : at[k] \notin A}
<1>4. T = {}
  <2> SUFFICES ASSUME T # {} PROVE FALSE
    OBVIOUS
  <2>1. PICK m \in T : \A k \in T : ~(<<k, m>> \in OpToRel(<, Nat))
    <3>1. T \subseteq Nat
      OBVIOUS
    <3> HIDE DEF T
    <3> QED BY <3>1, NatLessThanWellFounded, WFMin
  <2>2. m \in 0 .. N /\ at[m] \notin A
    OBVIOUS
  <2>3. m # 0
    BY <1>3, <2>2
  <2>4. m - 1 \in 0 .. N /\ m - 1 < m
    BY <1>2, <2>2, <2>3
  <2>5. at[m - 1] \in A
    <3>1. <<m - 1, m>> \in OpToRel(<, Nat)
      BY <1>2, <2>2, <2>4 DEF OpToRel
    <3>2. m - 1 \notin T
      BY <2>1, <3>1
    <3> QED BY <2>4, <3>2
  <2>6. at[m] = parent[at[m - 1]]
    BY <1>3, <2>2, <2>3, <2>5
  <2> QED BY <2>2, <2>5, <2>6
<1>5. \A k \in 0 .. N : at[k] \in A
  BY <1>4
<1>6. 0 \in 0 .. N
  BY <1>2
<1> QED BY <1>1, <1>3, <1>5, <1>6 DEF Range

\* A walk down a chain that is not longer than the map leaves it.
LEMMA WalkLeaves ==
  ASSUME NEW parent, IsFiniteSet(DOMAIN parent), NEW g, NEW x \in Nat \ {0},
         x =< Cardinality(DOMAIN parent) + 1, g[1] \notin DOMAIN parent,
         \A y \in 1 .. x : y # 1 => g[y] \in DOMAIN parent /\ parent[g[y]] = g[y - 1]
  PROVE  None \in Walk(parent, g[x])
<1> DEFINE N == Cardinality(DOMAIN parent) + 1
<1> PICK a : a = g[x]
  OBVIOUS
<1>1. PICK at : IsWalk(at, N, parent, a) /\ Walk(parent, a) = Range(at)
  BY WalkSees
<1>2. N \in Nat /\ x =< N
  BY FS_CardinalityType
<1> HIDE DEF N
<1>3. /\ DOMAIN at = 0 .. N /\ at[0] = a
      /\ \A k \in 0 .. N : k # 0 => at[k] = IF at[k - 1] \in DOMAIN parent
                                           THEN parent[at[k - 1]] ELSE None
  BY <1>1, <1>2 DEF IsWalk
<1> DEFINE T == {k \in 0 .. x - 1 : at[k] # g[x - k]}
<1>4. T = {}
  <2> SUFFICES ASSUME T # {} PROVE FALSE
    OBVIOUS
  <2>1. PICK m \in T : \A k \in T : ~(<<k, m>> \in OpToRel(<, Nat))
    <3>1. T \subseteq Nat
      OBVIOUS
    <3> HIDE DEF T
    <3> QED BY <3>1, NatLessThanWellFounded, WFMin
  <2>2. m \in 0 .. x - 1 /\ at[m] # g[x - m]
    OBVIOUS
  <2>3. m # 0
    <3>1. x - 0 = x
      OBVIOUS
    <3> QED BY <1>3, <2>2, <3>1
  <2>4. m - 1 \in 0 .. x - 1 /\ m - 1 < m /\ x - (m - 1) \in 1 .. x /\ x - (m - 1) # 1
        /\ x - (m - 1) - 1 = x - m /\ m \in 0 .. N
    BY <1>2, <2>2, <2>3
  <2>5. at[m - 1] = g[x - (m - 1)]
    <3>1. <<m - 1, m>> \in OpToRel(<, Nat)
      BY <1>2, <2>2, <2>4 DEF OpToRel
    <3>2. m - 1 \notin T
      BY <2>1, <3>1
    <3> QED BY <2>4, <3>2
  <2>6. at[m] = parent[g[x - (m - 1)]]
    BY <1>3, <2>3, <2>4, <2>5
  <2> QED BY <2>2, <2>4, <2>6
<1>5. at[x - 1] = g[1]
  <2>1. x - 1 \in 0 .. x - 1 /\ x - (x - 1) = 1
    OBVIOUS
  <2>2. x - 1 \notin T
    BY <1>4
  <2> QED BY <2>1, <2>2
<1>6. x \in 0 .. N /\ x # 0
  BY <1>2
<1>7. at[x] = None
  BY <1>3, <1>5, <1>6
<1> QED BY <1>1, <1>3, <1>6, <1>7 DEF Range

\* No two reports are of one attempt.
Distinct(rs) == \A i, j \in DOMAIN rs : rs[i].attempt = rs[j].attempt => i = j

\* The retries among a node's reports that name a failed attempt of the node,
\* and the map from each to the attempt it names
Retried(rs, own) == {i \in own \ {i \in own : rs[i].retry = None} : ValidRetry(rs, own, i)}
ParentMap(rs, own) == [a \in {rs[i].attempt : i \in Retried(rs, own)} |->
                          rs[Max({i \in Retried(rs, own) : rs[i].attempt = a})].retry]

\* Nothing competes for a place when there is at most one for it.
LEMMA NoSurplus ==
  ASSUME NEW n \in Nat, NEW S, S \subseteq 1 .. n
  PROVE  Surplus(S) = {} <=> \A i, j \in S : i = j
<1>1. CASE S = {}
  BY <1>1 DEF Surplus
<1>2. CASE S # {}
  <2>1. Min(S) \in S /\ Surplus(S) = S \ {Min(S)}
    BY <1>2, FirstPosition DEF Surplus
  <2>2. PICK m : m \in S /\ Surplus(S) = S \ {m}
    BY <2>1
  <2> QED BY <2>2
<1> QED BY <1>1, <1>2

\* An attempt is that of one report.
LEMMA IndexOfAttempt ==
  ASSUME NEW n \in Nat, NEW rs, DOMAIN rs = 1 .. n, Distinct(rs), NEW i \in 1 .. n
  PROVE  Indices(rs, rs[i].attempt) = {i} /\ Min(Indices(rs, rs[i].attempt)) = i
<1>1. Indices(rs, rs[i].attempt) = {i}
  BY DEF Indices, Distinct
<1>2. Min({i}) \in {i}
  BY FirstPosition
<1> QED BY <1>1, <1>2

\* A valid retry names one report of the node, which failed.
LEMMA ValidRetryNames ==
  ASSUME NEW n \in Nat, NEW rs, DOMAIN rs = 1 .. n, Distinct(rs), NEW own, own \subseteq 1 .. n,
         NEW i \in own
  PROVE  rs[i].retry # None /\ ValidRetry(rs, own, i) <=>
            \E j \in own : j # i /\ Retries(rs[i], rs[j]) /\ rs[j].status # "succeeded"
<1>1. ASSUME rs[i].retry # None, ValidRetry(rs, own, i)
      PROVE  \E j \in own : j # i /\ Retries(rs[i], rs[j]) /\ rs[j].status # "succeeded"
  <2> PICK j : j = Min(Indices(rs, rs[i].retry))
    OBVIOUS
  <2>1. /\ Indices(rs, rs[i].retry) # {} /\ rs[i].retry # rs[i].attempt
        /\ j \in own /\ rs[j].status # "succeeded"
    BY <1>1 DEF ValidRetry
  <2>2. Indices(rs, rs[i].retry) \subseteq 1 .. n
    BY DEF Indices
  <2>3. j \in Indices(rs, rs[i].retry)
    BY <2>1, <2>2, FirstPosition
  <2>4. rs[j].attempt = rs[i].retry
    BY <2>3 DEF Indices
  <2> QED BY <1>1, <2>1, <2>4 DEF Retries
<1>2. ASSUME NEW j \in own, j # i, Retries(rs[i], rs[j]), rs[j].status # "succeeded"
      PROVE  rs[i].retry # None /\ ValidRetry(rs, own, i)
  <2>1. rs[i].retry # None /\ rs[i].retry = rs[j].attempt
    BY <1>2 DEF Retries
  <2>2. j \in 1 .. n /\ i \in 1 .. n
    OBVIOUS
  <2>3. rs[i].attempt # rs[j].attempt
    BY <1>2, <2>2 DEF Distinct
  <2>4. Indices(rs, rs[i].retry) = {j} /\ Min(Indices(rs, rs[i].retry)) = j
    BY <2>1, <2>2, IndexOfAttempt
  <2> QED BY <1>2, <2>1, <2>3, <2>4 DEF ValidRetry
<1> QED BY <1>1, <1>2

\* The parent of an attempt is what its report names.
LEMMA ParentIsRetry ==
  ASSUME NEW n \in Nat, NEW rs, DOMAIN rs = 1 .. n, Distinct(rs), NEW own, own \subseteq 1 .. n
  PROVE  /\ \A i \in Retried(rs, own) : ParentMap(rs, own)[rs[i].attempt] = rs[i].retry
         /\ DOMAIN ParentMap(rs, own) = {rs[i].attempt : i \in Retried(rs, own)}
         /\ Range(ParentMap(rs, own)) = {rs[i].retry : i \in Retried(rs, own)}
         /\ IsFiniteSet(DOMAIN ParentMap(rs, own))
<1> DEFINE R == Retried(rs, own)
           parent == ParentMap(rs, own)
<1>1. R \subseteq 1 .. n
  BY DEF Retried
<1>2. DOMAIN parent = {rs[i].attempt : i \in R}
  BY DEF ParentMap
<1>3. \A a \in DOMAIN parent : parent[a] = rs[Max({i \in R : rs[i].attempt = a})].retry
  BY DEF ParentMap
<1> HIDE DEF R, parent
<1>4. ASSUME NEW i \in R PROVE parent[rs[i].attempt] = rs[i].retry
  <2>1. {j \in R : rs[j].attempt = rs[i].attempt} = {i}
    BY <1>1 DEF Distinct
  <2>2. Max({i}) \in {i}
    BY <1>1, LastPosition
  <2> QED BY <1>2, <1>3, <2>1, <2>2
<1>5. Range(parent) = {rs[i].retry : i \in R}
  BY <1>2, <1>4 DEF Range
<1>6. IsFiniteSet(DOMAIN parent)
  <2> DEFINE f == [i \in R |-> rs[i].attempt]
  <2>1. f \in Surjection(R, DOMAIN parent)
    BY <1>2 DEF Surjection
  <2>2. IsFiniteSet(1 .. n)
    BY FS_Interval
  <2>3. IsFiniteSet(R)
    BY <1>1, <2>2, FS_Subset
  <2> HIDE DEF f
  <2> QED BY <2>1, <2>3, FS_Surjection
<1> QED BY <1>2, <1>4, <1>5, <1>6 DEF R, parent

\* The first attempts, the retries that name nothing, and those that name what
\* another one names
Roots(rs, own) == {i \in own : rs[i].retry = None}
Strays(rs, own) == own \ (Roots(rs, own) \cup Retried(rs, own))
Branches(rs, own) == UNION {Surplus({i \in Retried(rs, own) : rs[i].retry = a}) :
                               a \in Range(ParentMap(rs, own))}
NothingOdd(rs, own) ==
    /\ Strays(rs, own) = {} /\ Surplus(Roots(rs, own)) = {} /\ Branches(rs, own) = {}
    /\ CycleAttempts(ParentMap(rs, own)) = {}

\* The lineage of a node is in order when no report of it is odd in one of
\* these ways.
LEMMA LineageParts ==
  ASSUME NEW rs, NEW own
  PROVE  /\ NodeLineage(rs, own).duplicates = {} <=> NothingOdd(rs, own)
         /\ NodeLineage(rs, own).findings = {} <=> NothingOdd(rs, own)
         /\ NodeLineage(rs, own).ends = {i \in own : rs[i].attempt \notin Range(ParentMap(rs, own))}
<1> DEFINE strays == Strays(rs, own)
           surplus == Surplus(Roots(rs, own))
           branches == Branches(rs, own)
           cycle == CycleAttempts(ParentMap(rs, own))
           f == [invalid_retry_lineage |-> strays # {},
                 duplicate_attempt_without_lineage |-> surplus # {},
                 branched_retry_lineage |-> branches # {},
                 retry_lineage_cycle |-> cycle # {}]
<1>1. NodeLineage(rs, own) =
         [duplicates |-> strays \cup surplus \cup branches \cup {Min(Indices(rs, a)) : a \in cycle},
          ends |-> {i \in own : rs[i].attempt \notin Range(ParentMap(rs, own))},
          findings |-> Codes(f)]
  BY DEF NodeLineage, Retried, ParentMap, Roots, Strays, Branches
<1> HIDE DEF strays, surplus, branches, cycle
<1>2. Codes(f) = {} <=> \A c \in DOMAIN f : ~f[c]
  BY DEF Codes
<1>3. /\ DOMAIN f = {"invalid_retry_lineage", "duplicate_attempt_without_lineage",
                     "branched_retry_lineage", "retry_lineage_cycle"}
      /\ f["invalid_retry_lineage"] = (strays # {})
      /\ f["duplicate_attempt_without_lineage"] = (surplus # {})
      /\ f["branched_retry_lineage"] = (branches # {})
      /\ f["retry_lineage_cycle"] = (cycle # {})
  OBVIOUS
<1> HIDE DEF f
<1>4. Codes(f) = {} <=> strays = {} /\ surplus = {} /\ branches = {} /\ cycle = {}
  BY <1>2, <1>3
<1>5. strays \cup surplus \cup branches \cup {Min(Indices(rs, a)) : a \in cycle} = {}
      <=> strays = {} /\ surplus = {} /\ branches = {} /\ cycle = {}
  OBVIOUS
<1>6. NothingOdd(rs, own) <=> strays = {} /\ surplus = {} /\ branches = {} /\ cycle = {}
  BY DEF NothingOdd, strays, surplus, branches, cycle
<1> QED BY <1>1, <1>4, <1>5, <1>6

-----------------------------------------------------------------------------
(* An orderly lineage is a chain of retries *)

\* Reports are orderly when each is a first attempt or names a failed one among
\* them, no two are alike in that, and they do not go round in a circle.
Orderly(rs, R) ==
    /\ \A i \in R : rs[i].retry = None
                    \/ \E j \in R : Retries(rs[i], rs[j]) /\ rs[j].status # "succeeded"
    /\ \A i, j \in R : rs[i].retry = rs[j].retry => i = j
    /\ \A C \in SUBSET R : C # {} => \E i \in C : \A j \in C : ~Retries(rs[i], rs[j])
\* Those that nothing retries
Unretried(rs, R) == {i \in R : \A m \in R : ~Retries(rs[m], rs[i])}
\* f puts them in the order in which they retry one another.
IsChain(rs, R, f, k) ==
    /\ f \in [1 .. k -> R] /\ k # 0
    /\ \A x, y \in 1 .. k : f[x] = f[y] => x = y
    /\ \A i \in R : \E x \in 1 .. k : f[x] = i
    /\ rs[f[1]].retry = None
    /\ \A x \in 1 .. k : x # 1 => /\ Retries(rs[f[x]], rs[f[x - 1]])
                                  /\ rs[f[x - 1]].status # "succeeded"

\* A lineage in which nothing is odd is orderly, and its ends are the reports
\* that nothing retries.
LEMMA NothingOddIsOrderly ==
  ASSUME NEW n \in Nat, NEW rs, DOMAIN rs = 1 .. n, Distinct(rs), NEW own, own \subseteq 1 .. n,
         NothingOdd(rs, own)
  PROVE  Orderly(rs, own) /\ NodeLineage(rs, own).ends = Unretried(rs, own)
<1> DEFINE R == Retried(rs, own)
           parent == ParentMap(rs, own)
<1>1. /\ \A i \in R : parent[rs[i].attempt] = rs[i].retry
      /\ DOMAIN parent = {rs[i].attempt : i \in R}
      /\ Range(parent) = {rs[i].retry : i \in R}
      /\ IsFiniteSet(DOMAIN parent)
  BY ParentIsRetry
<1>2. /\ R = {i \in own : rs[i].retry # None}
      /\ \A i \in R : ValidRetry(rs, own, i)
  BY DEF NothingOdd, Strays, Roots, Retried
<1> HIDE DEF R, parent
<1>3. \A i \in own : rs[i].retry = None
         \/ \E j \in own : Retries(rs[i], rs[j]) /\ rs[j].status # "succeeded"
  BY <1>2, ValidRetryNames
<1>4. ASSUME NEW i \in own, NEW j \in own, rs[i].retry = rs[j].retry PROVE i = j
  <2>1. CASE rs[i].retry = None
    <3>1. i \in Roots(rs, own) /\ j \in Roots(rs, own) /\ Roots(rs, own) \subseteq 1 .. n
      BY <1>4, <2>1 DEF Roots
    <3> QED BY <3>1, NoSurplus DEF NothingOdd
  <2>2. CASE rs[i].retry # None
    <3> DEFINE S == {m \in R : rs[m].retry = rs[i].retry}
    <3>1. i \in S /\ j \in S /\ S \subseteq 1 .. n
      BY <1>2, <1>4, <2>2
    <3>2. rs[i].retry \in Range(parent)
      BY <1>1, <3>1
    <3>3. Surplus(S) = {}
      BY <3>2 DEF NothingOdd, Branches, R, parent
    <3> HIDE DEF S
    <3> QED BY <3>1, <3>3, NoSurplus
  <2> QED BY <2>1, <2>2
<1>5. ASSUME NEW C \in SUBSET own, C # {}, \A i \in C : \E j \in C : Retries(rs[i], rs[j])
      PROVE  FALSE
  <2> DEFINE D == {j \in C : \E i \in C : Retries(rs[i], rs[j])}
             A == {rs[j].attempt : j \in D}
  <2>1. \A j \in D : j \in R /\ rs[j].retry \in A /\ rs[j].attempt # None
    <3> TAKE j \in D
    <3>1. PICK m \in C : Retries(rs[j], rs[m])
      BY <1>5
    <3>2. m \in D /\ rs[j].retry = rs[m].attempt /\ rs[j].retry # None
      BY <3>1 DEF Retries
    <3> QED BY <1>2, <3>2 DEF Retries
  <2>2. A \subseteq DOMAIN parent /\ None \notin A
    BY <1>1, <2>1
  <2>3. \A x \in A : parent[x] \in A
    BY <1>1, <2>1
  <2>4. PICK a : a \in A
    <3>1. PICK i \in C : TRUE
      BY <1>5
    <3>2. PICK j \in C : Retries(rs[i], rs[j])
      BY <1>5
    <3> QED BY <3>2
  <2> HIDE DEF A
  <2>5. Walk(parent, a) \subseteq A /\ a \in Walk(parent, a)
    BY <1>1, <2>2, <2>3, <2>4, WalkStays
  <2>6. a \in CycleAttempts(parent)
    BY <2>2, <2>4, <2>5 DEF CycleAttempts
  <2> QED BY <2>6 DEF NothingOdd, parent
<1>6. Orderly(rs, own)
  BY <1>3, <1>4, <1>5 DEF Orderly
<1>7. NodeLineage(rs, own).ends = {i \in own : rs[i].attempt \notin Range(parent)}
  BY LineageParts DEF parent
<1>8. \A i \in own : rs[i].attempt \in Range(parent) <=> \E m \in own : Retries(rs[m], rs[i])
  BY <1>1, <1>2 DEF Retries
<1> QED BY <1>6, <1>7, <1>8 DEF Unretried

\* Orderly reports of which only one is not retried are a chain that ends with it.
LEMMA OrderlyIsAChain ==
  ASSUME NEW n \in Nat, NEW rs, DOMAIN rs = 1 .. n, Distinct(rs)
  PROVE  \A k \in Nat : \A R \in SUBSET (1 .. n) : \A e \in R :
            Cardinality(R) = k /\ Orderly(rs, R) /\ Unretried(rs, R) = {e} =>
            \E f : IsChain(rs, R, f, k) /\ f[k] = e
<1> DEFINE P(k) == \A R \in SUBSET (1 .. n) : \A e \in R :
                      Cardinality(R) = k /\ Orderly(rs, R) /\ Unretried(rs, R) = {e} =>
                      \E f : IsChain(rs, R, f, k) /\ f[k] = e
           T == {k \in Nat : ~P(k)}
<1>1. SUFFICES ASSUME T # {} PROVE FALSE
  OBVIOUS
<1>2. PICK k \in T : \A m \in T : ~(<<m, k>> \in OpToRel(<, Nat))
  <2>1. T \subseteq Nat
    OBVIOUS
  <2> HIDE DEF T
  <2> QED BY <1>1, <2>1, NatLessThanWellFounded, WFMin
<1>3. k \in Nat /\ ~P(k)
  OBVIOUS
<1>4. k - 1 \in Nat => P(k - 1)
  <2> SUFFICES ASSUME k - 1 \in Nat PROVE k - 1 \notin T
    OBVIOUS
  <2>1. k - 1 < k
    BY <1>3
  <2>2. <<k - 1, k>> \in OpToRel(<, Nat)
    BY <1>3, <2>1 DEF OpToRel
  <2> HIDE DEF T
  <2> QED BY <1>2, <2>2
<1>5. PICK R \in SUBSET (1 .. n), e \in 1 .. n :
         /\ e \in R /\ Cardinality(R) = k /\ Orderly(rs, R) /\ Unretried(rs, R) = {e}
         /\ ~\E f : IsChain(rs, R, f, k) /\ f[k] = e
  BY <1>3
<1> HIDE DEF T
<1>6. IsFiniteSet(R)
  <2>1. IsFiniteSet(1 .. n)
    BY FS_Interval
  <2> QED BY <2>1, FS_Subset
<1>7. IsFiniteSet(R \ {e}) /\ Cardinality(R \ {e}) = k - 1 /\ k - 1 \in Nat
  <2>1. IsFiniteSet(R \ {e}) /\ Cardinality(R \ {e}) = Cardinality(R) - 1
    BY <1>5, <1>6, FS_RemoveElement
  <2>2. Cardinality(R \ {e}) \in Nat
    BY <2>1, FS_CardinalityType
  <2> QED BY <1>5, <2>1, <2>2
<1>8. \A m \in R : ~Retries(rs[m], rs[e])
  BY <1>5 DEF Unretried
<1>9. CASE rs[e].retry = None
  <2> DEFINE C == R \ {e}
  <2>1. \A i \in C : \E j \in C : Retries(rs[i], rs[j])
    <3> TAKE i \in C
    <3>1. rs[i].retry # None
      BY <1>5, <1>9 DEF Orderly
    <3>2. PICK j \in R : Retries(rs[i], rs[j])
      BY <1>5, <3>1 DEF Orderly
    <3> QED BY <1>8, <3>2
  <2>2. C = {}
    BY <1>5, <2>1 DEF Orderly
  <2>3. R = {e}
    BY <1>5, <2>2
  <2>4. k = 1
    <3>1. Cardinality(C) = k - 1 /\ Cardinality(C) = 0
      BY <1>7, <2>2, FS_EmptySet
    <3> QED BY <1>3, <3>1
  <2> DEFINE f == [x \in 1 .. 1 |-> e]
  <2>5. IsChain(rs, R, f, 1) /\ f[1] = e
    BY <1>9, <2>3 DEF IsChain
  <2> HIDE DEF f
  <2> QED BY <1>5, <2>4, <2>5
<1>10. CASE rs[e].retry # None
  <2>1. PICK j \in R : Retries(rs[e], rs[j]) /\ rs[j].status # "succeeded"
    BY <1>5, <1>10 DEF Orderly
  <2> DEFINE Q == R \ {e}
  <2>2. j \in Q
    BY <1>8, <2>1
  <2>3. Orderly(rs, Q)
    <3>1. \A i \in Q : rs[i].retry = None
             \/ \E h \in Q : Retries(rs[i], rs[h]) /\ rs[h].status # "succeeded"
      BY <1>5, <1>8 DEF Orderly
    <3>2. \A i, h \in Q : rs[i].retry = rs[h].retry => i = h
      BY <1>5 DEF Orderly
    <3>3. \A C \in SUBSET Q : C # {} => \E i \in C : \A h \in C : ~Retries(rs[i], rs[h])
      BY <1>5 DEF Orderly
    <3> QED BY <3>1, <3>2, <3>3 DEF Orderly
  <2>4. Unretried(rs, Q) = {j}
    <3>1. ASSUME NEW m \in Q, Retries(rs[m], rs[j]) PROVE FALSE
      <4>1. rs[m].retry = rs[e].retry
        BY <2>1, <3>1 DEF Retries
      <4> QED BY <1>5, <4>1 DEF Orderly
    <3>2. ASSUME NEW i \in Unretried(rs, Q) PROVE i = j
      <4>1. PICK m \in R : Retries(rs[m], rs[i])
        BY <1>5 DEF Unretried
      <4>2. m = e
        BY <3>2, <4>1 DEF Unretried
      <4>3. rs[i].attempt = rs[j].attempt
        BY <2>1, <4>1, <4>2 DEF Retries
      <4> QED BY <3>2, <4>3 DEF Unretried, Distinct
    <3> QED BY <2>2, <3>1, <3>2 DEF Unretried
  <2>5. PICK f : IsChain(rs, Q, f, k - 1) /\ f[k - 1] = j
    <3>1. Q \in SUBSET (1 .. n) /\ Cardinality(Q) = k - 1
      BY <1>7
    <3> HIDE DEF Q
    <3> QED BY <1>4, <1>7, <2>2, <2>3, <2>4, <3>1
  <2> DEFINE g == [x \in 1 .. k |-> IF x = k THEN e ELSE f[x]]
  <2>6. /\ f \in [1 .. k - 1 -> Q] /\ k - 1 # 0
        /\ \A x, y \in 1 .. k - 1 : f[x] = f[y] => x = y
        /\ \A i \in Q : \E x \in 1 .. k - 1 : f[x] = i
        /\ rs[f[1]].retry = None
        /\ \A x \in 1 .. k - 1 : x # 1 => /\ Retries(rs[f[x]], rs[f[x - 1]])
                                          /\ rs[f[x - 1]].status # "succeeded"
    BY <2>5 DEF IsChain
  <2>7. /\ k \in 1 .. k /\ k # 1 /\ 1 \in 1 .. k
        /\ \A x \in 1 .. k : x # k => x \in 1 .. k - 1
        /\ \A x \in 1 .. k - 1 : x \in 1 .. k /\ x # k
        /\ \A x \in 1 .. k : x # 1 => x - 1 \in 1 .. k - 1
    BY <1>3, <1>7, <2>6
  <2>8. g[k] = e /\ DOMAIN g = 1 .. k /\ \A x \in 1 .. k - 1 : g[x] = f[x] /\ f[x] \in Q
    BY <2>6, <2>7
  <2> HIDE DEF g
  <2>9. g \in [1 .. k -> R]
    <3>1. \A x \in 1 .. k : g[x] \in R
      BY <1>5, <2>7, <2>8
    <3>2. g = [x \in 1 .. k |-> g[x]]
      BY DEF g
    <3> QED BY <3>1, <3>2
  <2>10. \A x, y \in 1 .. k : g[x] = g[y] => x = y
    BY <2>6, <2>7, <2>8
  <2>11. \A i \in R : \E x \in 1 .. k : g[x] = i
    <3> TAKE i \in R
    <3>1. CASE i = e
      BY <2>7, <2>8, <3>1
    <3>2. CASE i # e
      <4>1. PICK x \in 1 .. k - 1 : f[x] = i
        BY <2>6, <3>2
      <4> QED BY <2>7, <2>8, <4>1
    <3> QED BY <3>1, <3>2
  <2>12. rs[g[1]].retry = None
    BY <2>6, <2>7, <2>8
  <2>13. \A x \in 1 .. k : x # 1 => /\ Retries(rs[g[x]], rs[g[x - 1]])
                                    /\ rs[g[x - 1]].status # "succeeded"
    <3> SUFFICES ASSUME NEW x \in 1 .. k, x # 1
                 PROVE  Retries(rs[g[x]], rs[g[x - 1]]) /\ rs[g[x - 1]].status # "succeeded"
      OBVIOUS
    <3>1. g[x - 1] = f[x - 1]
      BY <2>7, <2>8
    <3>2. CASE x = k
      BY <2>1, <2>5, <2>8, <3>1, <3>2
    <3>3. CASE x # k
      BY <2>6, <2>7, <2>8, <3>1, <3>3
    <3> QED BY <3>2, <3>3
  <2>14. IsChain(rs, R, g, k)
    <3>1. k # 0
      BY <2>7
    <3> QED BY <3>1, <2>9, <2>10, <2>11, <2>12, <2>13 DEF IsChain
  <2> QED BY <1>5, <2>8, <2>14
<1> QED BY <1>9, <1>10

\* In a chain nothing is odd, and its last report is the only end.
LEMMA ChainIsInOrder ==
  ASSUME NEW n \in Nat, NEW rs, DOMAIN rs = 1 .. n, Distinct(rs), NEW own, own \subseteq 1 .. n,
         NEW k \in Nat, NEW f, IsChain(rs, own, f, k)
  PROVE  NothingOdd(rs, own) /\ NodeLineage(rs, own).ends = {f[k]}
<1> DEFINE R == Retried(rs, own)
           parent == ParentMap(rs, own)
<1>1. /\ \A i \in R : parent[rs[i].attempt] = rs[i].retry
      /\ DOMAIN parent = {rs[i].attempt : i \in R}
      /\ Range(parent) = {rs[i].retry : i \in R}
      /\ IsFiniteSet(DOMAIN parent)
  BY ParentIsRetry
<1>2. /\ f \in [1 .. k -> own] /\ k # 0
      /\ \A x, y \in 1 .. k : f[x] = f[y] => x = y
      /\ \A i \in own : \E x \in 1 .. k : f[x] = i
      /\ rs[f[1]].retry = None
      /\ \A x \in 1 .. k : x # 1 => /\ Retries(rs[f[x]], rs[f[x - 1]])
                                    /\ rs[f[x - 1]].status # "succeeded"
  BY DEF IsChain
<1>3. /\ 1 \in 1 .. k /\ k \in 1 .. k
      /\ \A x \in 1 .. k : x # 1 => x - 1 \in 1 .. k /\ x - 1 # x
  BY <1>2
<1>4. \A x, y \in 1 .. k : rs[f[x]].attempt = rs[f[y]].attempt => x = y
  <2> SUFFICES ASSUME NEW x \in 1 .. k, NEW y \in 1 .. k, rs[f[x]].attempt = rs[f[y]].attempt
               PROVE  x = y
    OBVIOUS
  <2>1. f[x] \in 1 .. n /\ f[y] \in 1 .. n
    BY <1>2
  <2>2. f[x] = f[y]
    BY <2>1 DEF Distinct
  <2> QED BY <1>2, <2>2
<1>5. \A x \in 1 .. k : x # 1 => rs[f[x]].retry # None /\ rs[f[x]].retry = rs[f[x - 1]].attempt
  BY <1>2 DEF Retries
<1>6. ASSUME NEW i \in own PROVE i \in R <=> i # f[1]
  <2>1. PICK x \in 1 .. k : f[x] = i
    BY <1>2
  <2>2. CASE x = 1
    <3>1. i \notin R
      BY <1>2, <2>1, <2>2 DEF Retried
    <3> QED BY <2>1, <2>2, <3>1
  <2>3. CASE x # 1
    <3>1. f[x - 1] \in own /\ f[x - 1] # f[x]
      BY <1>2, <1>3, <2>3
    <3>2. Retries(rs[i], rs[f[x - 1]]) /\ rs[f[x - 1]].status # "succeeded"
      BY <1>2, <2>1, <2>3
    <3>3. rs[i].retry # None /\ ValidRetry(rs, own, i)
      BY <2>1, <3>1, <3>2, ValidRetryNames
    <3>4. i \in R
      BY <3>3 DEF Retried
    <3>5. i # f[1]
      BY <1>2, <1>3, <2>1, <2>3
    <3> QED BY <3>4, <3>5
  <2> QED BY <2>2, <2>3
<1>7. R \subseteq own
  BY DEF Retried
<1> HIDE DEF R, parent
<1>8. Strays(rs, own) = {} /\ Roots(rs, own) = {f[1]}
  <2>1. \A i \in own : rs[i].retry = None <=> i = f[1]
    BY <1>2, <1>5
  <2>2. f[1] \in own
    BY <1>2, <1>3
  <2>3. Roots(rs, own) = {f[1]}
    BY <2>1, <2>2 DEF Roots
  <2>4. Strays(rs, own) = own \ ({f[1]} \cup R)
    BY <2>3 DEF Strays, R
  <2> QED BY <1>6, <2>3, <2>4
<1>9. Surplus(Roots(rs, own)) = {}
  <2>1. Roots(rs, own) \subseteq 1 .. n
    BY DEF Roots
  <2> QED BY <1>8, <2>1, NoSurplus
<1>10. Branches(rs, own) = {}
  <2>1. ASSUME NEW a PROVE Surplus({i \in R : rs[i].retry = a}) = {}
    <3> DEFINE S == {i \in R : rs[i].retry = a}
    <3>1. \A i, j \in S : i = j
      <4> SUFFICES ASSUME NEW i \in S, NEW j \in S PROVE i = j
        OBVIOUS
      <4>1. PICK x \in 1 .. k : f[x] = i
        BY <1>2, <1>7
      <4>2. PICK y \in 1 .. k : f[y] = j
        BY <1>2, <1>7
      <4>3. x # 1 /\ y # 1
        BY <1>6, <1>7, <4>1, <4>2
      <4>4. rs[f[x - 1]].attempt = rs[f[y - 1]].attempt
        BY <1>5, <4>1, <4>2, <4>3
      <4>5. x - 1 = y - 1
        BY <1>3, <1>4, <4>3, <4>4
      <4> QED BY <4>1, <4>2, <4>5
    <3>2. S \subseteq 1 .. n
      BY <1>7
    <3> HIDE DEF S
    <3>3. Surplus(S) = {}
      BY <3>1, <3>2, NoSurplus
    <3> QED BY <3>3 DEF S
  <2> QED BY <2>1 DEF Branches, R
<1>11. Cardinality(DOMAIN parent) + 1 >= k
  <2> DEFINE g == [x \in 2 .. k |-> rs[f[x]].attempt]
  <2>1. \A x \in 2 .. k : x \in 1 .. k /\ x # 1
    OBVIOUS
  <2>2. g \in Injection(2 .. k, DOMAIN parent)
    <3>1. \A x \in 2 .. k : g[x] \in DOMAIN parent
      <4> TAKE x \in 2 .. k
      <4>1. f[x] \in own /\ f[x] # f[1]
        BY <1>2, <1>3, <2>1
      <4> QED BY <1>1, <1>6, <4>1
    <3>2. \A x, y \in 2 .. k : g[x] = g[y] => x = y
      BY <1>4, <2>1
    <3> QED BY <3>1, <3>2 DEF Injection, IsInjective
  <2>3. IsFiniteSet(2 .. k) /\ Cardinality(2 .. k) = k - 1
    <3>1. 2 \in Int /\ k \in Int /\ (2 > k => k = 1)
      BY <1>2
    <3>2. IsFiniteSet(2 .. k) /\ Cardinality(2 .. k) = IF 2 > k THEN 0 ELSE k - 2 + 1
      BY <3>1, FS_Interval
    <3> QED BY <3>1, <3>2
  <2> HIDE DEF g
  <2>4. Cardinality(2 .. k) =< Cardinality(DOMAIN parent)
    BY <1>1, <2>2, FS_Injection
  <2>5. PICK c \in Nat : c = Cardinality(DOMAIN parent)
    BY <1>1, FS_CardinalityType
  <2> QED BY <1>2, <2>3, <2>4, <2>5
<1>12. CycleAttempts(parent) = {}
  <2>1. ASSUME NEW a \in DOMAIN parent PROVE None \in Walk(parent, a)
    <3>1. PICK i \in R : a = rs[i].attempt
      BY <1>1
    <3>2. PICK x \in 1 .. k : f[x] = i
      BY <1>2, <1>7
    <3> DEFINE g == [y \in 1 .. k |-> rs[f[y]].attempt]
    <3>3. x \in Nat \ {0} /\ x =< Cardinality(DOMAIN parent) + 1
      <4>1. PICK c \in Nat : c = Cardinality(DOMAIN parent)
        BY <1>1, FS_CardinalityType
      <4> QED BY <1>11, <4>1
    <3>4. g[1] \notin DOMAIN parent
      <4> SUFFICES ASSUME NEW j \in R, rs[f[1]].attempt = rs[j].attempt PROVE FALSE
        BY <1>1, <1>3
      <4>1. f[1] \in 1 .. n /\ j \in 1 .. n
        BY <1>2, <1>3, <1>7
      <4>2. j = f[1]
        BY <4>1 DEF Distinct
      <4> QED BY <1>6, <1>7, <4>2
    <3>5. ASSUME NEW y \in 1 .. x, y # 1
          PROVE  g[y] \in DOMAIN parent /\ parent[g[y]] = g[y - 1]
      <4>1. y \in 1 .. k
        OBVIOUS
      <4>2. f[y] \in R
        BY <1>2, <1>3, <1>6, <3>5, <4>1
      <4> QED BY <1>1, <1>3, <1>5, <3>5, <4>1, <4>2
    <3>6. g[x] = a
      BY <3>1, <3>2
    <3> HIDE DEF g
    <3>7. None \in Walk(parent, g[x])
      BY <1>1, <3>3, <3>4, <3>5, WalkLeaves
    <3> QED BY <3>6, <3>7
  <2> QED BY <2>1 DEF CycleAttempts
<1>13. NodeLineage(rs, own).ends = {i \in own : rs[i].attempt \notin Range(parent)}
  BY LineageParts DEF parent
<1>14. ASSUME NEW i \in own PROVE rs[i].attempt \in Range(parent) <=> i # f[k]
  <2>1. PICK x \in 1 .. k : f[x] = i
    BY <1>2
  <2>2. ASSUME x = k, NEW j \in R, rs[i].attempt = rs[j].retry PROVE FALSE
    <3>1. PICK y \in 1 .. k : f[y] = j
      BY <1>2, <1>7
    <3>2. y # 1
      BY <1>6, <1>7, <3>1
    <3>3. rs[f[k]].attempt = rs[f[y - 1]].attempt
      BY <1>5, <2>1, <2>2, <3>1, <3>2
    <3>4. k = y - 1
      BY <1>3, <1>4, <3>2, <3>3
    <3> QED BY <3>1, <3>4
  <2>3. ASSUME x # k PROVE rs[i].attempt \in Range(parent)
    <3>1. x + 1 \in 1 .. k /\ x + 1 # 1 /\ x + 1 - 1 = x
      BY <2>3
    <3>2. PICK z \in 1 .. k : z = x + 1 /\ z # 1 /\ z - 1 = x
      BY <3>1
    <3>3. f[z] \in R
      BY <1>2, <1>3, <1>6, <3>2
    <3>4. rs[f[z]].retry = rs[f[x]].attempt
      BY <1>5, <3>2
    <3> QED BY <1>1, <2>1, <3>3, <3>4
  <2>4. x = k <=> i = f[k]
    BY <1>2, <1>3, <2>1
  <2> QED BY <1>1, <2>2, <2>3, <2>4
<1>15. f[k] \in own
  BY <1>2, <1>3
<1> QED BY <1>8, <1>9, <1>10, <1>12, <1>13, <1>14, <1>15 DEF NothingOdd, parent

-----------------------------------------------------------------------------
(* The lineages of a run *)

\* The reports of a node, as positions and as a set
OwnOf(rs, id) == {i \in DOMAIN rs : rs[i].node = id}
ReportsOf(rs, id) == {r \in ToSet(rs) : r.node = id}

\* There are as many of them either way.
LEMMA OwnReports ==
  ASSUME NEW n \in Nat, NEW rs, DOMAIN rs = 1 .. n, Distinct(rs), NEW id
  PROVE  /\ OwnOf(rs, id) \subseteq 1 .. n /\ IsFiniteSet(OwnOf(rs, id))
         /\ ReportsOf(rs, id) = {rs[i] : i \in OwnOf(rs, id)}
         /\ IsFiniteSet(ReportsOf(rs, id))
         /\ Cardinality(ReportsOf(rs, id)) \in Nat
         /\ Cardinality(OwnOf(rs, id)) = Cardinality(ReportsOf(rs, id))
<1> DEFINE own == OwnOf(rs, id)
           S == ReportsOf(rs, id)
           h == [i \in own |-> rs[i]]
<1>1. own \subseteq 1 .. n
  BY DEF OwnOf
<1>2. IsFiniteSet(own)
  <2>1. IsFiniteSet(1 .. n)
    BY FS_Interval
  <2> QED BY <1>1, <2>1, FS_Subset
<1>3. S = {rs[i] : i \in own}
  BY DEF OwnOf, ReportsOf, ToSet
<1>4. h \in Surjection(own, S) /\ h \in Injection(own, S)
  <2> HIDE DEF own, S
  <2>1. h \in [own -> S] /\ \A r \in S : \E i \in own : h[i] = r
    BY <1>3
  <2>2. \A i, j \in own : h[i] = h[j] => i = j
    BY <1>1 DEF Distinct
  <2> HIDE DEF h
  <2> QED BY <2>1, <2>2 DEF Surjection, Injection, IsInjective
<1> HIDE DEF own, S, h
<1>5. IsFiniteSet(S) /\ Cardinality(S) = Cardinality(own)
  BY <1>2, <1>4, FS_Surjection
<1>6. Cardinality(S) \in Nat
  BY <1>5, FS_CardinalityType
<1> QED BY <1>1, <1>2, <1>3, <1>5, <1>6 DEF own, S

\* The order of a chain is an order of its reports.
LEMMA ChainOfReports ==
  ASSUME NEW n \in Nat, NEW rs, DOMAIN rs = 1 .. n, Distinct(rs), NEW id,
         NEW k \in Nat, NEW f, IsChain(rs, OwnOf(rs, id), f, k)
  PROVE  \E c : c \in SetToSeqs(ReportsOf(rs, id)) /\ Retry(c) /\ Last(c) = rs[f[k]]
<1> DEFINE own == OwnOf(rs, id)
           S == ReportsOf(rs, id)
           c == [x \in 1 .. k |-> rs[f[x]]]
<1>1. /\ own \subseteq 1 .. n /\ IsFiniteSet(own) /\ S = {rs[i] : i \in own}
      /\ Cardinality(own) = Cardinality(S)
  BY OwnReports
<1> HIDE DEF own, S
<1>2. /\ f \in [1 .. k -> own] /\ k # 0
      /\ \A x, y \in 1 .. k : f[x] = f[y] => x = y
      /\ \A i \in own : \E x \in 1 .. k : f[x] = i
      /\ rs[f[1]].retry = None
      /\ \A x \in 1 .. k : x # 1 => /\ Retries(rs[f[x]], rs[f[x - 1]])
                                    /\ rs[f[x - 1]].status # "succeeded"
  BY DEF IsChain, own
<1>3. Cardinality(S) = k
  <2>1. f \in Bijection(1 .. k, own)
    BY <1>2 DEF Bijection, Injection, Surjection, IsInjective
  <2>2. ExistsBijection(1 .. k, own)
    BY <2>1 DEF ExistsBijection
  <2>3. IsFiniteSet(1 .. k) /\ Cardinality(1 .. k) = k
    BY <1>2, FS_Interval
  <2> QED BY <1>1, <2>2, <2>3, FS_Bijection
<1>4. c \in [1 .. k -> S]
  BY <1>1, <1>2
<1>5. \A x, y \in 1 .. k : x # y => c[x] # c[y]
  <2> SUFFICES ASSUME NEW x \in 1 .. k, NEW y \in 1 .. k, rs[f[x]] = rs[f[y]] PROVE x = y
    OBVIOUS
  <2>1. f[x] \in 1 .. n /\ f[y] \in 1 .. n
    BY <1>1, <1>2
  <2> QED BY <1>2, <2>1 DEF Distinct
<1>6. c \in SetToSeqs(S)
  <2> HIDE DEF c
  <2> QED BY <1>3, <1>4, <1>5 DEF SetToSeqs
<1>7. Len(c) = k /\ c # <<>> /\ Last(c) = rs[f[k]]
  <2>1. Len(c) = k
    BY DEF c
  <2>2. k \in 1 .. k
    BY <1>2
  <2> QED BY <1>2, <2>1, <2>2 DEF Last
<1>8. Retry(c)
  <2>1. c[1].retry = None
    BY <1>2
  <2>2. ASSUME NEW x \in 1 .. k - 1 PROVE Retries(c[x + 1], c[x]) /\ c[x].status # "succeeded"
    <3>1. x \in 1 .. k
      OBVIOUS
    <3>2. PICK y \in 1 .. k : y = x + 1 /\ y # 1 /\ y - 1 = x
      OBVIOUS
    <3>3. Retries(rs[f[y]], rs[f[x]]) /\ rs[f[x]].status # "succeeded"
      BY <1>2, <3>2
    <3> QED BY <3>1, <3>2, <3>3
  <2> HIDE DEF c
  <2> QED BY <1>7, <2>1, <2>2 DEF Retry
<1> HIDE DEF c
<1> QED BY <1>6, <1>7, <1>8 DEF S

\* And an order of the reports of a node is a chain.
LEMMA ReportsInAChain ==
  ASSUME NEW n \in Nat, NEW rs, DOMAIN rs = 1 .. n, Distinct(rs), NEW id,
         NEW c \in SetToSeqs(ReportsOf(rs, id)), Retry(c)
  PROVE  \E k \in Nat : \E f : IsChain(rs, OwnOf(rs, id), f, k) /\ Last(c) = rs[f[k]]
<1> DEFINE own == OwnOf(rs, id)
           S == ReportsOf(rs, id)
           k == Cardinality(S)
           f == [x \in 1 .. k |-> CHOOSE i \in own : rs[i] = c[x]]
<1>1. /\ own \subseteq 1 .. n /\ S = {rs[i] : i \in own} /\ IsFiniteSet(S) /\ k \in Nat
  BY OwnReports
<1>2. c \in [1 .. k -> S] /\ \A x, y \in 1 .. k : c[x] = c[y] => x = y
  BY DEF SetToSeqs
<1> HIDE DEF own, S
<1>3. \A r \in S : \E x \in 1 .. k : c[x] = r
  <2>1. c \in Injection(1 .. k, S)
    BY <1>2 DEF Injection, IsInjective
  <2>2. Cardinality(1 .. k) = k
    <3>1. PICK m \in Nat : m = k
      BY <1>1
    <3>2. Cardinality(1 .. m) = IF 1 > m THEN 0 ELSE m - 1 + 1
      BY FS_Interval
    <3>3. Cardinality(1 .. m) = m
      BY <3>2
    <3> QED BY <3>1, <3>3
  <2>3. c \in Surjection(1 .. k, S)
    BY <1>1, <2>1, <2>2, FS_Injection
  <2> QED BY <2>3 DEF Surjection
<1> HIDE DEF k
<1>4. Len(c) = k /\ k # 0
  <2>1. c \in Seq(S) /\ Len(c) = k
    BY <1>1, <1>2
  <2> QED BY <2>1 DEF Retry
<1>5. \A x \in 1 .. k : f[x] \in own /\ rs[f[x]] = c[x]
  <2> TAKE x \in 1 .. k
  <2>1. \E i \in own : rs[i] = c[x]
    BY <1>1, <1>2
  <2>2. f[x] = CHOOSE i \in own : rs[i] = c[x]
    OBVIOUS
  <2> QED BY <2>1, <2>2
<1>6. f \in [1 .. k -> own]
  BY <1>5
<1> HIDE DEF f
<1>7. \A x, y \in 1 .. k : f[x] = f[y] => x = y
  BY <1>2, <1>5
<1>8. ASSUME NEW i \in own PROVE \E x \in 1 .. k : f[x] = i
  <2>1. PICK x \in 1 .. k : c[x] = rs[i]
    BY <1>1, <1>3
  <2>2. rs[f[x]].attempt = rs[i].attempt /\ f[x] \in 1 .. n /\ i \in 1 .. n
    BY <1>1, <1>5, <2>1
  <2> QED BY <2>2 DEF Distinct
<1>9. rs[f[1]].retry = None
  <2>1. 1 \in 1 .. k
    BY <1>1, <1>4
  <2> QED BY <1>5, <2>1 DEF Retry
<1>10. ASSUME NEW x \in 1 .. k, x # 1
       PROVE  Retries(rs[f[x]], rs[f[x - 1]]) /\ rs[f[x - 1]].status # "succeeded"
  <2>1. PICK y : y = x - 1 /\ y \in 1 .. k - 1 /\ y \in 1 .. k /\ y + 1 = x
    BY <1>1, <1>10
  <2>2. Retries(c[y + 1], c[y]) /\ c[y].status # "succeeded"
    BY <1>4, <2>1 DEF Retry
  <2> QED BY <1>5, <2>1, <2>2
<1>11. IsChain(rs, own, f, k)
  BY <1>4, <1>6, <1>7, <1>8, <1>9, <1>10 DEF IsChain
<1>12. Last(c) = rs[f[k]]
  <2>1. k \in 1 .. k
    BY <1>1, <1>4
  <2> QED BY <1>4, <1>5, <2>1 DEF Last
<1> QED BY <1>1, <1>11, <1>12 DEF own

\* The report that ends a node's lineage, and when the lineage is settled
Terminal(rs, id) == rs[Max(NodeLineage(rs, OwnOf(rs, id)).ends)]
Settled(rs, node) ==
    LET own == OwnOf(rs, node.id)
    IN  /\ own # {}
        /\ NodeLineage(rs, own).duplicates = {} /\ NodeLineage(rs, own).findings = {}
        /\ Cardinality(NodeLineage(rs, own).ends) = 1
        /\ IsSuccess(node, Terminal(rs, node.id))

\* A lineage is settled exactly when the reports of its node, put in some order,
\* retry one another up to a success; that success is the terminal report.
LEMMA SettledIsALineage ==
  ASSUME NEW n \in Nat, NEW rs, DOMAIN rs = 1 .. n, Distinct(rs), NEW node
  PROVE  /\ Settled(rs, node) <=> \E c : Lineage(node, ToSet(rs), c)
         /\ \A c : Lineage(node, ToSet(rs), c) =>
               Last(c) = Terminal(rs, node.id) /\ Last(c).node = node.id
<1> DEFINE own == OwnOf(rs, node.id)
           S == ReportsOf(rs, node.id)
           E == NodeLineage(rs, own).ends
<1>1. own \subseteq 1 .. n /\ IsFiniteSet(own) /\ Cardinality(own) \in Nat
  BY OwnReports
<1>2. \A c : Lineage(node, ToSet(rs), c) <=>
                c \in SetToSeqs(S) /\ Retry(c) /\ IsSuccess(node, Last(c))
  BY DEF Lineage, ReportsOf
<1>3. \A i \in own : rs[i].node = node.id
  BY DEF OwnOf
<1> HIDE DEF own, S, E
<1>4. ASSUME NEW i \in own, E = {i} PROVE Terminal(rs, node.id) = rs[i] /\ Cardinality(E) = 1
  <2>1. Max({i}) \in {i}
    BY <1>1, LastPosition
  <2>2. Max(E) = i
    BY <1>4, <2>1
  <2>3. Cardinality(E) = 1
    BY <1>4, FS_Singleton
  <2> QED BY <2>2, <2>3 DEF Terminal, own, E
<1>5. ASSUME Settled(rs, node) PROVE \E c : Lineage(node, ToSet(rs), c)
  <2>1. /\ NodeLineage(rs, own).duplicates = {} /\ Cardinality(E) = 1
        /\ IsSuccess(node, Terminal(rs, node.id))
    BY <1>5 DEF Settled, own, E
  <2>2. NothingOdd(rs, own)
    BY <2>1, LineageParts
  <2>3. Orderly(rs, own) /\ E = Unretried(rs, own)
    BY <1>1, <2>2, NothingOddIsOrderly DEF E
  <2>4. E \subseteq own
    BY <2>3 DEF Unretried
  <2>5. PICK e : E = {e}
    <3>1. IsFiniteSet(E)
      BY <1>1, <2>4, FS_Subset
    <3> QED BY <2>1, <3>1, FS_Singleton
  <2>6. e \in own /\ own \in SUBSET (1 .. n)
    BY <1>1, <2>4, <2>5
  <2>7. PICK k \in Nat : k = Cardinality(own)
    BY <1>1
  <2>8. PICK f : IsChain(rs, own, f, k) /\ f[k] = e
    <3>1. \A R \in SUBSET (1 .. n) : \A x \in R :
             Cardinality(R) = k /\ Orderly(rs, R) /\ Unretried(rs, R) = {x} =>
             \E f : IsChain(rs, R, f, k) /\ f[k] = x
      BY OrderlyIsAChain
    <3>2. Cardinality(own) = k /\ Orderly(rs, own) /\ Unretried(rs, own) = {e}
      BY <2>3, <2>5, <2>7
    <3> QED BY <2>6, <3>1, <3>2
  <2>9. PICK c : c \in SetToSeqs(S) /\ Retry(c) /\ Last(c) = rs[f[k]]
    BY <2>8, ChainOfReports DEF own, S
  <2>10. IsSuccess(node, Last(c))
    BY <1>4, <2>1, <2>5, <2>6, <2>8, <2>9
  <2> QED BY <1>2, <2>9, <2>10
<1>6. ASSUME NEW c, Lineage(node, ToSet(rs), c)
      PROVE  /\ Settled(rs, node) /\ Last(c) = Terminal(rs, node.id)
             /\ Last(c).node = node.id
  <2>1. c \in SetToSeqs(S) /\ Retry(c) /\ IsSuccess(node, Last(c))
    BY <1>2, <1>6
  <2>2. PICK k \in Nat : \E f : IsChain(rs, own, f, k) /\ Last(c) = rs[f[k]]
    BY <2>1, ReportsInAChain DEF own, S
  <2>3. PICK f : IsChain(rs, own, f, k) /\ Last(c) = rs[f[k]]
    BY <2>2
  <2>4. NothingOdd(rs, own) /\ E = {f[k]}
    <3>1. IsChain(rs, own, f, k)
      BY <2>3
    <3>2. NothingOdd(rs, own) /\ NodeLineage(rs, own).ends = {f[k]}
      <4> PICK R : R = own
        OBVIOUS
      <4>1. R \subseteq 1 .. n /\ IsChain(rs, R, f, k)
        BY <1>1, <3>1
      <4>2. NothingOdd(rs, R) /\ NodeLineage(rs, R).ends = {f[k]}
        BY <4>1, ChainIsInOrder
      <4> QED BY <4>2
    <3> QED BY <3>2 DEF E
  <2>5. f[k] \in own
    <3>1. f \in [1 .. k -> own] /\ k # 0
      BY <2>3 DEF IsChain
    <3>2. k \in 1 .. k
      BY <3>1
    <3> QED BY <3>1, <3>2
  <2>6. Terminal(rs, node.id) = rs[f[k]] /\ Cardinality(E) = 1
    BY <1>4, <2>4, <2>5
  <2>7. NodeLineage(rs, own).duplicates = {} /\ NodeLineage(rs, own).findings = {}
    BY <2>4, LineageParts
  <2> QED BY <1>3, <2>1, <2>3, <2>5, <2>6, <2>7 DEF Settled, own, E
<1> QED BY <1>5, <1>6

\* A run whose every lineage is settled and whose every edge hands one artifact on
EdgeDone(exp, rs, observed, e) ==
    /\ {e.from, e.to} \subseteq Ids(exp.nodes)
    /\ Cardinality(Terminal(rs, e.from).outs \cap Terminal(rs, e.to).ins) = 1
    /\ Terminal(rs, e.from).outs \cap Terminal(rs, e.to).ins \subseteq observed
SettledRun(exp, rs, observed) ==
    /\ exp.nodes # {} /\ UniqueIds(exp.nodes) /\ UniqueIds(exp.edges)
    /\ \A i \in DOMAIN rs : ReportFindings(rs[i]) = {} /\ Joins(exp, rs[i])
    /\ Distinct(rs)
    /\ \A node \in exp.nodes : Settled(rs, node)
    /\ \A e \in exp.edges : EdgeDone(exp, rs, observed, e)
    /\ \A a \in observed : \E i \in DOMAIN rs : a \in rs[i].ins \cup rs[i].outs

\* No attempt is repeated exactly when the attempts are distinct.
LEMMA NothingRepeated ==
  ASSUME NEW n \in Nat, NEW rs, DOMAIN rs = 1 .. n
  PROVE  {i \in DOMAIN rs : i # Min(Indices(rs, rs[i].attempt))} = {} <=> Distinct(rs)
<1>1. ASSUME {i \in DOMAIN rs : i # Min(Indices(rs, rs[i].attempt))} = {} PROVE Distinct(rs)
  <2>1. \A i \in DOMAIN rs : i = Min(Indices(rs, rs[i].attempt))
    BY <1>1
  <2> SUFFICES ASSUME NEW i \in DOMAIN rs, NEW j \in DOMAIN rs, rs[i].attempt = rs[j].attempt
               PROVE  i = j
    BY DEF Distinct
  <2> QED BY <2>1
<1>2. ASSUME Distinct(rs) PROVE \A i \in DOMAIN rs : i = Min(Indices(rs, rs[i].attempt))
  BY <1>2, IndexOfAttempt
<1> QED BY <1>1, <1>2

\* The lineages of the nodes when every report joins the graph
LEMMA LineagesOfAll ==
  ASSUME NEW exp, NEW rs, \A i \in DOMAIN rs : Joins(exp, rs[i])
  PROVE  /\ DOMAIN Lineages(exp, rs) = {rs[i].node : i \in DOMAIN rs}
         /\ \A id \in DOMAIN Lineages(exp, rs) : Lineages(exp, rs)[id] = NodeLineage(rs, OwnOf(rs, id))
<1> DEFINE joining == {i \in DOMAIN rs : Joins(exp, rs[i])}
<1>1. joining = DOMAIN rs
  OBVIOUS
<1>2. Lineages(exp, rs) = [id \in {rs[i].node : i \in joining} |->
                              NodeLineage(rs, {i \in joining : rs[i].node = id})]
  BY DEF Lineages
<1>3. \A id : {i \in joining : rs[i].node = id} = OwnOf(rs, id)
  BY <1>1 DEF OwnOf
<1> HIDE DEF joining
<1> QED BY <1>1, <1>2, <1>3

\* The node of an identifier, where identifiers are unique
LEMMA ExpectedNodeIs ==
  ASSUME NEW exp, IsFiniteSet(exp.nodes), UniqueIds(exp.nodes), NEW node \in exp.nodes
  PROVE  ExpectedNode(exp, node.id) = node
<1> DEFINE f == [z \in exp.nodes |-> z.id]
<1>1. f \in Surjection(exp.nodes, Ids(exp.nodes))
  BY DEF Surjection, Ids
<1>2. f \in Injection(exp.nodes, Ids(exp.nodes))
  <2> HIDE DEF f
  <2> QED BY <1>1, FS_SurjSameCardinalityImpliesInj DEF UniqueIds
<1>3. \A z \in exp.nodes : z.id = node.id => z = node
  BY <1>2 DEF Injection, IsInjective
<1> QED BY <1>3 DEF ExpectedNode

\* What completeness comes to: nothing missing, failed, doubled or unaccounted
\* for, every handoff proven, and nothing found
CompleteIf(exp, rs, observed, lineage, ends, terminal) ==
    /\ exp.nodes # {} /\ UniqueIds(exp.nodes) /\ UniqueIds(exp.edges)
    /\ Ids(exp.nodes) \subseteq DOMAIN lineage /\ DOMAIN lineage \subseteq DOMAIN terminal
    /\ {i \in DOMAIN rs : i # Min(Indices(rs, rs[i].attempt))} = {}
    /\ \A i \in DOMAIN rs : ReportFindings(rs[i]) = {} /\ Joins(exp, rs[i])
    /\ \A id \in DOMAIN lineage : lineage[id].duplicates = {} /\ lineage[id].findings = {}
    /\ \A id \in DOMAIN ends : TerminalFindings(ExpectedNode(exp, id), ends[id]) = {}
    /\ \A e \in exp.edges : EdgeFindings(terminal, observed, e) = {}
    /\ \A a \in observed : \E i \in DOMAIN rs : Joins(exp, rs[i]) /\ a \in rs[i].ins \cup rs[i].outs

\* The report says complete in just that case.
LEMMA CompletenessIs ==
  ASSUME NEW exp, NEW rs, NEW observed, NEW lineage, NEW ends, NEW terminal
  PROVE  Completeness(exp, rs, observed, lineage, ends, terminal).complete
         <=> CompleteIf(exp, rs, observed, lineage, ends, terminal)
<1> DEFINE reported == DOMAIN lineage
           accounted == UNION {rs[i].ins \cup rs[i].outs : i \in {i \in DOMAIN rs : Joins(exp, rs[i])}}
           repeated == {i \in DOMAIN rs : i # Min(Indices(rs, rs[i].attempt))}
           duplicates == repeated \cup UNION {lineage[id].duplicates : id \in reported}
           missing == Ids(exp.nodes) \ reported
           failed == reported \ DOMAIN terminal
           unaccounted == observed \ accounted
           proofs == {e.id : e \in {e \in exp.edges : EdgeFindings(terminal, observed, e) = {}}}
           strangers == \E i \in DOMAIN rs : rs[i].graph # exp.graph
           unexpected == \E i \in DOMAIN rs :
                            rs[i].graph = exp.graph /\ rs[i].node \notin Ids(exp.nodes)
           f == [duplicate_expected_node |-> ~UniqueIds(exp.nodes),
                 duplicate_expected_edge |-> ~UniqueIds(exp.edges),
                 duplicate_attempt_id |-> repeated # {},
                 graph_join_mismatch |-> strangers,
                 unexpected_node |-> unexpected,
                 missing_report |-> missing # {},
                 unaccounted_artifact |-> unaccounted # {}]
           F1 == UNION {ReportFindings(rs[i]) : i \in DOMAIN rs}
           F2 == UNION {lineage[id].findings : id \in reported}
           F3 == UNION {TerminalFindings(ExpectedNode(exp, id), ends[id]) : id \in DOMAIN ends}
           F4 == UNION {EdgeFindings(terminal, observed, e) : e \in exp.edges}
           nodeComplete == /\ exp.nodes # {}
                           /\ {} = missing \cup failed /\ duplicates = {} /\ unaccounted = {}
<1>1. Completeness(exp, rs, observed, lineage, ends, terminal).complete
      <=> nodeComplete /\ proofs = Ids(exp.edges) /\ F1 \cup Codes(f) \cup F2 \cup F3 \cup F4 = {}
  BY DEF Completeness
<1>2. Codes(f) = {} <=> \A c \in DOMAIN f : ~f[c]
  BY DEF Codes
<1>3. /\ DOMAIN f = {"duplicate_expected_node", "duplicate_expected_edge", "duplicate_attempt_id",
                     "graph_join_mismatch", "unexpected_node", "missing_report",
                     "unaccounted_artifact"}
      /\ f["duplicate_expected_node"] = ~UniqueIds(exp.nodes)
      /\ f["duplicate_expected_edge"] = ~UniqueIds(exp.edges)
      /\ f["duplicate_attempt_id"] = (repeated # {})
      /\ f["graph_join_mismatch"] = strangers
      /\ f["unexpected_node"] = unexpected
      /\ f["missing_report"] = (missing # {})
      /\ f["unaccounted_artifact"] = (unaccounted # {})
  <2> HIDE DEF repeated, strangers, unexpected, missing, unaccounted
  <2> QED OBVIOUS
<1>4. Codes(f) = {} <=> /\ UniqueIds(exp.nodes) /\ UniqueIds(exp.edges) /\ repeated = {}
                        /\ ~strangers /\ ~unexpected /\ missing = {} /\ unaccounted = {}
  <2> HIDE DEF f, repeated, strangers, unexpected, missing, unaccounted
  <2> QED BY <1>2, <1>3
<1>5. F1 = {} <=> \A i \in DOMAIN rs : ReportFindings(rs[i]) = {}
  OBVIOUS
<1>6. F2 = {} <=> \A id \in DOMAIN lineage : lineage[id].findings = {}
  OBVIOUS
<1>7. F3 = {} <=> \A id \in DOMAIN ends : TerminalFindings(ExpectedNode(exp, id), ends[id]) = {}
  OBVIOUS
<1>8. F4 = {} <=> \A e \in exp.edges : EdgeFindings(terminal, observed, e) = {}
  OBVIOUS
<1>9. (\A e \in exp.edges : EdgeFindings(terminal, observed, e) = {}) => proofs = Ids(exp.edges)
  BY DEF Ids
<1>10. ~strangers /\ ~unexpected <=> \A i \in DOMAIN rs : Joins(exp, rs[i])
  BY DEF Joins
<1>11. duplicates = {} <=> repeated = {} /\ \A id \in DOMAIN lineage : lineage[id].duplicates = {}
  <2> HIDE DEF repeated
  <2> QED OBVIOUS
<1>12. unaccounted = {} <=>
          \A a \in observed : \E i \in DOMAIN rs : Joins(exp, rs[i]) /\ a \in rs[i].ins \cup rs[i].outs
  OBVIOUS
<1>13. {} = missing \cup failed <=>
          Ids(exp.nodes) \subseteq DOMAIN lineage /\ DOMAIN lineage \subseteq DOMAIN terminal
  OBVIOUS
<1>14. missing = {} <=> Ids(exp.nodes) \subseteq DOMAIN lineage
  OBVIOUS
<1>15. nodeComplete <=> /\ exp.nodes # {} /\ {} = missing \cup failed
                        /\ duplicates = {} /\ unaccounted = {}
  OBVIOUS
<1>16. F1 \cup Codes(f) \cup F2 \cup F3 \cup F4 = {} <=>
          F1 = {} /\ Codes(f) = {} /\ F2 = {} /\ F3 = {} /\ F4 = {}
  <2> HIDE DEF f, F1, F2, F3, F4
  <2> QED OBVIOUS
<1>17. CompleteIf(exp, rs, observed, lineage, ends, terminal) <=>
          /\ exp.nodes # {} /\ UniqueIds(exp.nodes) /\ UniqueIds(exp.edges)
          /\ {} = missing \cup failed /\ repeated = {}
          /\ \A i \in DOMAIN rs : ReportFindings(rs[i]) = {}
          /\ \A i \in DOMAIN rs : Joins(exp, rs[i])
          /\ \A id \in DOMAIN lineage : lineage[id].duplicates = {}
          /\ \A id \in DOMAIN lineage : lineage[id].findings = {}
          /\ \A id \in DOMAIN ends : TerminalFindings(ExpectedNode(exp, id), ends[id]) = {}
          /\ \A e \in exp.edges : EdgeFindings(terminal, observed, e) = {}
          /\ unaccounted = {}
  <2> HIDE DEF missing, failed, unaccounted
  <2> QED BY <1>12, <1>13 DEF CompleteIf
<1> HIDE DEF reported, accounted, repeated, duplicates, missing, failed, unaccounted, proofs,
             strangers, unexpected, f, F1, F2, F3, F4, nodeComplete
<1> QED BY <1>1, <1>4, <1>5, <1>6, <1>7, <1>8, <1>9, <1>10, <1>11, <1>13, <1>14, <1>15, <1>16, <1>17

\* A success has nothing of the kind that is reported about ends.
LEMMA SuccessIsNoFinding ==
  ASSUME NEW node, NEW r, IsSuccess(node, r)
  PROVE  TerminalFindings(node, r) = {}
<1> DEFINE f == [output_schema_mismatch |-> r.status = "succeeded" /\ ~SchemaMatches(node, r),
                 parent_node_lineage_mismatch |-> r.parents # node.parents]
<1>1. TerminalFindings(node, r) = {c \in DOMAIN f : f[c]}
  BY DEF TerminalFindings, Codes
<1>2. /\ DOMAIN f = {"output_schema_mismatch", "parent_node_lineage_mismatch"}
      /\ ~f["output_schema_mismatch"] /\ ~f["parent_node_lineage_mismatch"]
  BY DEF IsSuccess
<1> HIDE DEF f
<1> QED BY <1>1, <1>2

\* The terminal attempts, when every report joins the graph: those of the nodes
\* with one end that is a success
LEMMA TerminalsOfAll ==
  ASSUME NEW exp, IsFiniteSet(exp.nodes), UniqueIds(exp.nodes),
         NEW rs, \A i \in DOMAIN rs : Joins(exp, rs[i])
  PROVE  LET lineage == Lineages(exp, rs)
             ends == SingleEnds(rs, lineage)
             terminal == TerminalAttempts(exp, ends)
         IN  /\ DOMAIN terminal \subseteq DOMAIN ends /\ DOMAIN ends \subseteq DOMAIN lineage
             /\ \A id \in DOMAIN ends : ends[id] = Terminal(rs, id)
             /\ \A id \in DOMAIN terminal : terminal[id] = Terminal(rs, id)
             /\ \A node \in exp.nodes : node.id \in DOMAIN terminal <=>
                   /\ node.id \in DOMAIN lineage
                   /\ Cardinality(NodeLineage(rs, OwnOf(rs, node.id)).ends) = 1
                   /\ IsSuccess(node, Terminal(rs, node.id))
<1> DEFINE lineage == Lineages(exp, rs)
           ends == SingleEnds(rs, lineage)
           terminal == TerminalAttempts(exp, ends)
<1>1. \A id \in DOMAIN lineage : lineage[id] = NodeLineage(rs, OwnOf(rs, id))
  BY LineagesOfAll
<1> HIDE DEF lineage
<1>2. /\ DOMAIN ends = {id \in DOMAIN lineage : Cardinality(lineage[id].ends) = 1}
      /\ \A id \in DOMAIN ends : ends[id] = rs[Max(lineage[id].ends)]
  BY DEF SingleEnds
<1> HIDE DEF ends
<1>3. /\ DOMAIN terminal = {id \in DOMAIN ends : IsSuccess(ExpectedNode(exp, id), ends[id])}
      /\ \A id \in DOMAIN terminal : terminal[id] = ends[id]
  BY DEF TerminalAttempts
<1> HIDE DEF terminal
<1>4. \A id \in DOMAIN ends : ends[id] = Terminal(rs, id)
  BY <1>1, <1>2 DEF Terminal
<1>5. ASSUME NEW node \in exp.nodes
      PROVE  node.id \in DOMAIN terminal <=>
                   /\ node.id \in DOMAIN lineage
                   /\ Cardinality(NodeLineage(rs, OwnOf(rs, node.id)).ends) = 1
                   /\ IsSuccess(node, Terminal(rs, node.id))
  <2>1. ExpectedNode(exp, node.id) = node
    BY ExpectedNodeIs
  <2> QED BY <1>1, <1>2, <1>3, <1>4, <2>1
<1>6. DOMAIN terminal \subseteq DOMAIN ends /\ DOMAIN ends \subseteq DOMAIN lineage
  BY <1>2, <1>3
<1>7. \A id \in DOMAIN terminal : terminal[id] = Terminal(rs, id)
  BY <1>3, <1>4
<1> QED BY <1>4, <1>5, <1>6, <1>7 DEF lineage, ends, terminal

\* An edge is proven when both its ends are settled and hand one artifact on.
LEMMA EdgeIsDone ==
  ASSUME NEW exp, NEW rs, NEW observed, NEW terminal, DOMAIN terminal = Ids(exp.nodes),
         \A id \in DOMAIN terminal : terminal[id] = Terminal(rs, id), NEW e
  PROVE  EdgeFindings(terminal, observed, e) = {} <=> EdgeDone(exp, rs, observed, e)
<1>1. CASE ~({e.from, e.to} \subseteq DOMAIN terminal)
  BY <1>1 DEF EdgeFindings, EdgeDone
<1>2. CASE {e.from, e.to} \subseteq DOMAIN terminal
  <2> DEFINE H == Terminal(rs, e.from).outs \cap Terminal(rs, e.to).ins
  <2>1. Handoff(terminal, e) = H
    BY <1>2 DEF Handoff
  <2>2. EdgeDone(exp, rs, observed, e) <=> Cardinality(H) = 1 /\ H \subseteq observed
    BY <1>2 DEF EdgeDone
  <2> HIDE DEF H
  <2>3. Cardinality(H) = 1 => H # {}
    BY FS_EmptySet
  <2>4. EdgeFindings(terminal, observed, e) =
          IF H = {} THEN {"missing_edge_handoff_artifact"}
          ELSE IF Cardinality(H) # 1 THEN {"duplicated_edge_handoff_artifact"}
          ELSE IF ~(H \subseteq observed) THEN {"un_ingested_edge_handoff_artifact"} ELSE {}
    BY <1>2, <2>1 DEF EdgeFindings
  <2> QED BY <2>2, <2>3, <2>4
<1> QED BY <1>1, <1>2

\* reconcile_runtime_reports reports complete exactly when the run is settled.
LEMMA CompleteIsSettled ==
  ASSUME NEW n \in Nat, NEW rs, DOMAIN rs = 1 .. n, NEW exp, IsFiniteSet(exp.nodes), NEW observed
  PROVE  ReconcileReports(exp, rs, observed).complete <=> SettledRun(exp, rs, observed)
<1> DEFINE lineage == Lineages(exp, rs)
           ends == SingleEnds(rs, lineage)
           terminal == TerminalAttempts(exp, ends)
<1>1. ReconcileReports(exp, rs, observed).complete
      <=> CompleteIf(exp, rs, observed, lineage, ends, terminal)
  BY CompletenessIs DEF ReconcileReports, ReconcileLineages, ReconcileEnds
<1>2. {i \in DOMAIN rs : i # Min(Indices(rs, rs[i].attempt))} = {} <=> Distinct(rs)
  BY NothingRepeated
<1>3. ASSUME UniqueIds(exp.nodes), \A i \in DOMAIN rs : Joins(exp, rs[i])
      PROVE  /\ DOMAIN lineage = {rs[i].node : i \in DOMAIN rs}
             /\ \A id \in DOMAIN lineage : lineage[id] = NodeLineage(rs, OwnOf(rs, id))
             /\ DOMAIN lineage \subseteq Ids(exp.nodes)
             /\ DOMAIN terminal \subseteq DOMAIN ends /\ DOMAIN ends \subseteq DOMAIN lineage
             /\ \A id \in DOMAIN ends : ends[id] = Terminal(rs, id)
             /\ \A id \in DOMAIN terminal : terminal[id] = Terminal(rs, id)
             /\ \A node \in exp.nodes : node.id \in DOMAIN terminal <=>
                   /\ node.id \in DOMAIN lineage
                   /\ Cardinality(NodeLineage(rs, OwnOf(rs, node.id)).ends) = 1
                   /\ IsSuccess(node, Terminal(rs, node.id))
  <2>1. /\ DOMAIN lineage = {rs[i].node : i \in DOMAIN rs}
        /\ \A id \in DOMAIN lineage : lineage[id] = NodeLineage(rs, OwnOf(rs, id))
    BY <1>3, LineagesOfAll
  <2>2. DOMAIN lineage \subseteq Ids(exp.nodes)
    BY <1>3, <2>1 DEF Joins
  <2> QED BY <1>3, <2>1, <2>2, TerminalsOfAll
<1> HIDE DEF lineage, ends, terminal
<1>4. ASSUME CompleteIf(exp, rs, observed, lineage, ends, terminal)
      PROVE  SettledRun(exp, rs, observed)
  <2>1. /\ exp.nodes # {} /\ UniqueIds(exp.nodes) /\ UniqueIds(exp.edges)
        /\ Ids(exp.nodes) \subseteq DOMAIN lineage /\ DOMAIN lineage \subseteq DOMAIN terminal
        /\ Distinct(rs)
        /\ \A i \in DOMAIN rs : ReportFindings(rs[i]) = {} /\ Joins(exp, rs[i])
        /\ \A id \in DOMAIN lineage : lineage[id].duplicates = {} /\ lineage[id].findings = {}
        /\ \A e \in exp.edges : EdgeFindings(terminal, observed, e) = {}
        /\ \A a \in observed : \E i \in DOMAIN rs : a \in rs[i].ins \cup rs[i].outs
    BY <1>2, <1>4 DEF CompleteIf
  <2>2. DOMAIN terminal = Ids(exp.nodes)
    BY <1>3, <2>1
  <2>3. ASSUME NEW node \in exp.nodes PROVE Settled(rs, node)
    <3>1. node.id \in DOMAIN lineage /\ node.id \in DOMAIN terminal
      BY <2>1 DEF Ids
    <3>2. OwnOf(rs, node.id) # {}
      BY <1>3, <2>1, <3>1 DEF OwnOf
    <3>3. /\ NodeLineage(rs, OwnOf(rs, node.id)).duplicates = {}
          /\ NodeLineage(rs, OwnOf(rs, node.id)).findings = {}
      BY <1>3, <2>1, <3>1
    <3> QED BY <1>3, <2>1, <3>1, <3>2, <3>3 DEF Settled
  <2>4. \A e \in exp.edges : EdgeDone(exp, rs, observed, e)
    BY <1>3, <2>1, <2>2, EdgeIsDone
  <2> QED BY <2>1, <2>3, <2>4 DEF SettledRun
<1>5. ASSUME SettledRun(exp, rs, observed)
      PROVE  CompleteIf(exp, rs, observed, lineage, ends, terminal)
  <2>1. /\ exp.nodes # {} /\ UniqueIds(exp.nodes) /\ UniqueIds(exp.edges)
        /\ \A i \in DOMAIN rs : ReportFindings(rs[i]) = {} /\ Joins(exp, rs[i])
        /\ Distinct(rs)
        /\ \A node \in exp.nodes : Settled(rs, node)
        /\ \A e \in exp.edges : EdgeDone(exp, rs, observed, e)
        /\ \A a \in observed : \E i \in DOMAIN rs : a \in rs[i].ins \cup rs[i].outs
    BY <1>5 DEF SettledRun
  <2>2. ASSUME NEW node \in exp.nodes
        PROVE  /\ node.id \in DOMAIN lineage /\ node.id \in DOMAIN terminal
               /\ lineage[node.id].duplicates = {} /\ lineage[node.id].findings = {}
               /\ TerminalFindings(ExpectedNode(exp, node.id), Terminal(rs, node.id)) = {}
    <3>1. /\ OwnOf(rs, node.id) # {}
          /\ NodeLineage(rs, OwnOf(rs, node.id)).duplicates = {}
          /\ NodeLineage(rs, OwnOf(rs, node.id)).findings = {}
          /\ Cardinality(NodeLineage(rs, OwnOf(rs, node.id)).ends) = 1
          /\ IsSuccess(node, Terminal(rs, node.id))
      BY <2>1 DEF Settled
    <3>2. node.id \in DOMAIN lineage
      BY <1>3, <2>1, <3>1 DEF OwnOf
    <3>3. ExpectedNode(exp, node.id) = node
      BY <2>1, ExpectedNodeIs
    <3>4. TerminalFindings(ExpectedNode(exp, node.id), Terminal(rs, node.id)) = {}
      BY <3>1, <3>3, SuccessIsNoFinding
    <3> QED BY <1>3, <2>1, <3>1, <3>2, <3>4
  <2>3. DOMAIN lineage = Ids(exp.nodes) /\ DOMAIN terminal = Ids(exp.nodes)
    <3>1. Ids(exp.nodes) \subseteq DOMAIN lineage /\ Ids(exp.nodes) \subseteq DOMAIN terminal
      BY <2>2 DEF Ids
    <3>2. /\ DOMAIN lineage \subseteq Ids(exp.nodes)
          /\ DOMAIN terminal \subseteq DOMAIN ends /\ DOMAIN ends \subseteq DOMAIN lineage
      BY <1>3, <2>1
    <3> QED BY <3>1, <3>2
  <2>4. \A id \in DOMAIN lineage : lineage[id].duplicates = {} /\ lineage[id].findings = {}
    BY <2>2, <2>3 DEF Ids
  <2>5. \A id \in DOMAIN ends : TerminalFindings(ExpectedNode(exp, id), ends[id]) = {}
    <3> TAKE id \in DOMAIN ends
    <3>1. PICK node \in exp.nodes : node.id = id
      BY <1>3, <2>1, <2>3 DEF Ids
    <3>2. ends[id] = Terminal(rs, id)
      BY <1>3, <2>1
    <3> QED BY <2>2, <3>1, <3>2
  <2>6. \A e \in exp.edges : EdgeFindings(terminal, observed, e) = {}
    BY <1>3, <2>1, <2>3, EdgeIsDone
  <2>7. \A a \in observed : \E i \in DOMAIN rs : Joins(exp, rs[i]) /\ a \in rs[i].ins \cup rs[i].outs
    BY <2>1
  <2> QED BY <1>2, <2>1, <2>3, <2>4, <2>5, <2>6, <2>7 DEF CompleteIf
<1> QED BY <1>1, <1>4, <1>5

\* No report arrived twice and no two are of one attempt exactly when the
\* attempts are distinct.
LEMMA DistinctReports ==
  ASSUME NEW n \in Nat, NEW rs, DOMAIN rs = 1 .. n
  PROVE  Distinct(rs) <=> /\ Cardinality(ToSet(rs)) = n
                          /\ \A r, s \in ToSet(rs) : r # s => r.attempt # s.attempt
<1> DEFINE h == [i \in 1 .. n |-> rs[i]]
<1>1. ToSet(rs) = {rs[i] : i \in 1 .. n}
  BY DEF ToSet
<1>2. h \in Surjection(1 .. n, ToSet(rs))
  BY <1>1 DEF Surjection
<1>3. IsFiniteSet(1 .. n) /\ Cardinality(1 .. n) = n
  <2>1. IsFiniteSet(1 .. n) /\ Cardinality(1 .. n) = IF 1 > n THEN 0 ELSE n - 1 + 1
    BY FS_Interval
  <2> QED BY <2>1
<1>4. h \in Injection(1 .. n, ToSet(rs)) <=> \A i, j \in 1 .. n : rs[i] = rs[j] => i = j
  <2>1. h \in [1 .. n -> ToSet(rs)]
    BY <1>1
  <2>2. DOMAIN h = 1 .. n /\ \A i \in 1 .. n : h[i] = rs[i]
    OBVIOUS
  <2> HIDE DEF h
  <2> QED BY <2>1, <2>2 DEF Injection, IsInjective
<1> HIDE DEF h
<1>5. Cardinality(ToSet(rs)) = n <=> \A i, j \in 1 .. n : rs[i] = rs[j] => i = j
  BY <1>2, <1>3, <1>4, FS_Surjection
<1>6. Distinct(rs) <=> /\ \A i, j \in 1 .. n : rs[i] = rs[j] => i = j
                       /\ \A i, j \in 1 .. n : rs[i] # rs[j] => rs[i].attempt # rs[j].attempt
  BY DEF Distinct
<1> QED BY <1>1, <1>5, <1>6

\* The lineages of a node end at its terminal report, if it is settled.
LEMMA WhereLineagesEnd ==
  ASSUME NEW n \in Nat, NEW rs, DOMAIN rs = 1 .. n, Distinct(rs),
         NEW exp, IsFiniteSet(exp.nodes), UniqueIds(exp.nodes)
  PROVE  /\ \A id : EndingAt(AllLineages(exp, ToSet(rs)), id) # {} =>
               /\ id \in Ids(exp.nodes)
               /\ EndingAt(AllLineages(exp, ToSet(rs)), id) = {Terminal(rs, id)}
         /\ \A node \in exp.nodes :
               EndingAt(AllLineages(exp, ToSet(rs)), node.id) # {} <=> Settled(rs, node)
<1> DEFINE lineages == AllLineages(exp, ToSet(rs))
<1>1. \A c : c \in lineages <=> \E node \in exp.nodes : Lineage(node, ToSet(rs), c)
  BY DEF AllLineages, Lineage
<1>2. \A id : EndingAt(lineages, id) = {Last(c) : c \in {c \in lineages : Last(c).node = id}}
  BY DEF EndingAt
<1> HIDE DEF lineages
<1>3. ASSUME NEW id, NEW c \in lineages, Last(c).node = id
      PROVE  \E node \in exp.nodes : /\ node.id = id /\ Lineage(node, ToSet(rs), c)
                                     /\ Last(c) = Terminal(rs, id)
  <2>1. PICK node \in exp.nodes : Lineage(node, ToSet(rs), c)
    BY <1>1
  <2>2. Last(c) = Terminal(rs, node.id) /\ Last(c).node = node.id
    BY <2>1, SettledIsALineage
  <2> QED BY <1>3, <2>1, <2>2
<1>4. ASSUME NEW id, EndingAt(lineages, id) # {}
      PROVE  id \in Ids(exp.nodes) /\ EndingAt(lineages, id) = {Terminal(rs, id)}
  <2>1. \A c \in lineages : Last(c).node = id => id \in Ids(exp.nodes) /\ Last(c) = Terminal(rs, id)
    BY <1>3 DEF Ids
  <2> QED BY <1>2, <1>4, <2>1
<1>5. ASSUME NEW node \in exp.nodes
      PROVE  EndingAt(lineages, node.id) # {} <=> Settled(rs, node)
  <2>1. ASSUME EndingAt(lineages, node.id) # {} PROVE Settled(rs, node)
    <3>1. PICK c \in lineages : Last(c).node = node.id
      BY <1>2, <2>1
    <3>2. PICK m \in exp.nodes : m.id = node.id /\ Lineage(m, ToSet(rs), c)
      BY <1>3, <3>1
    <3>3. m = node
      <4>1. ExpectedNode(exp, node.id) = node /\ ExpectedNode(exp, m.id) = m
        BY ExpectedNodeIs
      <4> QED BY <3>2, <4>1
    <3>4. \E d : Lineage(node, ToSet(rs), d)
      BY <3>2, <3>3
    <3> QED BY <3>4, SettledIsALineage
  <2>2. ASSUME Settled(rs, node) PROVE EndingAt(lineages, node.id) # {}
    <3>1. PICK c : Lineage(node, ToSet(rs), c)
      BY <2>2, SettledIsALineage
    <3>2. c \in lineages /\ Last(c).node = node.id
      BY <1>1, <3>1, SettledIsALineage
    <3> QED BY <1>2, <3>2
  <2> QED BY <2>1, <2>2
<1> QED BY <1>4, <1>5 DEF lineages

\* One lineage each is what a settled run is.
LEMMA SettledIsOneLineageEach ==
  ASSUME NEW n \in Nat, NEW rs, DOMAIN rs = 1 .. n, NEW exp, IsFiniteSet(exp.nodes), NEW observed
  PROVE  SettledRun(exp, rs, observed) <=>
            Cardinality(ToSet(rs)) = n /\ OneLineageEach(exp, ToSet(rs), observed)
<1> DEFINE reports == ToSet(rs)
           lineages == AllLineages(exp, reports)
<1>1. OneLineageEach(exp, reports, observed) <=>
        /\ exp.nodes # {} /\ UniqueIds(exp.nodes) /\ UniqueIds(exp.edges)
        /\ \A r \in reports : ReportFindings(r) = {} /\ Joins(exp, r)
        /\ \A r, s \in reports : r # s => r.attempt # s.attempt
        /\ \A node \in exp.nodes : EndingAt(lineages, node.id) # {}
        /\ \A e \in exp.edges : /\ Cardinality(HandedAlong(lineages, e)) = 1
                                /\ HandedAlong(lineages, e) \subseteq observed
        /\ \A a \in observed : \E r \in reports : a \in r.ins \cup r.outs
  BY DEF OneLineageEach
<1>2. reports = {rs[i] : i \in DOMAIN rs}
  BY DEF ToSet
<1>3. Distinct(rs) <=> /\ Cardinality(reports) = n
                       /\ \A r, s \in reports : r # s => r.attempt # s.attempt
  BY DistinctReports
<1>4. ASSUME Distinct(rs), UniqueIds(exp.nodes), \A node \in exp.nodes : Settled(rs, node)
      PROVE  /\ \A node \in exp.nodes : EndingAt(lineages, node.id) # {}
             /\ \A e : /\ EdgeDone(exp, rs, observed, e) <=>
                             /\ Cardinality(HandedAlong(lineages, e)) = 1
                             /\ HandedAlong(lineages, e) \subseteq observed
  <2>1. \A id : EndingAt(lineages, id) # {} => /\ id \in Ids(exp.nodes)
                                               /\ EndingAt(lineages, id) = {Terminal(rs, id)}
    BY <1>4, WhereLineagesEnd
  <2>2. \A node \in exp.nodes : EndingAt(lineages, node.id) # {}
    BY <1>4, WhereLineagesEnd
  <2>3. \A id \in Ids(exp.nodes) : EndingAt(lineages, id) = {Terminal(rs, id)}
    BY <2>1, <2>2 DEF Ids
  <2>4. ASSUME NEW e
        PROVE  EdgeDone(exp, rs, observed, e) <=>
                  /\ Cardinality(HandedAlong(lineages, e)) = 1
                  /\ HandedAlong(lineages, e) \subseteq observed
    <3> HIDE DEF lineages
    <3>1. CASE {e.from, e.to} \subseteq Ids(exp.nodes)
      <4>1. HandedAlong(lineages, e) = Terminal(rs, e.from).outs \cap Terminal(rs, e.to).ins
        <5>1. PICK p, q : p = Terminal(rs, e.from) /\ q = Terminal(rs, e.to)
          OBVIOUS
        <5>2. EndingAt(lineages, e.from) = {p} /\ EndingAt(lineages, e.to) = {q}
          BY <2>3, <3>1, <5>1
        <5>3. (UNION {r.outs : r \in {p}}) = p.outs /\ (UNION {r.ins : r \in {q}}) = q.ins
          OBVIOUS
        <5>4. HandedAlong(lineages, e) = p.outs \cap q.ins
          BY <5>2, <5>3 DEF HandedAlong
        <5> QED BY <5>1, <5>4
      <4> QED BY <3>1, <4>1 DEF EdgeDone
    <3>2. CASE ~({e.from, e.to} \subseteq Ids(exp.nodes))
      <4>1. EndingAt(lineages, e.from) = {} \/ EndingAt(lineages, e.to) = {}
        BY <2>1, <3>2
      <4>2. HandedAlong(lineages, e) = {}
        BY <4>1 DEF HandedAlong
      <4>3. Cardinality(HandedAlong(lineages, e)) # 1
        BY <4>2, FS_EmptySet
      <4> QED BY <3>2, <4>3 DEF EdgeDone
    <3> QED BY <3>1, <3>2
  <2> QED BY <2>2, <2>4
<1>5. ASSUME Distinct(rs), UniqueIds(exp.nodes), \A node \in exp.nodes : EndingAt(lineages, node.id) # {}
      PROVE  \A node \in exp.nodes : Settled(rs, node)
  BY <1>5, WhereLineagesEnd
<1>6. (\A i \in DOMAIN rs : ReportFindings(rs[i]) = {} /\ Joins(exp, rs[i]))
      <=> \A r \in reports : ReportFindings(r) = {} /\ Joins(exp, r)
  BY <1>2
<1>7. (\A a \in observed : \E i \in DOMAIN rs : a \in rs[i].ins \cup rs[i].outs)
      <=> \A a \in observed : \E r \in reports : a \in r.ins \cup r.outs
  BY <1>2
<1> HIDE DEF reports, lineages
<1>8. SettledRun(exp, rs, observed) => Cardinality(reports) = n /\ OneLineageEach(exp, reports, observed)
  BY <1>1, <1>3, <1>4, <1>6, <1>7 DEF SettledRun
<1>9. Cardinality(reports) = n /\ OneLineageEach(exp, reports, observed) => SettledRun(exp, rs, observed)
  BY <1>1, <1>3, <1>4, <1>5, <1>6, <1>7 DEF SettledRun
<1> QED BY <1>8, <1>9 DEF reports

-----------------------------------------------------------------------------
(* The inductive invariant behind CompleteMeansOneLineage *)

\* The reports that the client sends are a vector of the length it has.
LEMMA LengthOfTheReports ==
  ASSUME InputInv
  PROVE  \E n \in Nat : DOMAIN TerminalReportsSent = 1 .. n /\ Len(TerminalReportsSent) = n
<1> DEFINE sent == {i \in DOMAIN records : records[i].kind = "report"}
           g(k) == records[CHOOSE i \in sent : Cardinality({j \in sent : j <= i}) = k].body
<1>1. PICK n \in Nat : DOMAIN TerminalReportsSent = 1 .. n
  BY ReportsAreAVector
<1>2. TerminalReportsSent = [k \in 1 .. Cardinality(sent) |-> g(k)]
  BY DEF TerminalReportsSent
<1>3. TerminalReportsSent = [k \in 1 .. n |-> TerminalReportsSent[k]]
  <2> HIDE DEF sent, g
  <2> QED BY <1>1, <1>2
<1> HIDE DEF sent, g
<1> PICK rs : rs = TerminalReportsSent
  OBVIOUS
<1>4. rs = [k \in 1 .. n |-> rs[k]]
  BY <1>3
<1>5. rs \in Seq({rs[k] : k \in 1 .. n}) /\ Len(rs) = n
  BY <1>4
<1> QED BY <1>1, <1>5

\* The inductive invariant behind CompleteMeansOneLineage
LineageInv == StageInv /\ CompleteMeansOneLineage

\* What the host says about completeness is what the reports say.
LEMMA StreamAnswersAreComplete ==
  ASSUME InputInv, ReconcileStreamingRun
  PROVE  CompleteMeansOneLineage'
<1>1. PICK exp \in GivenExpectations, X \in ResourceExpectations, believed \in {rev, 0} :
         IF believed # rev THEN Refuse("stream", {"stale_revision"})
         ELSE IF Acceptance(Case, Topology) = None
              THEN Refuse("stream", {"streaming_acceptance_refused"})
         ELSE AnswerIngested(Ingest(records), exp, X)
  BY DEF ReconcileStreamingRun
<1>2. ASSUME NEW codes, codes # {}, Refuse("stream", codes) PROVE CompleteMeansOneLineage'
  BY <1>2 DEF Refuse, CompleteMeansOneLineage, Answers
<1>3. CASE believed # rev \/ Acceptance(Case, Topology) = None
  BY <1>1, <1>2, <1>3
<1>4. CASE AnswerIngested(Ingest(records), exp, X)
  <2> DEFINE permits == Permits(Topology, X, Integrate(Topology, Ingest(records), X),
                                Acceptance(Case, Topology))
             findings == PermitFindings(Topology, X, Integrate(Topology, Ingest(records), X),
                                        Acceptance(Case, Topology))
             in == Ingest(records)
  <2> PICK q : q = StreamQuestion(in, exp, permits, Acceptance(Case, Topology))
    OBVIOUS
  <2>1. AnswerStream(q, X, findings)
    BY <1>4 DEF AnswerIngested, AnswerIntegrated
  <2>2. CASE findings # {}
    <3> HIDE DEF findings
    <3> QED BY <1>2, <2>1, <2>2 DEF AnswerStream
  <2>3. CASE findings = {}
    <3>1. answer'.q = q /\ answer'.result = ReconcileStream(q)
      <4> HIDE DEF findings
      <4> QED BY <2>1, <2>3 DEF AnswerStream
    <3>2. q.exp = exp /\ q.reports = TerminalReportsSent
      BY DEF StreamQuestion
    <3>3. PICK n \in Nat : DOMAIN q.reports = 1 .. n /\ Len(q.reports) = n
      BY <3>2, LengthOfTheReports
    <3>4. IsFiniteSet(q.exp.nodes)
      BY <3>2, GraphsAreFinite
    <3>5. ReconcileStream(q).completeness = ReconcileReports(q.exp, q.reports, q.observed)
      BY DEF ReconcileStream, ReconcileJoined, ReconcilePrefix, StreamReport
    <3>6. ReconcileReports(q.exp, q.reports, q.observed).complete
          <=> SettledRun(q.exp, q.reports, q.observed)
      BY <3>3, <3>4, CompleteIsSettled
    <3>7. SettledRun(q.exp, q.reports, q.observed)
          <=> /\ Cardinality(ToSet(q.reports)) = n
              /\ OneLineageEach(q.exp, ToSet(q.reports), q.observed)
      BY <3>3, <3>4, SettledIsOneLineageEach
    <3>8. ReconcileStream(q).completeness.complete
          <=> /\ Cardinality(ToSet(q.reports)) = Len(q.reports)
              /\ OneLineageEach(q.exp, ToSet(q.reports), q.observed)
      BY <3>3, <3>5, <3>6, <3>7
    <3> QED BY <3>1, <3>8 DEF CompleteMeansOneLineage
  <2> QED BY <2>2, <2>3
<1> QED BY <1>1, <1>3, <1>4

\* The first state holds the invariant.
LEMMA LineageInit == Init => LineageInv
BY StageInit DEF LineageInv, CompleteMeansOneLineage, Answers, Init

\* Every step, stuttering included, keeps it.
LEMMA LineageNext ==
  ASSUME LineageInv, [Next]_vars
  PROVE  LineageInv'
<1>1. StageInv /\ StageInv' /\ InputInv
  BY StageNext DEF LineageInv, StageInv
<1>2. CASE ReconcileStreamingRun
  BY <1>1, <1>2, StreamAnswersAreComplete DEF LineageInv
<1>3. CASE Next /\ ~ReconcileStreamingRun
  <2>1. ~Answers("stream")'
    BY <1>3, OtherStepsAnswerOthers
  <2> QED BY <1>1, <2>1 DEF LineageInv, CompleteMeansOneLineage
<1>4. CASE UNCHANGED vars
  <2>1. answer' = answer
    BY <1>4 DEF vars
  <2>2. CompleteMeansOneLineage'
    BY <2>1 DEF LineageInv, CompleteMeansOneLineage, Answers
  <2> QED BY <1>1, <2>2 DEF LineageInv
<1> QED BY <1>2, <1>3, <1>4

\* A run is reported complete exactly when its reports are one lineage per node,
\* for any expectation, reports and observed bytes, in whatever order the
\* reports arrived (reconcile_runtime_reports, src/runtime_protocol.rs).
THEOREM CompleteMeansOneLineageHolds == Spec => []CompleteMeansOneLineage
<1>1. LineageInv => CompleteMeansOneLineage
  BY DEF LineageInv
<1>2. LineageInv /\ [Next]_vars => LineageInv'
  BY LineageNext
<1> QED BY <1>1, <1>2, LineageInit, PTL DEF Spec

-----------------------------------------------------------------------------
(* Batches: what was ingested is what arrived *)

\* Nothing is wrong with a batch exactly when each of its records is sound and no
\* two contradict each other.
NoContradiction(arrived) ==
    /\ \A x \in arrived : RecordFindings(x) = {}
    /\ \A x, y \in arrived : SameId(x, y) => x = y

\* What is ingested of such a batch is all of it.
LEMMA IngestedIsArrived ==
  ASSUME NEW n \in Nat, NEW all, DOMAIN all = 1 .. n
  PROVE  /\ Ingest(all).findings = {} <=> NoContradiction(ToSet(all))
         /\ Ingest(all).findings = {} =>
               /\ Ingest(all).reports = BodiesOf("report", ToSet(all))
               /\ Ingest(all).allocations = BodiesOf("allocation", ToSet(all))
               /\ Ingest(all).artifacts = {x.id : x \in {x \in ToSet(all) : x.kind = "artifact"}}
<1> DEFINE found == [i \in DOMAIN all |-> RecordFindings(all[i])]
           admitted == {i \in DOMAIN all : found[i] = {}}
           kept == {all[i] : i \in {i \in admitted :
                       \A k \in admitted : SameId(all[k], all[i]) => i <= k}}
           colliding == {i \in admitted : all[i] \notin kept}
<1>1. /\ Ingest(all).findings = (UNION Range(found)) \cup {CollisionCode[all[i].kind] : i \in colliding}
      /\ Ingest(all).reports = BodiesOf("report", kept)
      /\ Ingest(all).allocations = BodiesOf("allocation", kept)
      /\ Ingest(all).artifacts = {x.id : x \in {x \in kept : x.kind = "artifact"}}
  BY DEF Ingest, BodiesOf
<1>2. ToSet(all) = {all[i] : i \in 1 .. n}
  BY DEF ToSet
<1>3. Range(found) = {RecordFindings(all[i]) : i \in 1 .. n}
  BY DEF Range
<1>4. (UNION Range(found)) = {} <=> \A x \in ToSet(all) : RecordFindings(x) = {}
  <2> HIDE DEF found
  <2> QED BY <1>2, <1>3
<1>5. Ingest(all).findings = {} <=> (UNION Range(found)) = {} /\ colliding = {}
  <2> HIDE DEF found, colliding
  <2> DEFINE codes == {CollisionCode[all[i].kind] : i \in colliding}
  <2>1. codes = {} <=> colliding = {}
    <3>1. \A i \in colliding : CollisionCode[all[i].kind] \in codes
      OBVIOUS
    <3>2. colliding = {} => codes = {}
      OBVIOUS
    <3> QED BY <3>1, <3>2
  <2>2. Ingest(all).findings = (UNION Range(found)) \cup codes
    BY <1>1
  <2> HIDE DEF codes
  <2> QED BY <2>1, <2>2
<1>6. kept \subseteq ToSet(all)
  BY <1>2
<1>7. ASSUME \A x \in ToSet(all) : RecordFindings(x) = {}
      PROVE  /\ kept = {all[i] : i \in {i \in 1 .. n : \A k \in 1 .. n : SameId(all[k], all[i]) => i <= k}}
             /\ colliding = {i \in 1 .. n : all[i] \notin kept}
  <2>1. admitted = 1 .. n
    BY <1>2, <1>7
  <2> HIDE DEF admitted
  <2> QED BY <2>1
<1> HIDE DEF found, kept, colliding
<1>8. ASSUME \A x \in ToSet(all) : RecordFindings(x) = {}, colliding = {}
      PROVE  kept = ToSet(all) /\ \A x, y \in ToSet(all) : SameId(x, y) => x = y
  <2>1. kept = ToSet(all)
    BY <1>2, <1>6, <1>7, <1>8
  <2>2. ASSUME NEW x \in ToSet(all), NEW y \in ToSet(all), SameId(x, y) PROVE x = y
    <3>1. PICK i \in 1 .. n : x = all[i] /\ \A k \in 1 .. n : SameId(all[k], all[i]) => i <= k
      BY <1>7, <1>8, <2>1
    <3>2. PICK j \in 1 .. n : y = all[j] /\ \A k \in 1 .. n : SameId(all[k], all[j]) => j <= k
      BY <1>7, <1>8, <2>1
    <3>3. SameId(all[i], all[j]) /\ SameId(all[j], all[i])
      BY <2>2, <3>1, <3>2 DEF SameId
    <3>4. i <= j /\ j <= i
      BY <3>1, <3>2, <3>3
    <3> QED BY <3>1, <3>2, <3>4
  <2> QED BY <2>1, <2>2
<1>9. ASSUME NoContradiction(ToSet(all)) PROVE colliding = {}
  <2>1. /\ \A x \in ToSet(all) : RecordFindings(x) = {}
        /\ \A x, y \in ToSet(all) : SameId(x, y) => x = y
    BY <1>9 DEF NoContradiction
  <2> SUFFICES ASSUME NEW i \in 1 .. n PROVE all[i] \in kept
    BY <1>7, <2>1
  <2> DEFINE S == {k \in 1 .. n : SameId(all[k], all[i])}
  <2>2. i \in S /\ S \subseteq 1 .. n
    BY DEF SameId
  <2>3. PICK m : m = Min(S)
    OBVIOUS
  <2>4. m \in S /\ \A k \in S : m <= k
    <3> HIDE DEF S
    <3> QED BY <2>2, <2>3, FirstPosition
  <2>5. m \in 1 .. n /\ SameId(all[m], all[i])
    BY <2>4
  <2>6. all[m] = all[i]
    BY <1>2, <2>1, <2>5
  <2>7. \A k \in 1 .. n : SameId(all[k], all[m]) => m <= k
    BY <2>4, <2>6
  <2> HIDE DEF S
  <2> QED BY <1>7, <2>1, <2>5, <2>6, <2>7
<1>10. Ingest(all).findings = {} <=> NoContradiction(ToSet(all))
  BY <1>4, <1>5, <1>8, <1>9 DEF NoContradiction
<1>11. Ingest(all).findings = {} => kept = ToSet(all)
  BY <1>4, <1>5, <1>8
<1> QED BY <1>1, <1>10, <1>11

\* The reports of the ingest map, in the order of their ids, are all of them.
LEMMA VectorOfReports ==
  ASSUME NEW S, IsFiniteSet(S), \A r \in S : r.id \in Int,
         \A r, s \in S : r.id = s.id => r = s
  PROVE  \E n \in Nat : /\ n = Cardinality(S) /\ DOMAIN ReportVector(S) = 1 .. n
                        /\ ToSet(ReportVector(S)) = S
<1> DEFINE upto(r) == {s \in S : s.id <= r.id}
           rank == [r \in S |-> Cardinality(upto(r))]
           rs == ReportVector(S)
<1>1. PICK n \in Nat : n = Cardinality(S)
  BY FS_CardinalityType
<1>2. DOMAIN rs = 1 .. n /\ \A k \in 1 .. n : rs[k] = CHOOSE r \in S : rank[r] = k
  <2>1. rs = [k \in 1 .. n |-> CHOOSE r \in S : Cardinality(upto(r)) = k]
    BY <1>1 DEF ReportVector
  <2>2. \A k : (CHOOSE r \in S : Cardinality(upto(r)) = k) = (CHOOSE r \in S : rank[r] = k)
    <3> TAKE k
    <3>1. \A r \in S : Cardinality(upto(r)) = k <=> rank[r] = k
      OBVIOUS
    <3> HIDE DEF upto, rank
    <3> QED BY <3>1
  <2> HIDE DEF rank, upto, rs
  <2> QED BY <2>1, <2>2
<1>3. ASSUME NEW r \in S PROVE IsFiniteSet(upto(r)) /\ rank[r] \in 1 .. n
  <2>1. upto(r) \subseteq S /\ r \in upto(r)
    OBVIOUS
  <2> HIDE DEF upto
  <2>2. IsFiniteSet(upto(r)) /\ Cardinality(upto(r)) <= n
    BY <1>1, <2>1, FS_Subset
  <2>3. PICK c \in Nat : c = Cardinality(upto(r))
    BY <2>2, FS_CardinalityType
  <2>4. c # 0
    BY <2>1, <2>2, <2>3, FS_EmptySet
  <2> QED BY <2>2, <2>3, <2>4
<1>4. ASSUME NEW r \in S, NEW s \in S, r.id < s.id PROVE rank[r] # rank[s]
  <2>1. upto(r) \subseteq upto(s) /\ s \in upto(s) /\ s \notin upto(r)
    BY <1>4
  <2>2. IsFiniteSet(upto(s))
    BY <1>3
  <2>3. rank[r] = Cardinality(upto(r)) /\ rank[s] = Cardinality(upto(s))
    OBVIOUS
  <2> HIDE DEF upto, rank
  <2>4. Cardinality(upto(s)) = Cardinality(upto(r)) => upto(s) = upto(r)
    BY <2>1, <2>2, FS_Subset
  <2> QED BY <2>1, <2>3, <2>4
<1>5. rank \in Injection(S, 1 .. n)
  <2>1. rank \in [S -> 1 .. n]
    BY <1>3
  <2>2. DOMAIN rank = S
    OBVIOUS
  <2> HIDE DEF rank
  <2>3. \A r, s \in S : rank[r] = rank[s] => r = s
    <3> SUFFICES ASSUME NEW r \in S, NEW s \in S, rank[r] = rank[s] PROVE r = s
      OBVIOUS
    <3>1. r.id \in Int /\ s.id \in Int /\ ~(r.id < s.id) /\ ~(s.id < r.id)
      BY <1>4
    <3> QED BY <3>1
  <2> QED BY <2>1, <2>2, <2>3 DEF Injection, IsInjective
<1> HIDE DEF rank, upto, rs
<1>6. rank \in Surjection(S, 1 .. n)
  <2>1. IsFiniteSet(1 .. n) /\ Cardinality(1 .. n) = n
    <3>1. IsFiniteSet(1 .. n) /\ Cardinality(1 .. n) = IF 1 > n THEN 0 ELSE n - 1 + 1
      BY FS_Interval
    <3> QED BY <3>1
  <2> QED BY <1>1, <1>5, <2>1, FS_Injection
<1>7. \A k \in 1 .. n : rs[k] \in S /\ rank[rs[k]] = k
  <2> TAKE k \in 1 .. n
  <2>1. \E r \in S : rank[r] = k
    BY <1>6 DEF Surjection
  <2> QED BY <1>2, <2>1
<1>8. \A r \in S : rank[r] \in 1 .. n /\ rs[rank[r]] = r
  <2> TAKE r \in S
  <2>1. rank[r] \in 1 .. n
    BY <1>3
  <2>2. rs[rank[r]] \in S /\ rank[rs[rank[r]]] = rank[r]
    BY <1>7, <2>1
  <2> QED BY <1>5, <2>1, <2>2 DEF Injection, IsInjective
<1>9. ToSet(rs) = S
  BY <1>2, <1>7, <1>8 DEF ToSet
<1> QED BY <1>1, <1>2, <1>9 DEF rs

-----------------------------------------------------------------------------
(* Resources: the runtime took what was granted *)

\* The allocations are those that the reservation grants, one for one.
ExactlyGranted(r, taken) ==
    /\ \A a \in taken : a.reservation = r.id /\ a.attempt = r.attempt /\ a.grant \in r.grants
    /\ \A a, b \in taken : a.grant = b.grant => a = b
    /\ r.grants \subseteq {a.grant : a \in taken}

\* A reconciliation is complete when its reservation is sound and just that was
\* taken.
LEMMA AllocationsMean ==
  ASSUME NEW d, NEW r, NEW as
  PROVE  ReconcileAllocations(d, r, as).complete
         <=> ReservationFindings(d, r) = {} /\ (\A a \in as : a.untrusted) /\ ExactlyGranted(r, as)
<1> DEFINE own == {a \in as : a.reservation = r.id /\ a.attempt = r.attempt}
           c == [invalid_allocation_trust_boundary |-> \E a \in as : ~a.untrusted,
                 allocation_join_mismatch |-> own # as,
                 unexpected_allocation |-> \E a \in own : a.grant \notin r.grants,
                 duplicate_allocation |-> \E a, b \in own : a # b /\ a.grant = b.grant,
                 missing_allocation |-> ~(r.grants \subseteq {a.grant : a \in own})]
<1>1. ReconcileAllocations(d, r, as).complete <=> ReservationFindings(d, r) \cup Codes(c) = {}
  BY DEF ReconcileAllocations
<1>2. Codes(c) = {} <=> \A k \in DOMAIN c : ~c[k]
  BY DEF Codes
<1>3. /\ DOMAIN c = {"invalid_allocation_trust_boundary", "allocation_join_mismatch",
                     "unexpected_allocation", "duplicate_allocation", "missing_allocation"}
      /\ c["invalid_allocation_trust_boundary"] = \E a \in as : ~a.untrusted
      /\ c["allocation_join_mismatch"] = (own # as)
      /\ c["unexpected_allocation"] = \E a \in own : a.grant \notin r.grants
      /\ c["duplicate_allocation"] = \E a, b \in own : a # b /\ a.grant = b.grant
      /\ c["missing_allocation"] = ~(r.grants \subseteq {a.grant : a \in own})
  <2> HIDE DEF own
  <2> QED OBVIOUS
<1> HIDE DEF c
<1>4. Codes(c) = {} <=> /\ ~\E a \in as : ~a.untrusted
                        /\ own = as
                        /\ ~\E a \in own : a.grant \notin r.grants
                        /\ ~\E a, b \in own : a # b /\ a.grant = b.grant
                        /\ r.grants \subseteq {a.grant : a \in own}
  <2> HIDE DEF own
  <2> QED BY <1>2, <1>3
<1>5. own = as <=> \A a \in as : a.reservation = r.id /\ a.attempt = r.attempt
  OBVIOUS
<1> HIDE DEF own
<1>6. Codes(c) = {} <=> (\A a \in as : a.untrusted) /\ ExactlyGranted(r, as)
  BY <1>4, <1>5 DEF ExactlyGranted
<1>7. ReservationFindings(d, r) \cup Codes(c) = {} <=> ReservationFindings(d, r) = {} /\ Codes(c) = {}
  OBVIOUS
<1> QED BY <1>1, <1>6, <1>7

\* A sound reservation grants what was declared.
LEMMA GrantedIsDeclared ==
  ASSUME NEW d, NEW r, ReservationFindings(d, r) = {}
  PROVE  DeclarationGrants(d) = r.grants
<1> DEFINE w == [declaration_join_mismatch |-> d.id # r.decl,
                 grant_declaration_mismatch |->
                    DeclarationGrants(d) # r.grants \/ Cardinality(r.grants) # Cardinality(d.claims),
                 noncanonical_resource_id |-> \E g \in r.grants : g.resource = Blank,
                 invalid_rate_limit_units |->
                    \E g \in r.grants : (g.group # None) # (g.units > 0)]
<1>1. Codes(w) = {}
  BY DEF ReservationFindings
<1>2. "grant_declaration_mismatch" \in DOMAIN w
  OBVIOUS
<1>3. ~w["grant_declaration_mismatch"]
  <2> HIDE DEF w
  <2> QED BY <1>1, <1>2 DEF Codes
<1> QED BY <1>3

\* A function from what was taken onto what was granted is the same as that.
LEMMA TookMeans ==
  ASSUME NEW x, NEW as
  PROVE  TookWhatWasGranted(x, as)
         <=> /\ ExactlyGranted(x.res, {a \in as : Consumed(x, a)})
             /\ x.res.grants = {GrantOf(k) : k \in NodeOf(Topology, x.decl.node).claims}
<1> DEFINE taken == {a \in as : Consumed(x, a)}
           G == x.res.grants
           Onto(f) == /\ IsInjective(f) /\ Range(f) = G
                      /\ \A a \in taken : f[a] = a.grant /\ a.attempt = x.res.attempt
                                          /\ a.reservation = x.res.id
<1>1. TookWhatWasGranted(x, as)
      <=> /\ \E f \in [taken -> G] : Onto(f)
          /\ x.res.grants = {GrantOf(k) : k \in NodeOf(Topology, x.decl.node).claims}
  BY DEF TookWhatWasGranted
<1> HIDE DEF taken
<1>2. ASSUME NEW f \in [taken -> G], Onto(f) PROVE ExactlyGranted(x.res, taken)
  <2>1. \A a \in taken : a.reservation = x.res.id /\ a.attempt = x.res.attempt /\ a.grant \in G
    BY <1>2
  <2>2. \A a, b \in taken : a.grant = b.grant => a = b
    BY <1>2 DEF IsInjective
  <2>3. G \subseteq {a.grant : a \in taken}
    BY <1>2 DEF Range
  <2> QED BY <2>1, <2>2, <2>3 DEF ExactlyGranted
<1>3. ASSUME ExactlyGranted(x.res, taken) PROVE \E f \in [taken -> G] : Onto(f)
  <2>1. /\ \A a \in taken : a.reservation = x.res.id /\ a.attempt = x.res.attempt /\ a.grant \in G
        /\ \A a, b \in taken : a.grant = b.grant => a = b
        /\ G \subseteq {a.grant : a \in taken}
    BY <1>3 DEF ExactlyGranted
  <2> HIDE DEF G
  <2> DEFINE f == [a \in taken |-> a.grant]
  <2>2. f \in [taken -> G] /\ \A a \in taken : f[a] = a.grant
    BY <2>1
  <2> HIDE DEF f
  <2>3. IsInjective(f)
    BY <2>1, <2>2 DEF IsInjective
  <2>4. Range(f) = G
    <3>1. Range(f) \subseteq G
      BY <2>2 DEF Range
    <3>2. ASSUME NEW g \in G PROVE g \in Range(f)
      <4>1. PICK a \in taken : a.grant = g
        BY <2>1
      <4> QED BY <2>2, <4>1 DEF Range
    <3> QED BY <3>1, <3>2
  <2> QED BY <2>1, <2>2, <2>3, <2>4
<1> HIDE DEF G, Onto
<1> QED BY <1>1, <1>2, <1>3 DEF taken

\* No finding about resources: the client's expectations fit the graph, and the
\* runtime took exactly what they grant.
LEMMA ResourcesMean ==
  ASSUME NEW in, NEW X
  PROVE  /\ ResourceFindings(Topology, in, X) = {}
            <=> /\ ExpectationsFit(X, in.reports)
                /\ \A x \in X : TookWhatWasGranted(x, in.allocations)
                /\ \A a \in in.allocations : a.untrusted /\ \E x \in X : Consumed(x, a)
         /\ ResourceFindings(Topology, in, X) = {} =>
               \A x \in X : ResourceReconciliation(x, in.allocations).complete
<1> DEFINE c == [duplicate_resource_expectation |-> \E x, y \in X : x # y /\ x.decl.node = y.decl.node,
                 missing_resource_expectation |->
                    \E n \in Topology.nodes : n.claims # {} /\ \A x \in X : x.decl.node # n.id,
                 resource_declaration_mismatch |->
                    \E x \in X : DeclarationFindings(Topology, x.decl) # {},
                 resource_attempt_report_mismatch |->
                    \E x \in X : \A r \in in.reports :
                       ~(r.node = x.decl.node /\ r.attempt = x.res.attempt),
                 resource_reconciliation_mismatch |->
                    \E x \in X : ~ResourceReconciliation(x, in.allocations).complete,
                 unaccounted_resource_allocation |->
                    \E a \in in.allocations : \A x \in X : ~Consumed(x, a)]
<1>1. ResourceFindings(Topology, in, X) = {} <=> \A k \in DOMAIN c : ~c[k]
  BY DEF ResourceFindings, Codes
<1>2. /\ DOMAIN c = {"duplicate_resource_expectation", "missing_resource_expectation",
                     "resource_declaration_mismatch", "resource_attempt_report_mismatch",
                     "resource_reconciliation_mismatch", "unaccounted_resource_allocation"}
      /\ ~c["duplicate_resource_expectation"] <=> \A x, y \in X : x.decl.node = y.decl.node => x = y
      /\ ~c["missing_resource_expectation"] <=>
            \A n \in Topology.nodes : n.claims # {} => \E x \in X : x.decl.node = n.id
      /\ ~c["resource_declaration_mismatch"] <=>
            \A x \in X : DeclarationFindings(Topology, x.decl) = {}
      /\ ~c["resource_attempt_report_mismatch"] <=>
            \A x \in X : \E r \in in.reports : r.node = x.decl.node /\ r.attempt = x.res.attempt
      /\ ~c["resource_reconciliation_mismatch"] <=>
            \A x \in X : ResourceReconciliation(x, in.allocations).complete
      /\ ~c["unaccounted_resource_allocation"] <=>
            \A a \in in.allocations : \E x \in X : Consumed(x, a)
  OBVIOUS
<1> HIDE DEF c
<1>3. ResourceFindings(Topology, in, X) = {} <=>
         /\ \A x, y \in X : x.decl.node = y.decl.node => x = y
         /\ \A n \in Topology.nodes : n.claims # {} => \E x \in X : x.decl.node = n.id
         /\ \A x \in X : DeclarationFindings(Topology, x.decl) = {}
         /\ \A x \in X : \E r \in in.reports : r.node = x.decl.node /\ r.attempt = x.res.attempt
         /\ \A x \in X : ResourceReconciliation(x, in.allocations).complete
         /\ \A a \in in.allocations : \E x \in X : Consumed(x, a)
  BY <1>1, <1>2
<1>4. ASSUME NEW x \in X
      PROVE  ResourceReconciliation(x, in.allocations).complete <=>
                /\ ReservationFindings(x.decl, x.res) = {}
                /\ \A a \in in.allocations : Consumed(x, a) => a.untrusted
                /\ ExactlyGranted(x.res, {a \in in.allocations : Consumed(x, a)})
  <2> DEFINE taken == {a \in in.allocations : Consumed(x, a)}
  <2>1. ResourceReconciliation(x, in.allocations) = ReconcileAllocations(x.decl, x.res, taken)
    BY DEF ResourceReconciliation
  <2>2. (\A a \in taken : a.untrusted) <=> \A a \in in.allocations : Consumed(x, a) => a.untrusted
    OBVIOUS
  <2> HIDE DEF taken
  <2>3. ReconcileAllocations(x.decl, x.res, taken).complete <=>
           /\ ReservationFindings(x.decl, x.res) = {}
           /\ \A a \in taken : a.untrusted
           /\ ExactlyGranted(x.res, taken)
    BY AllocationsMean
  <2> QED BY <2>1, <2>2, <2>3 DEF taken
<1>5. ASSUME NEW x \in X, DeclarationFindings(Topology, x.decl) = {},
             ReservationFindings(x.decl, x.res) = {}
      PROVE  TookWhatWasGranted(x, in.allocations)
             <=> ExactlyGranted(x.res, {a \in in.allocations : Consumed(x, a)})
  <2>1. x.res.grants = {GrantOf(k) : k \in NodeOf(Topology, x.decl.node).claims}
    BY <1>5, DeclaredClaims, GrantedIsDeclared DEF DeclarationGrants
  <2> QED BY <2>1, TookMeans
<1>6. ExpectationsFit(X, in.reports) <=>
         /\ \A x, y \in X : x.decl.node = y.decl.node => x = y
         /\ \A n \in Topology.nodes : n.claims # {} => \E x \in X : x.decl.node = n.id
         /\ \A x \in X : DeclarationFindings(Topology, x.decl) = {}
         /\ \A x \in X : ReservationFindings(x.decl, x.res) = {}
         /\ \A x \in X : \E r \in in.reports : r.node = x.decl.node /\ r.attempt = x.res.attempt
  BY DEF ExpectationsFit
<1>7. ASSUME \A x \in X : DeclarationFindings(Topology, x.decl) = {},
             \A a \in in.allocations : \E x \in X : Consumed(x, a)
      PROVE  (\A x \in X : ResourceReconciliation(x, in.allocations).complete)
             <=> /\ \A x \in X : ReservationFindings(x.decl, x.res) = {}
                 /\ \A x \in X : TookWhatWasGranted(x, in.allocations)
                 /\ \A a \in in.allocations : a.untrusted
  BY <1>4, <1>5, <1>7
<1> QED BY <1>3, <1>6, <1>7

-----------------------------------------------------------------------------
(* Integration *)

\* An integration is complete when its reports are and nothing was found.
LEMMA IntegrationMeans ==
  ASSUME NEW in, NEW X
  PROVE  Integrate(Topology, in, X).complete
         <=> /\ ReconcileReports(IntegrationExpectation(Topology), ReportVector(in.reports),
                                 in.artifacts).complete
             /\ in.findings = {} /\ ExpectationFindings(Topology) = {} /\ OutputFindings(in) = {}
             /\ ResourceFindings(Topology, in, X) = {} /\ LintErrors(Topology) = {}
<1> DEFINE completeness == ReconcileReports(IntegrationExpectation(Topology),
                                            ReportVector(in.reports), in.artifacts)
           rcs == {ResourceReconciliation(x, in.allocations) : x \in X}
           findings == IntegrationFindings(Topology, in, X)
<1>1. Integrate(Topology, in, X).complete
      <=> /\ completeness.complete
          /\ (\A rc \in rcs : rc.complete) /\ (\A k \in findings : ~IsResourceCode(k))
          /\ findings = {}
  BY DEF Integrate, IntegrationReport
<1> HIDE DEF completeness
<1>2. findings = {} <=>
         /\ in.findings = {} /\ ExpectationFindings(Topology) = {} /\ OutputFindings(in) = {}
         /\ ResourceFindings(Topology, in, X) = {} /\ LintErrors(Topology) = {}
  BY DEF IntegrationFindings
<1>3. ResourceFindings(Topology, in, X) = {} => \A rc \in rcs : rc.complete
  <2>1. ResourceFindings(Topology, in, X) = {} =>
           \A x \in X : ResourceReconciliation(x, in.allocations).complete
    BY ResourcesMean
  <2> QED BY <2>1
<1> HIDE DEF findings, rcs
<1> QED BY <1>1, <1>2, <1>3 DEF completeness

\* Where the observed artifacts are named by their bytes, nothing is found about
\* outputs exactly when each is observed.
LEMMA OutputsMean ==
  ASSUME NEW in, \A a \in in.artifacts : IsContentAddress(a)
  PROVE  OutputFindings(in) = {} <=> (UNION {r.outs : r \in in.reports}) \subseteq in.artifacts
<1> DEFINE outs == UNION {r.outs : r \in in.reports}
           c == [invalid_output_artifact_id |-> \E a \in outs : ~IsContentAddress(a),
                 missing_declared_artifact |->
                    \E a \in outs : IsContentAddress(a) /\ a \notin in.artifacts]
<1>1. OutputFindings(in) = {} <=> \A k \in DOMAIN c : ~c[k]
  BY DEF OutputFindings, Codes
<1> HIDE DEF outs
<1>2. /\ DOMAIN c = {"invalid_output_artifact_id", "missing_declared_artifact"}
      /\ ~c["invalid_output_artifact_id"] <=> \A a \in outs : IsContentAddress(a)
      /\ ~c["missing_declared_artifact"] <=>
            \A a \in outs : IsContentAddress(a) => a \in in.artifacts
  OBVIOUS
<1> HIDE DEF c
<1> QED BY <1>1, <1>2 DEF outs

\* A report record is named after its report.
ReportsNamed(arrived) ==
    \A x \in arrived : x.kind = "report" => x.body.id \in Int /\ x.id = [report |-> x.body.id]

\* The reports of a batch without contradictions make a vector of all of them.
LEMMA ArrivedVector ==
  ASSUME NEW n \in Nat, NEW all, DOMAIN all = 1 .. n, ReportsNamed(ToSet(all)),
         NoContradiction(ToSet(all))
  PROVE  \E m \in Nat :
            /\ m = Cardinality(BodiesOf("report", ToSet(all)))
            /\ DOMAIN ReportVector(BodiesOf("report", ToSet(all))) = 1 .. m
            /\ ToSet(ReportVector(BodiesOf("report", ToSet(all)))) = BodiesOf("report", ToSet(all))
<1> DEFINE arrived == ToSet(all)
           reps == {x \in arrived : x.kind = "report"}
           S == BodiesOf("report", arrived)
<1>1. S = {x.body : x \in reps}
  BY DEF BodiesOf
<1>2. IsFiniteSet(arrived)
  <2> DEFINE g == [i \in 1 .. n |-> all[i]]
  <2>1. g \in Surjection(1 .. n, arrived)
    BY DEF Surjection, ToSet
  <2>2. IsFiniteSet(1 .. n)
    BY FS_Interval
  <2> HIDE DEF g, arrived
  <2> QED BY <2>1, <2>2, FS_Surjection
<1>3. IsFiniteSet(S)
  <2> DEFINE g == [x \in reps |-> x.body]
  <2>1. reps \subseteq arrived
    OBVIOUS
  <2> HIDE DEF reps, arrived, S
  <2>2. g \in Surjection(reps, S)
    BY <1>1 DEF Surjection
  <2>3. IsFiniteSet(reps)
    BY <1>2, <2>1, FS_Subset
  <2> HIDE DEF g
  <2> QED BY <2>2, <2>3, FS_Surjection
<1>4. \A r \in S : r.id \in Int
  BY <1>1 DEF ReportsNamed
<1>5. ASSUME NEW r \in S, NEW s \in S, r.id = s.id PROVE r = s
  <2>1. PICK x \in reps : r = x.body
    BY <1>1
  <2>2. PICK y \in reps : s = y.body
    BY <1>1
  <2>3. x.id = y.id /\ x.kind = y.kind
    BY <1>5, <2>1, <2>2 DEF ReportsNamed
  <2>4. x = y
    BY <2>3 DEF NoContradiction, SameId
  <2> QED BY <2>1, <2>2, <2>4
<1> HIDE DEF S
<1> QED BY <1>3, <1>4, <1>5, VectorOfReports DEF S, arrived

\* The nodes that a topology makes a run expect are as many as it has.
LEMMA ExpectedNodesAreFinite == IsFiniteSet(GraphExpectation(Topology).nodes)
<1> DEFINE e(n) == [id |-> n.id, schema |-> (CHOOSE o \in n.out : TRUE).schema,
                    parents |-> {d.from : d \in InEdges(Topology, n.id)}]
           g == [n \in Topology.nodes |-> e(n)]
<1>1. GraphExpectation(Topology).nodes = {e(n) : n \in Topology.nodes}
  BY DEF GraphExpectation, EmptyExpectation
<1> HIDE DEF e
<1>2. g \in Surjection(Topology.nodes, GraphExpectation(Topology).nodes)
  BY <1>1 DEF Surjection
<1> HIDE DEF g
<1> QED BY <1>2, FS_Surjection, GraphsAreFinite

\* reconcile_run's answer about a batch is about what arrived.
LEMMA BatchMeans ==
  ASSUME NEW n \in Nat, NEW all, DOMAIN all = 1 .. n, ReportsNamed(ToSet(all)), NEW X
  PROVE  Integrate(Topology, Ingest(all), X).complete <=> WhatArrivedIsComplete(ToSet(all), X)
<1> DEFINE arrived == ToSet(all)
           reports == BodiesOf("report", arrived)
           allocations == BodiesOf("allocation", arrived)
           observed == {x.id : x \in {x \in arrived : x.kind = "artifact"}}
           exp == GraphExpectation(Topology)
<1> PICK in : in = Ingest(all)
  OBVIOUS
<1>1. WhatArrivedIsComplete(arrived, X) <=>
        /\ ExpectationFindings(Topology) = {} /\ LintErrors(Topology) = {}
        /\ NoContradiction(arrived)
        /\ OneLineageEach(exp, reports, observed)
        /\ (UNION {r.outs : r \in reports}) \subseteq observed
        /\ ExpectationsFit(X, reports)
        /\ \A x \in X : TookWhatWasGranted(x, allocations)
        /\ \A a \in allocations : a.untrusted /\ \E x \in X : Consumed(x, a)
  BY DEF WhatArrivedIsComplete, NoContradiction
<1>2. /\ in.findings = {} <=> NoContradiction(arrived)
      /\ in.findings = {} =>
            in.reports = reports /\ in.allocations = allocations /\ in.artifacts = observed
  BY IngestedIsArrived
<1>3. ASSUME NoContradiction(arrived) PROVE \A a \in observed : IsContentAddress(a)
  <2> SUFFICES ASSUME NEW x \in arrived, x.kind = "artifact" PROVE IsContentAddress(x.id)
    OBVIOUS
  <2>1. RecordFindings(x) = {}
    BY <1>3 DEF NoContradiction
  <2>2. RecordFindings(x) = IF Observes(x.id, x.body) THEN {} ELSE {"artifact_hash_mismatch"}
    BY DEF RecordFindings
  <2>3. x.id = [scheme |-> "sha256", of |-> x.body]
    BY <2>1, <2>2 DEF Observes, Address
  <2> QED BY <2>3 DEF IsContentAddress
<1>4. ASSUME NoContradiction(arrived), ExpectationFindings(Topology) = {}
      PROVE  ReconcileReports(IntegrationExpectation(Topology), ReportVector(reports), observed).complete
             <=> OneLineageEach(exp, reports, observed)
  <2>1. IntegrationExpectation(Topology) = exp
    BY <1>4 DEF IntegrationExpectation
  <2>2. PICK m \in Nat : /\ m = Cardinality(reports) /\ DOMAIN ReportVector(reports) = 1 .. m
                         /\ ToSet(ReportVector(reports)) = reports
    BY <1>4, ArrivedVector
  <2>3. IsFiniteSet(exp.nodes)
    BY ExpectedNodesAreFinite
  <2> HIDE DEF exp, reports, observed
  <2> PICK rs : rs = ReportVector(reports)
    OBVIOUS
  <2>4. ReconcileReports(exp, rs, observed).complete <=> SettledRun(exp, rs, observed)
    BY <2>2, <2>3, CompleteIsSettled
  <2>5. SettledRun(exp, rs, observed) <=>
           Cardinality(ToSet(rs)) = m /\ OneLineageEach(exp, ToSet(rs), observed)
    BY <2>2, <2>3, SettledIsOneLineageEach
  <2> QED BY <2>1, <2>2, <2>4, <2>5
<1> HIDE DEF arrived, reports, allocations, observed, exp
<1>5. Integrate(Topology, in, X).complete
      <=> /\ ReconcileReports(IntegrationExpectation(Topology), ReportVector(in.reports),
                              in.artifacts).complete
          /\ in.findings = {} /\ ExpectationFindings(Topology) = {} /\ OutputFindings(in) = {}
          /\ ResourceFindings(Topology, in, X) = {} /\ LintErrors(Topology) = {}
  BY IntegrationMeans
<1>6. CASE ~NoContradiction(arrived)
  BY <1>1, <1>2, <1>5, <1>6 DEF arrived
<1>7. CASE NoContradiction(arrived)
  <2>1. in.findings = {} /\ in.reports = reports /\ in.allocations = allocations /\ in.artifacts = observed
    BY <1>2, <1>7
  <2>2. OutputFindings(in) = {} <=> (UNION {r.outs : r \in reports}) \subseteq observed
    BY <1>3, <1>7, <2>1, OutputsMean
  <2>3. ResourceFindings(Topology, in, X) = {}
        <=> /\ ExpectationsFit(X, reports)
            /\ \A x \in X : TookWhatWasGranted(x, allocations)
            /\ \A a \in allocations : a.untrusted /\ \E x \in X : Consumed(x, a)
    BY <2>1, ResourcesMean
  <2>4. Integrate(Topology, in, X).complete <=> WhatArrivedIsComplete(arrived, X)
    BY <1>1, <1>4, <1>5, <1>7, <2>1, <2>2, <2>3
  <2> QED BY <2>4 DEF arrived
<1> QED BY <1>6, <1>7

-----------------------------------------------------------------------------
(* The inductive invariant behind RunAnswersAreTrue *)

\* In a settled lineage only the end succeeded.
LEMMA SuccessIsTerminal ==
  ASSUME NEW n \in Nat, NEW rs, DOMAIN rs = 1 .. n, Distinct(rs), NEW node, Settled(rs, node),
         NEW i \in OwnOf(rs, node.id), rs[i].status = "succeeded"
  PROVE  rs[i] = Terminal(rs, node.id)
<1>1. PICK c : Lineage(node, ToSet(rs), c)
  BY SettledIsALineage
<1>2. Last(c) = Terminal(rs, node.id)
  BY <1>1, SettledIsALineage
<1>3. c \in SetToSeqs(ReportsOf(rs, node.id)) /\ Retry(c)
  BY <1>1 DEF Lineage, ReportsOf
<1>4. PICK k \in Nat : \E f : IsChain(rs, OwnOf(rs, node.id), f, k) /\ Last(c) = rs[f[k]]
  BY <1>3, ReportsInAChain
<1>5. PICK f : IsChain(rs, OwnOf(rs, node.id), f, k) /\ Last(c) = rs[f[k]]
  BY <1>4
<1>6. PICK x \in 1 .. k : f[x] = i
  BY <1>5 DEF IsChain
<1>7. CASE x = k
  BY <1>2, <1>5, <1>6, <1>7
<1>8. CASE x # k
  <2>1. x + 1 \in 1 .. k /\ x + 1 # 1 /\ (x + 1) - 1 = x
    BY <1>8
  <2>2. rs[f[x]].status # "succeeded"
    <3>1. \A y \in 1 .. k : y # 1 => rs[f[y - 1]].status # "succeeded"
      BY <1>5 DEF IsChain
    <3> QED BY <2>1, <3>1
  <2> QED BY <1>6, <2>2
<1> QED BY <1>7, <1>8

\* The successful reports of a complete run are its terminal attempts.
LEMMA TerminalsAreNamed ==
  ASSUME NEW n \in Nat, NEW rs, DOMAIN rs = 1 .. n, NEW exp, IsFiniteSet(exp.nodes),
         NEW observed, ReconcileReports(exp, rs, observed).complete,
         NEW i \in DOMAIN rs, rs[i].status = "succeeded"
  PROVE  LET terminal == ReconcileReports(exp, rs, observed).terminal
         IN  rs[i].node \in DOMAIN terminal /\ terminal[rs[i].node] = rs[i].attempt
<1> DEFINE lineage == Lineages(exp, rs)
           ends == SingleEnds(rs, lineage)
           terminal == TerminalAttempts(exp, ends)
<1>1. ReconcileReports(exp, rs, observed).terminal = [m \in DOMAIN terminal |-> terminal[m].attempt]
  BY DEF ReconcileReports, ReconcileLineages, ReconcileEnds, Completeness
<1>2. /\ UniqueIds(exp.nodes) /\ Distinct(rs)
      /\ \A j \in DOMAIN rs : Joins(exp, rs[j])
      /\ \A node \in exp.nodes : Settled(rs, node)
  BY CompleteIsSettled DEF SettledRun
<1>3. PICK node \in exp.nodes : node.id = rs[i].node
  BY <1>2 DEF Joins, Ids
<1>4. Settled(rs, node) /\ i \in OwnOf(rs, node.id)
  BY <1>2, <1>3 DEF OwnOf
<1>5. rs[i] = Terminal(rs, node.id)
  BY <1>2, <1>4, SuccessIsTerminal
<1>6. /\ Cardinality(NodeLineage(rs, OwnOf(rs, node.id)).ends) = 1
      /\ IsSuccess(node, Terminal(rs, node.id))
  BY <1>4 DEF Settled
<1>7. node.id \in DOMAIN lineage
  <2>1. DOMAIN lineage = {rs[j].node : j \in DOMAIN rs}
    BY <1>2, LineagesOfAll
  <2> QED BY <1>3, <2>1
<1>8. /\ \A id \in DOMAIN terminal : terminal[id] = Terminal(rs, id)
      /\ node.id \in DOMAIN terminal
  BY <1>2, <1>6, <1>7, TerminalsOfAll
<1> HIDE DEF lineage, ends, terminal
<1> QED BY <1>1, <1>3, <1>5, <1>8

\* What a batch proposes is the output of a report that arrived and ended its
\* node's lineage.
LEMMA ProposalsMean ==
  ASSUME NEW n \in Nat, NEW all, DOMAIN all = 1 .. n, ReportsNamed(ToSet(all)), NEW X,
         NEW a \in Integrate(Topology, Ingest(all), X).proposals
  PROVE  LET terminal == Integrate(Topology, Ingest(all), X).completeness.terminal
         IN  \E i \in DOMAIN all : /\ all[i].kind = "report"
                                   /\ all[i].body.node \in DOMAIN terminal
                                   /\ terminal[all[i].body.node] = all[i].body.attempt
                                   /\ a \in all[i].body.outs
<1> DEFINE arrived == ToSet(all)
           reports == BodiesOf("report", arrived)
           exp == IntegrationExpectation(Topology)
<1> PICK in : in = Ingest(all)
  OBVIOUS
<1>1. /\ Integrate(Topology, in, X).completeness
           = ReconcileReports(exp, ReportVector(in.reports), in.artifacts)
      /\ Integrate(Topology, in, X).complete
      /\ a \in Proposals(in.reports, in.artifacts)
  BY DEF Integrate, IntegrationReport
<1>2. /\ ReconcileReports(exp, ReportVector(in.reports), in.artifacts).complete
      /\ in.findings = {} /\ ExpectationFindings(Topology) = {}
  BY <1>1, IntegrationMeans
<1>3. NoContradiction(arrived) /\ in.reports = reports
  BY <1>2, IngestedIsArrived
<1>4. IsFiniteSet(exp.nodes)
  BY <1>2, ExpectedNodesAreFinite DEF IntegrationExpectation
<1>5. PICK r \in reports : r.status = "succeeded" /\ a \in r.outs
  BY <1>1, <1>3 DEF Proposals
<1>6. PICK i \in DOMAIN all : all[i].kind = "report" /\ all[i].body = r
  BY <1>5 DEF BodiesOf, ToSet
<1>7. PICK m \in Nat : /\ m = Cardinality(reports) /\ DOMAIN ReportVector(reports) = 1 .. m
                       /\ ToSet(ReportVector(reports)) = reports
  BY <1>3, ArrivedVector
<1> HIDE DEF arrived, reports, exp
<1> PICK rs, observed : rs = ReportVector(in.reports) /\ observed = in.artifacts
  OBVIOUS
<1>8. PICK j \in DOMAIN rs : rs[j] = r
  BY <1>3, <1>5, <1>7 DEF ToSet
<1>9. LET terminal == ReconcileReports(exp, rs, observed).terminal
      IN  rs[j].node \in DOMAIN terminal /\ terminal[rs[j].node] = rs[j].attempt
  BY <1>2, <1>3, <1>4, <1>5, <1>7, <1>8, TerminalsAreNamed
<1> QED BY <1>1, <1>5, <1>6, <1>8, <1>9

\* The records that a client has are a sequence whose reports are named.
LEMMA RecordsAreNamed ==
  ASSUME InputInv
  PROVE  /\ Len(records) \in Nat /\ DOMAIN records = 1 .. Len(records)
         /\ ReportsNamed(ToSet(records))
<1>1. records \in Seq(Records)
  BY DEF InputInv
<1>2. \A x \in Records : x.kind = "report" => x.body.id \in Int /\ x.id = [report |-> x.body.id]
  BY ReportsAreNamed DEF Records
<1> QED BY <1>1, <1>2 DEF ReportsNamed, ToSet

\* So is what the host ingests with a bundle.
LEMMA BundledAreNamed ==
  ASSUME InputInv, NEW b \in Bundles
  PROVE  \E n \in Nat : /\ DOMAIN (records \o AllocationRecords(b)) = 1 .. n
                        /\ ReportsNamed(ToSet(records \o AllocationRecords(b)))
<1> DEFINE K == UNION {x.allocations : x \in b.entries}
           g == [k \in K |-> [kind |-> "allocation", id |-> [allocation |-> k.id], body |-> k]]
           S == {[kind |-> "allocation", id |-> [allocation |-> k.id], body |-> k] : k \in K}
<1>1. AllocationRecords(b) = SetToSeq(S)
  BY DEF AllocationRecords
<1>2. \A s \in S : s.kind = "allocation"
  OBVIOUS
<1>3. IsFiniteSet(S)
  <2>1. IsFiniteSet(K)
    BY BundlesAreFinite
  <2> HIDE DEF K
  <2>2. g \in Surjection(K, S)
    BY DEF Surjection
  <2> HIDE DEF g, S
  <2> QED BY <2>1, <2>2, FS_Surjection
<1> HIDE DEF S, K, g
<1>4. PICK m \in Nat : m = Cardinality(S)
  BY <1>3, SequenceOfProofs
<1> PICK q : q = SetToSeq(S)
  OBVIOUS
<1>5. DOMAIN q = 1 .. m /\ \A j \in 1 .. m : q[j] \in S
  BY <1>3, <1>4, SequenceOfProofs
<1>6. q \in Seq(S) /\ Len(q) = m
  <2>1. SetToSeq(S) \in [1 .. Cardinality(S) -> S]
    BY <1>3, SequenceOfProofs
  <2>2. q \in [1 .. m -> S]
    BY <1>4, <2>1, ZenonT(30)
  <2> QED BY <2>2
<1>7. PICK l \in Nat : l = Len(records) /\ DOMAIN records = 1 .. l
  BY RecordsAreNamed
<1>8. records \in Seq(Records) /\ ReportsNamed(ToSet(records))
  BY RecordsAreNamed DEF InputInv
<1> PICK all : all = records \o q
  OBVIOUS
<1>9. /\ DOMAIN all = 1 .. l + m
      /\ \A j \in 1 .. l + m : all[j] = IF j <= l THEN records[j] ELSE q[j - l]
  BY <1>6, <1>7, <1>8
<1>10. ReportsNamed(ToSet(all))
  <2> SUFFICES ASSUME NEW j \in 1 .. l + m, all[j].kind = "report"
               PROVE  all[j].body.id \in Int /\ all[j].id = [report |-> all[j].body.id]
    BY <1>9 DEF ReportsNamed, ToSet
  <2>1. CASE j <= l
    <3>1. j \in 1 .. l /\ all[j] = records[j]
      BY <1>9, <2>1
    <3> QED BY <1>7, <1>8, <3>1 DEF ReportsNamed, ToSet
  <2>2. CASE ~(j <= l)
    <3>1. j - l \in 1 .. m
      BY <2>2
    <3>2. all[j] = q[j - l]
      BY <1>9, <2>2
    <3>3. all[j].kind = "allocation"
      BY <1>2, <1>5, <3>1, <3>2
    <3> QED BY <3>3
  <2> QED BY <2>1, <2>2
<1>11. l + m \in Nat
  OBVIOUS
<1> QED BY <1>1, <1>9, <1>10, <1>11

\* reconcile_streaming_run says nothing about a batch.
LEMMA StreamIsNoRun ==
  ASSUME ReconcileStreamingRun
  PROVE  ~Answers("run")'
<1>1. ASSUME NEW codes, Refuse("stream", codes) PROVE answer'.tool = "stream"
  BY <1>1 DEF Refuse
<1>2. ASSUME NEW q, NEW X, NEW codes, AnswerStream(q, X, codes) PROVE answer'.tool = "stream"
  BY <1>1, <1>2 DEF AnswerStream
<1>3. ASSUME NEW exp, NEW X, AnswerIngested(Ingest(records), exp, X) PROVE answer'.tool = "stream"
  BY <1>2, <1>3 DEF AnswerIngested, AnswerIntegrated
<1>4. answer'.tool = "stream"
  BY <1>1, <1>3 DEF ReconcileStreamingRun
<1> QED BY <1>4 DEF Answers

\* The inductive invariant behind RunAnswersAreTrue
AnswerInv == StageInv /\ RunAnswersAreTrue

\* What the host answers about a batch is true of it.
LEMMA AnsweredIsTrue ==
  ASSUME NEW n \in Nat, NEW all, DOMAIN all = 1 .. n, ReportsNamed(ToSet(all)), NEW X,
         Answered(all, X)
  PROVE  RunAnswersAreTrue'
<1> PICK result : result = Integrate(Topology, Ingest(all), X)
  OBVIOUS
<1>1. answer'.records = all /\ answer'.expectations = X /\ answer'.result = result
  BY DEF Answered
<1>2. result.complete <=> WhatArrivedIsComplete(ToSet(all), X)
  BY BatchMeans
<1>3. ASSUME NEW a \in result.proposals
      PROVE  \E i \in DOMAIN all : /\ all[i].kind = "report"
                                   /\ all[i].body.node \in DOMAIN result.completeness.terminal
                                   /\ result.completeness.terminal[all[i].body.node] = all[i].body.attempt
                                   /\ a \in all[i].body.outs
  BY <1>3, ProposalsMean
<1>4. BatchIsWhatArrived'
  BY <1>1, <1>2 DEF BatchIsWhatArrived
<1>5. ProposalsAreTerminalOutputs'
  BY <1>1, <1>3 DEF ProposalsAreTerminalOutputs
<1> QED BY <1>4, <1>5 DEF RunAnswersAreTrue

\* So is every answer of reconcile_run.
LEMMA RunIsAnsweredTruly ==
  ASSUME InputInv, ReconcileRun
  PROVE  RunAnswersAreTrue'
<1>1. ASSUME NEW codes, codes # {}, Refuse("run", codes) PROVE RunAnswersAreTrue'
  <2>1. ~Answers("run")'
    BY <1>1 DEF Refuse, Answers
  <2> QED BY <2>1 DEF RunAnswersAreTrue, BatchIsWhatArrived, ProposalsAreTerminalOutputs
<1>2. CASE Answered(records, {})
  <2>1. /\ Len(records) \in Nat /\ DOMAIN records = 1 .. Len(records)
        /\ ReportsNamed(ToSet(records))
    BY RecordsAreNamed
  <2> QED BY <1>2, <2>1, AnsweredIsTrue
<1>3. ASSUME NEW b \in Bundles, Answered(records \o AllocationRecords(b), Expectations(b))
      PROVE  RunAnswersAreTrue'
  <2> PICK all : all = records \o AllocationRecords(b)
    OBVIOUS
  <2>1. PICK n \in Nat : DOMAIN all = 1 .. n /\ ReportsNamed(ToSet(all))
    BY BundledAreNamed
  <2> QED BY <1>3, <2>1, AnsweredIsTrue
<1>4. ASSUME NEW b \in Bundles, NEW believed \in {rev, 0},
             LET findings == BundleFindings(Topology, believed, b)
             IN  IF findings # {} THEN Refuse("run", findings)
                 ELSE IF JournalFindings(b) # {} THEN Refuse("run", JournalFindings(b))
                 ELSE Answered(records \o AllocationRecords(b), Expectations(b))
      PROVE  RunAnswersAreTrue'
  BY <1>1, <1>3, <1>4
<1> QED BY <1>2, <1>4 DEF ReconcileRun

\* The first state holds the invariant.
LEMMA AnswerInit == Init => AnswerInv
BY StageInit DEF AnswerInv, RunAnswersAreTrue, BatchIsWhatArrived, ProposalsAreTerminalOutputs,
                 Answers, Init

\* Every step, stuttering included, keeps it.
LEMMA AnswerNext ==
  ASSUME AnswerInv, [Next]_vars
  PROVE  AnswerInv'
<1>1. StageInv /\ StageInv' /\ InputInv
  BY StageNext DEF AnswerInv, StageInv
<1>2. CASE ReconcileRun
  BY <1>1, <1>2, RunIsAnsweredTruly DEF AnswerInv
<1>3. CASE ReconcileStreamingRun
  <2>1. ~Answers("run")'
    BY <1>3, StreamIsNoRun
  <2> QED BY <1>1, <2>1 DEF AnswerInv, RunAnswersAreTrue, BatchIsWhatArrived, ProposalsAreTerminalOutputs
<1>4. CASE Next /\ ~ReconcileRun /\ ~ReconcileStreamingRun
  <2>1. ~Answers("run")'
    BY <1>4, WhoAnswers DEF Answers
  <2> QED BY <1>1, <2>1 DEF AnswerInv, RunAnswersAreTrue, BatchIsWhatArrived, ProposalsAreTerminalOutputs
<1>5. CASE UNCHANGED vars
  <2>1. answer' = answer
    BY <1>5 DEF vars
  <2>2. BatchIsWhatArrived'
    BY <2>1 DEF AnswerInv, RunAnswersAreTrue, BatchIsWhatArrived, Answers
  <2>3. ProposalsAreTerminalOutputs'
    BY <2>1 DEF AnswerInv, RunAnswersAreTrue, ProposalsAreTerminalOutputs, Answers
  <2> QED BY <1>1, <2>2, <2>3 DEF AnswerInv, RunAnswersAreTrue
<1> QED BY <1>2, <1>3, <1>4, <1>5

\* What reconcile_run answers is true of what arrived, for any topology, batches,
\* repetitions, order and bundle: it is complete exactly when the batch is, and it
\* puts forward only what the end of a lineage produced (reconcile_run of
\* src/bin/casegraphen-mcp-host.rs, src/runtime_integration.rs).
THEOREM RunAnswersAreTrueHolds == Spec => []RunAnswersAreTrue
<1>1. AnswerInv => RunAnswersAreTrue
  BY DEF AnswerInv
<1>2. AnswerInv /\ [Next]_vars => AnswerInv'
  BY AnswerNext
<1> QED BY <1>1, <1>2, AnswerInit, PTL DEF Spec
=============================================================================
