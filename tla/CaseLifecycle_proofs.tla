------------------------ MODULE CaseLifecycle_proofs ------------------------
(***************************************************************************)
(* The authority over a case is the one its genesis granted.  The argument: *)
(* every command goes through the reducer of appends, which neither adds   *)
(* nor updates nor retires a capability cell, and leaves what it does not  *)
(* name as it is.                                                          *)
(***************************************************************************)
EXTENDS CaseLifecycle, TLAPS, WellFoundedInduction

\* Every cell is complete, so that a changed cell still is.
Typed(cs) == \A c \in DOMAIN cs : CellFields \subseteq DOMAIN cs[c]

\* The reducer keeps capability cells as they are, and makes no new ones.
LEMMA ReducerKeepsCapabilities ==
    ASSUME NEW ch, NEW entry, AppendMorphism(ch, entry), Typed(cells), Typed(ch.adds)
    PROVE  CapabilitiesIn(cells') = CapabilitiesIn(cells) /\ Typed(cells')
<1>1. /\ DOMAIN cells' = DOMAIN cells \cup DOMAIN ch.adds
      /\ \A c \in DOMAIN cells' :
            cells'[c] = IF c \in DOMAIN ch.adds THEN ch.adds[c]
                        ELSE IF c \in ch.retires THEN [cells[c] EXCEPT !.life = "retired"]
                        ELSE IF c \in SetCells(ch) THEN UpdatedCell(space, ch, c)
                        ELSE cells[c]
  BY DEF AppendMorphism, NextCells, space
<1>2. \A c \in DOMAIN cells : c \notin DOMAIN ch.adds
  BY DEF AppendMorphism, MorphismApplies, space
<1>3. \A c \in DOMAIN ch.adds : ~ IsCapability(ch.adds[c])
  BY DEF AppendMorphism, MorphismApplies, AddableCell
<1>4. \A c \in ch.retires : ~ IsCapability(cells[c])
  BY DEF AppendMorphism, MorphismApplies, RetirableCell, IsCapability, space
<1>5. \A c \in SetCells(ch) : ~ IsCapability(cells[c]) /\ ~ IsCapability(UpdatedCell(space, ch, c))
  BY DEF AppendMorphism, MorphismApplies, UpdatableCell, space
<1>6. \A c \in DOMAIN cells : DOMAIN UpdatedCell(space, ch, c) = DOMAIN cells[c]
  BY DEF UpdatedCell, space
<1>7. Typed(cells')
  <2> SUFFICES ASSUME NEW c \in DOMAIN cells' PROVE CellFields \subseteq DOMAIN cells'[c]
    BY DEF Typed
  <2>1. CASE c \in DOMAIN ch.adds
    BY <1>1, <2>1 DEF Typed
  <2>2. CASE c \notin DOMAIN ch.adds
    BY <1>1, <1>6, <2>2 DEF Typed
  <2> QED  BY <2>1, <2>2
<1>8. ASSUME NEW c \in DOMAIN cells, IsCapability(cells[c]) PROVE cells'[c] = cells[c]
  BY <1>1, <1>2, <1>4, <1>5, <1>8
<1>9. ASSUME NEW c \in DOMAIN cells', IsCapability(cells'[c])
      PROVE  c \in DOMAIN cells /\ IsCapability(cells[c])
  <2>1. c \notin DOMAIN ch.adds
    BY <1>1, <1>3, <1>9
  <2>2. c \notin ch.retires
    <3> SUFFICES ASSUME c \in ch.retires PROVE FALSE
      OBVIOUS
    <3>1. cells'[c] = [cells[c] EXCEPT !.life = "retired"]
      BY <1>1, <2>1
    <3>2. "type" \in DOMAIN cells[c]
      BY <1>1, <2>1 DEF Typed, CellFields
    <3>3. cells'[c].type = cells[c].type
      BY <3>1, <3>2
    <3> QED  BY <1>4, <1>9, <3>3 DEF IsCapability
  <2>3. c \notin SetCells(ch)
    BY <1>1, <1>5, <1>9, <2>1, <2>2
  <2> QED  BY <1>1, <1>9, <2>1, <2>2, <2>3
<1>10. CapabilitiesIn(cells') = CapabilitiesIn(cells)
  BY <1>1, <1>8, <1>9 DEF CapabilitiesIn, IsCapability
<1> QED  BY <1>7, <1>10

AuthorityInv == origin \in Cases /\ AuthorityIsGenesis /\ Typed(cells)

LEMMA AppendKeepsAuthority ==
    ASSUME NEW ch, NEW entry, AppendMorphism(ch, entry), UNCHANGED origin, AuthorityInv, Typed(ch.adds)
    PROVE  AuthorityInv'
  BY ReducerKeepsCapabilities DEF AuthorityInv, AuthorityIsGenesis, Typed

LEMMA NothingAdded == Typed(NoChange.adds)
  BY DEF Typed, NoChange

\* A change without cells of its own.
LEMMA UpdateAddsNothing ==
    ASSUME NEW sets PROVE Typed([NoChange EXCEPT !.type = "update", !.sets = sets].adds)
  BY NothingAdded DEF NoChange

LEMMA ReviewAddsNothing == Typed([NoChange EXCEPT !.type = "review"].adds)
  BY NothingAdded DEF NoChange

LEMMA ReviewKeepsAuthority ==
    ASSUME NEW entry, AppendReview(entry), UNCHANGED origin, AuthorityInv PROVE AuthorityInv'
  BY AppendKeepsAuthority, ReviewAddsNothing DEF AppendReview

LEMMA AttachAddsTypedCells ==
    ASSUME NEW batch, \A a \in batch : a.claim \in DOMAIN Inputs
    PROVE  Typed(AttachChange(batch).adds)
<1> DEFINE claims == {a.claim : a \in batch}
           files == (UNION {a.artifacts : a \in batch}) \ DOMAIN cells
           new == [x \in claims \cup files |->
                      IF x \in claims THEN EvidenceCell(x)
                      ELSE ArtifactCell(\E a \in batch : x \in a.artifacts /\ Inputs[a.claim].source)]
<1>1. AttachChange(batch).adds = new
  BY DEF AttachChange, NoChange
<1>2. \A x \in claims : CellFields \subseteq DOMAIN EvidenceCell(x)
  BY CellsAreComplete DEF EvidenceCell
<1>3. \A source : CellFields \subseteq DOMAIN ArtifactCell(source)
  BY DEF ArtifactCell, CellFields
<1>4. Typed(new)
  BY <1>2, <1>3 DEF Typed
<1> QED  BY <1>1, <1>4

LEMMA AttachKeepsAuthority ==
    ASSUME NEW actor, NEW batch, \A a \in batch : a.claim \in DOMAIN Inputs,
           EvidenceAttach(actor, batch), AuthorityInv
    PROVE  AuthorityInv'
  BY AttachAddsTypedCells, AppendKeepsAuthority DEF EvidenceAttach

\* A step that leaves the case space alone.
LEMMA UnchangedKeepsAuthority == ASSUME UNCHANGED <<origin, cells>>, AuthorityInv PROVE AuthorityInv'
  BY DEF AuthorityInv, AuthorityIsGenesis, Typed

\* No sequence of commands adds, changes, retires or relabels a capability cell
\* (apply_morphism and the rules it asks), for any genesis, inputs and changes.
THEOREM AuthorityIsGenesisHolds == Spec => []AuthorityIsGenesis
<1>1. Init => AuthorityInv
  BY CellsAreComplete DEF Init, AuthorityInv, AuthorityIsGenesis, Typed
<1>2. AuthorityInv /\ [Next]_vars => AuthorityInv'
  <2> SUFFICES ASSUME AuthorityInv, [Next]_vars PROVE AuthorityInv'
    OBVIOUS
  <2>1. ASSUME NEW actor \in Actors, NEW batch \in origin.batches, EvidenceAttach(actor, batch) PROVE AuthorityInv'
    BY <2>1, CellsAreComplete, AttachKeepsAuthority DEF AuthorityInv
  <2>2. ASSUME NEW actor \in Actors, NEW p \in origin.packets, PacketApply(actor, p) PROVE AuthorityInv'
    <3>1. \A a \in {PacketClaim(p)} : a.claim \in DOMAIN Inputs
      BY CellsAreComplete DEF PacketClaim, AuthorityInv
    <3> QED  BY <2>2, <3>1, AttachKeepsAuthority DEF PacketApply
  <2>3. ASSUME NEW actor \in Actors, NEW p \in origin.packets, NEW i \in DOMAIN log,
               PacketResume(actor, p, i)
        PROVE  AuthorityInv'
    BY <2>3, AppendKeepsAuthority, UpdateAddsNothing DEF PacketResume
  <2>4. ASSUME NEW actor \in Actors, NEW c \in DOMAIN cells, NEW life \in Lives,
               CellTransition(actor, c, life)
        PROVE  AuthorityInv'
    BY <2>4, AppendKeepsAuthority, UpdateAddsNothing DEF CellTransition
  <2>5. ASSUME NEW actor \in Actors, NEW t, NEW action, ReviewApply(actor, t, action) PROVE AuthorityInv'
    BY <2>5, ReviewKeepsAuthority DEF ReviewApply
  <2>6. ASSUME NEW m \in origin.changes, MorphismPropose(m) PROVE AuthorityInv'
    BY <2>6, UnchangedKeepsAuthority DEF MorphismPropose
  <2>7. ASSUME NEW actor \in Actors, NEW m \in origin.changes, MorphismApply(actor, m) PROVE AuthorityInv'
    <3>1. Typed(m.change.adds)
      BY CellsAreComplete DEF Typed, AuthorityInv
    <3> QED  BY <2>7, <3>1, AppendKeepsAuthority DEF MorphismApply
  <2>8. ASSUME NEW actor \in Actors, NEW m \in origin.changes, MorphismReject(actor, m) PROVE AuthorityInv'
    BY <2>8, ReviewKeepsAuthority DEF MorphismReject
  <2>9. ASSUME NEW actor \in Actors, NEW action, PlanReviewAppend(actor, action) PROVE AuthorityInv'
    BY <2>9, ReviewKeepsAuthority DEF PlanReviewAppend
  <2>10. ASSUME \/ \E content \in origin.plans : PlanPropose(content)
                \/ PlanReviewWrite
                \/ PlanReviewCrash
                \/ \E content \in origin.plans, status \in {"unreviewed", "accepted", "rejected"} :
                      EditPlanFile(content, status)
                \/ UNCHANGED vars
         PROVE  AuthorityInv'
    BY <2>10, UnchangedKeepsAuthority
       DEF PlanPropose, PlanReviewWrite, PlanReviewCrash, EditPlanFile, vars
  <2> QED
    BY <2>1, <2>2, <2>3, <2>4, <2>5, <2>6, <2>7, <2>8, <2>9, <2>10 DEF Next
<1>3. AuthorityInv => AuthorityIsGenesis
  BY DEF AuthorityInv
<1> QED  BY <1>1, <1>2, <1>3, PTL DEF Spec

---------------------------------------------------------------------------
(* The log as a record of what was done: which entry brought a cell, which  *)
(* review spoke of it, and in which order.                                  *)

\* The last of a set of positions of the log.
LEMMA MaxIsLast ==
    ASSUME NEW n \in Nat, NEW A \in SUBSET (1 .. n), A # {}
    PROVE  Max(A) \in A /\ \A j \in A : j <= Max(A)
<1> DEFINE R == {ss \in Nat \X Nat : ss[1] < ss[2]}
           T == {n - i : i \in A}
<1>1. IsWellFoundedOn(R, Nat)
  BY NatLessThanWellFounded DEF OpToRel
<1>2. T \subseteq Nat /\ T # {}
  <2>1. \A i \in A : n - i \in Nat
    OBVIOUS
  <2>2. PICK i \in A : TRUE
    OBVIOUS
  <2>3. n - i \in T
    BY <2>2
  <2> QED  BY <2>1, <2>3
<1>3. PICK x \in T : \A y \in T : ~ (<<y, x>> \in R)
  <2> HIDE DEF R, T
  <2> QED  BY <1>1, <1>2, WFMin
<1>4. PICK i \in A : x = n - i
  OBVIOUS
<1>5. ASSUME NEW j \in A PROVE i >= j
  <2>1. n - j \in T
    OBVIOUS
  <2>2. ~ (n - j < n - i)
    BY <1>2, <1>3, <1>4, <2>1
  <2> QED  BY <2>2
<1>6. Max(A) \in A /\ \A j \in A : Max(A) >= j
  BY <1>5 DEF Max
<1> QED  BY <1>6

\* A case that is being worked on: its log is a sequence that starts with its genesis.
LogIsLog == /\ \E S : log \in Seq(S)
            /\ Len(log) >= 1
            /\ log[1] = origin.genesis.log[1]

\* A cell comes with exactly one entry.
AddedOnce ==
    /\ \A c \in DOMAIN cells : \E j \in 1 .. Len(log) : c \in log[j].added
    /\ \A j \in 1 .. Len(log) : log[j].added \subseteq DOMAIN cells
    /\ \A i, j \in 1 .. Len(log) : \A c : c \in log[i].added /\ c \in log[j].added => i = j

\* What evidence covers is told by the entry that brings it.
CoverageComesWithEvidence ==
    \A j \in 1 .. Len(log) :
        log[j].type = "evidence_attach" => \A r \in log[j].addedRels : r.from \in log[j].added

\* A review of evidence comes after the evidence.
ReviewedAfterwards ==
    \A i \in 1 .. Len(log) : \A e :
        log[i].kind = "evidence" /\ log[i].target = <<"cell", e>> =>
            \E j \in 1 .. i - 1 : e \in log[j].added

\* Canonical reviews are accepted reviews.
CanonicalIsReview ==
    \A i \in 1 .. Len(log) :
        log[i].canonical = TRUE =>
            log[i].type = "review" /\ log[i].status = "accepted"

\* Evidence keeps its boundary and its structure; later evidence starts out untrusted.
EvidenceKeepsBoundary ==
    \A e \in DOMAIN cells : cells[e].type = "evidence" =>
        \/ /\ e \in DOMAIN origin.genesis.cells
           /\ cells[e].boundary = origin.genesis.cells[e].boundary
           /\ cells[e].structure = origin.genesis.cells[e].structure
        \/ e \notin DOMAIN origin.genesis.cells /\ cells[e].boundary \in {"inferred", "worker_output"}

\* The entry of a packet's move, and the review it waited for.
PacketEntryOK(i) ==
    log[i].content # <<>> /\ log[i].type = "update" =>
        /\ log[i].content[3] \in 1 .. i - 1
        /\ log[i].content[2] \in log[log[i].content[3]].added
        /\ \E j \in log[i].content[3] + 1 .. i - 1 :
              /\ log[j].kind = "evidence" /\ log[j].target = <<"cell", log[i].content[2]>>
              /\ log[j].action = "accept"
              /\ \A k \in j + 1 .. i - 1 :
                    ~ (log[k].kind = "evidence" /\ log[k].target = <<"cell", log[i].content[2]>>)
PacketsInOrder == \A i \in 1 .. Len(log) : PacketEntryOK(i)

\* What a reviewed plan names is there; a plan is accepted or rejected.
PlansRefer ==
    \A i \in 1 .. Len(log) : log[i].kind = "plan" =>
        ReferencesExist(log[i].content) /\ log[i].action \in {"accept", "reject"}

CaseInv ==
    /\ origin \in Cases /\ Typed(cells) /\ LogIsLog /\ IdsExist(space)
    /\ AddedOnce /\ CoverageComesWithEvidence /\ ReviewedAfterwards /\ CanonicalIsReview
    /\ EvidenceKeepsBoundary /\ PacketsInOrder /\ PlansRefer

\* An append leaves every earlier entry where it is.
LEMMA LogGrows ==
    ASSUME LogIsLog, NEW entry, log' = Append(log, entry)
    PROVE  /\ Len(log) \in Nat /\ Len(log') = Len(log) + 1
           /\ log'[Len(log) + 1] = entry
           /\ \A i \in 1 .. Len(log) : log'[i] = log[i]
           /\ \E S : log' \in Seq(S)
<1>1. PICK S : log \in Seq(S)
  BY DEF LogIsLog
<1>2. log \in Seq(S \cup {entry}) /\ entry \in S \cup {entry}
  BY <1>1
<1> QED  BY <1>2

\* What a command's entry says is what it does.
EntryFits(ch, entry) ==
    /\ entry.added = DOMAIN ch.adds
    /\ entry.type = "evidence_attach" => \A r \in entry.addedRels : r.from \in entry.added
    /\ \A e : entry.kind = "evidence" /\ entry.target = <<"cell", e>> => e \in DOMAIN cells
    /\ entry.canonical = TRUE =>
          entry.type = "review" /\ entry.status = "accepted"
    /\ entry.kind = "plan" => ReferencesExist(entry.content) /\ entry.action \in {"accept", "reject"}
    /\ entry.content # <<>> /\ entry.type = "update" =>
          /\ entry.content[3] \in 1 .. Len(log)
          /\ entry.content[2] \in log[entry.content[3]].added
          /\ LatestEvidenceReviewStatus(space, entry.content[2]) = "accepted"

\* The reducer changes no evidence cell's boundary or structure, and lets new evidence in
\* only where it is not yet trusted.
LEMMA ReducerKeepsEvidence ==
    ASSUME NEW ch, NEW entry, AppendMorphism(ch, entry), UNCHANGED origin, Typed(cells), Typed(ch.adds),
           EvidenceKeepsBoundary, DOMAIN origin.genesis.cells \subseteq DOMAIN cells
    PROVE  /\ EvidenceKeepsBoundary' /\ Typed(cells')
           /\ DOMAIN cells' = DOMAIN cells \cup DOMAIN ch.adds
           /\ DOMAIN cells \cap DOMAIN ch.adds = {}
<1>1. /\ DOMAIN cells' = DOMAIN cells \cup DOMAIN ch.adds
      /\ \A c \in DOMAIN cells' :
            cells'[c] = IF c \in DOMAIN ch.adds THEN ch.adds[c]
                        ELSE IF c \in ch.retires THEN [cells[c] EXCEPT !.life = "retired"]
                        ELSE IF c \in SetCells(ch) THEN UpdatedCell(space, ch, c)
                        ELSE cells[c]
  BY DEF AppendMorphism, NextCells, space
<1>2. DOMAIN cells \cap DOMAIN ch.adds = {}
  BY DEF AppendMorphism, MorphismApplies, space
<1>3. \A c \in DOMAIN ch.adds : AddableCell(ch.type, ch.adds[c])
  BY DEF AppendMorphism, MorphismApplies
<1>4. \A c \in SetCells(ch) : UpdatableCell(cells[c], UpdatedCell(space, ch, c))
  BY DEF AppendMorphism, MorphismApplies, space
<1>5. Typed(cells')
  BY ReducerKeepsCapabilities
<1>6. ASSUME NEW e \in DOMAIN cells, cells'[e].type = "evidence"
      PROVE  /\ cells[e].type = "evidence"
             /\ cells'[e].boundary = cells[e].boundary /\ cells'[e].structure = cells[e].structure
  <2>1. e \notin DOMAIN ch.adds /\ e \in DOMAIN cells'
    BY <1>1, <1>2
  <2>2. CASE e \in ch.retires
    <3>1. cells'[e] = [cells[e] EXCEPT !.life = "retired"]
      BY <1>1, <2>1, <2>2
    <3>2. {"type", "boundary", "structure"} \subseteq DOMAIN cells[e]
      BY DEF Typed, CellFields
    <3> QED  BY <1>6, <3>1, <3>2
  <2>3. CASE e \notin ch.retires /\ e \in SetCells(ch)
    <3>1. cells'[e] = UpdatedCell(space, ch, e)
      BY <1>1, <2>1, <2>3
    <3> QED  BY <1>4, <1>6, <2>3, <3>1 DEF UpdatableCell
  <2>4. CASE e \notin ch.retires /\ e \notin SetCells(ch)
    BY <1>1, <1>6, <2>1, <2>4
  <2> QED  BY <2>2, <2>3, <2>4
<1>7. EvidenceKeepsBoundary'
  <2> SUFFICES ASSUME NEW e \in DOMAIN cells', cells'[e].type = "evidence"
               PROVE  \/ /\ e \in DOMAIN origin.genesis.cells
                         /\ cells'[e].boundary = origin.genesis.cells[e].boundary
                         /\ cells'[e].structure = origin.genesis.cells[e].structure
                      \/ /\ e \notin DOMAIN origin.genesis.cells
                         /\ cells'[e].boundary \in {"inferred", "worker_output"}
    BY DEF EvidenceKeepsBoundary
  <2>1. CASE e \in DOMAIN ch.adds
    BY <1>1, <1>2, <1>3, <2>1 DEF AddableCell
  <2>2. CASE e \in DOMAIN cells
    BY <1>6, <2>2 DEF EvidenceKeepsBoundary
  <2> QED  BY <1>1, <2>1, <2>2
<1> QED  BY <1>1, <1>2, <1>5, <1>7

\* A packet's move appended under a standing acceptance of the packet's claim is in order.
LEMMA StandingReview ==
    ASSUME LogIsLog, AddedOnce, ReviewedAfterwards, NEW e, NEW t \in 1 .. Len(log), e \in log[t].added,
           LatestEvidenceReviewStatus(space, e) = "accepted"
    PROVE  \E j \in t + 1 .. Len(log) :
              /\ log[j].kind = "evidence" /\ log[j].target = <<"cell", e>>
              /\ log[j].action = "accept" /\ IsCanonicalReview(log[j])
              /\ \A k \in j + 1 .. Len(log) : ~ (log[k].kind = "evidence" /\ log[k].target = <<"cell", e>>)
<1> DEFINE A == EvidenceReviews(space, e)
<1>1. Len(log) \in Nat /\ DOMAIN log = 1 .. Len(log)
  BY DEF LogIsLog
<1>2. A = {i \in 1 .. Len(log) : log[i].kind = "evidence" /\ log[i].target = <<"cell", e>>}
  BY <1>1 DEF EvidenceReviews, space
<1>3. A # {} /\ IsCanonicalReview(log[Max(A)]) /\ log[Max(A)].action = "accept"
  BY DEF LatestEvidenceReviewStatus, space
<1>4. A \in SUBSET (1 .. Len(log))
  BY <1>2
<1> HIDE DEF A
<1>5. Max(A) \in A /\ \A j \in A : j <= Max(A)
  BY <1>1, <1>3, <1>4, MaxIsLast
<1>6. PICK j : j = Max(A)
  OBVIOUS
<1>7. j \in 1 .. Len(log) /\ log[j].kind = "evidence" /\ log[j].target = <<"cell", e>>
  BY <1>2, <1>5, <1>6
<1>8. PICK b \in 1 .. j - 1 : e \in log[b].added
  BY <1>7 DEF ReviewedAfterwards
<1>9. b = t
  BY <1>1, <1>7, <1>8 DEF AddedOnce
<1>10. j \in t + 1 .. Len(log)
  BY <1>1, <1>7, <1>8, <1>9
<1>11. ASSUME NEW k \in j + 1 .. Len(log), log[k].kind = "evidence" /\ log[k].target = <<"cell", e>>
       PROVE  FALSE
  <2>1. k \in 1 .. Len(log)
    BY <1>1, <1>7
  <2>2. k \in A
    BY <1>2, <1>11, <2>1
  <2>3. k <= j
    BY <1>5, <1>6, <2>2
  <2> QED  BY <1>1, <1>7, <2>3
<1> QED  BY <1>3, <1>6, <1>7, <1>10, <1>11

\* The one way into the log keeps the record in order, whatever the command.
LEMMA AppendKeepsCase ==
    ASSUME NEW ch, NEW entry, AppendMorphism(ch, entry), UNCHANGED origin, CaseInv,
           Typed(ch.adds), EntryFits(ch, entry)
    PROVE  CaseInv'
<1> USE DEF CaseInv
<1> DEFINE n == Len(log)
<1>1. /\ n \in Nat /\ n >= 1 /\ Len(log') = n + 1
      /\ log'[n + 1] = entry
      /\ \A i \in 1 .. n : log'[i] = log[i]
      /\ \E S : log' \in Seq(S)
  BY LogGrows DEF AppendMorphism, LogIsLog
<1>2. \A i : i \in 1 .. Len(log') <=> i \in 1 .. n \/ i = n + 1
  BY <1>1
<1>3. n + 1 \notin 1 .. n /\ 1 \in 1 .. n
  BY <1>1
<1> HIDE DEF n
<1>4. LogIsLog'
  BY <1>1, <1>3 DEF LogIsLog, n
<1>5. IdsExist(space)'
  BY DEF AppendMorphism, Evaluable, IdsExist, space
<1>6. DOMAIN origin.genesis.cells \subseteq DOMAIN cells
  BY <1>3, GenesisIsWhole DEF AddedOnce, LogIsLog, n
<1>7. /\ EvidenceKeepsBoundary' /\ Typed(cells')
      /\ DOMAIN cells' = DOMAIN cells \cup DOMAIN ch.adds
      /\ DOMAIN cells \cap DOMAIN ch.adds = {}
  BY <1>6, ReducerKeepsEvidence
<1>8. entry.added = DOMAIN ch.adds
  BY DEF EntryFits
<1>9. AddedOnce'
  <2>1. \A c \in DOMAIN cells' : \E j \in 1 .. Len(log') : c \in log'[j].added
    BY <1>1, <1>2, <1>7, <1>8 DEF AddedOnce, n
  <2>2. \A j \in 1 .. Len(log') : log'[j].added \subseteq DOMAIN cells'
    BY <1>1, <1>2, <1>7, <1>8 DEF AddedOnce, n
  <2>3. \A i, j \in 1 .. Len(log') : \A c : c \in log'[i].added /\ c \in log'[j].added => i = j
    <3> SUFFICES ASSUME NEW i \in 1 .. Len(log'), NEW j \in 1 .. Len(log'), NEW c,
                        c \in log'[i].added, c \in log'[j].added
                 PROVE  i = j
      OBVIOUS
    <3>1. CASE i \in 1 .. n /\ j \in 1 .. n
      BY <1>1, <3>1 DEF AddedOnce, n
    <3>2. CASE i = n + 1 /\ j \in 1 .. n
      BY <1>1, <1>7, <1>8, <3>2 DEF AddedOnce, n
    <3>3. CASE i \in 1 .. n /\ j = n + 1
      BY <1>1, <1>7, <1>8, <3>3 DEF AddedOnce, n
    <3> QED  BY <1>2, <3>1, <3>2, <3>3
  <2> QED  BY <2>1, <2>2, <2>3 DEF AddedOnce
<1>10. CoverageComesWithEvidence'
  BY <1>1, <1>2 DEF CoverageComesWithEvidence, EntryFits, n
<1>11. ReviewedAfterwards'
  <2> SUFFICES ASSUME NEW i \in 1 .. Len(log'), NEW e,
                      log'[i].kind = "evidence", log'[i].target = <<"cell", e>>
               PROVE  \E j \in 1 .. i - 1 : e \in log'[j].added
    BY DEF ReviewedAfterwards
  <2>1. CASE i \in 1 .. n
    <3>1. PICK j \in 1 .. i - 1 : e \in log[j].added
      BY <1>1, <2>1 DEF ReviewedAfterwards, n
    <3>2. j \in 1 .. n
      BY <1>1, <2>1
    <3> QED  BY <1>1, <3>1, <3>2
  <2>2. CASE i = n + 1
    <3>1. e \in DOMAIN cells
      BY <1>1, <2>2 DEF EntryFits
    <3>2. PICK j \in 1 .. n : e \in log[j].added
      BY <3>1 DEF AddedOnce, n
    <3>3. j \in 1 .. i - 1
      BY <1>1, <2>2
    <3> QED  BY <1>1, <3>2, <3>3
  <2> QED  BY <1>2, <2>1, <2>2
<1>12. CanonicalIsReview'
  BY <1>1, <1>2 DEF CanonicalIsReview, EntryFits, n
<1>13. PlansRefer'
  <2> SUFFICES ASSUME NEW i \in 1 .. Len(log'), log'[i].kind = "plan", NEW x, x = log'[i].content
               PROVE  x.work \cup x.requirements \subseteq DOMAIN cells' /\ log'[i].action \in {"accept", "reject"}
    BY DEF PlansRefer, ReferencesExist
  <2>1. x.work \cup x.requirements \subseteq DOMAIN cells /\ log'[i].action \in {"accept", "reject"}
    <3>1. CASE i \in 1 .. n
      BY <1>1, <3>1 DEF PlansRefer, ReferencesExist, n
    <3>2. CASE i = n + 1
      BY <1>1, <3>2 DEF EntryFits, ReferencesExist
    <3> QED  BY <1>2, <3>1, <3>2
  <2> QED  BY <1>7, <2>1
<1>14. PacketsInOrder'
  <2> SUFFICES ASSUME NEW i \in 1 .. Len(log') PROVE PacketEntryOK(i)'
    BY DEF PacketsInOrder
  <2> SUFFICES ASSUME log'[i].content # <<>>, log'[i].type = "update", NEW x, x = log'[i].content
               PROVE  /\ x[3] \in 1 .. i - 1
                      /\ x[2] \in log'[x[3]].added
                      /\ \E j \in x[3] + 1 .. i - 1 :
                            /\ log'[j].kind = "evidence" /\ log'[j].target = <<"cell", x[2]>>
                            /\ log'[j].action = "accept"
                            /\ \A k \in j + 1 .. i - 1 :
                                 ~ (log'[k].kind = "evidence" /\ log'[k].target = <<"cell", x[2]>>)
    BY DEF PacketEntryOK
  <2>1. /\ x[3] \in 1 .. i - 1
        /\ x[2] \in log[x[3]].added
        /\ \E j \in x[3] + 1 .. i - 1 :
              /\ log[j].kind = "evidence" /\ log[j].target = <<"cell", x[2]>>
              /\ log[j].action = "accept"
              /\ \A k \in j + 1 .. i - 1 :
                    ~ (log[k].kind = "evidence" /\ log[k].target = <<"cell", x[2]>>)
    <3>1. CASE i \in 1 .. n
      <4>1. log'[i] = log[i] /\ PacketEntryOK(i)
        BY <1>1, <3>1 DEF PacketsInOrder, n
      <4> QED  BY <4>1 DEF PacketEntryOK
    <3>2. CASE i = n + 1
      <4>1. /\ x[3] \in 1 .. Len(log) /\ x[2] \in log[x[3]].added
            /\ LatestEvidenceReviewStatus(space, x[2]) = "accepted"
        BY <1>1, <3>2 DEF EntryFits
      <4>2. i - 1 = Len(log)
        BY <1>1, <3>2 DEF n
      <4>3. PICK t : t = x[3]
        OBVIOUS
      <4>4. PICK e : e = x[2]
        OBVIOUS
      <4>5. \E j \in t + 1 .. Len(log) :
              /\ log[j].kind = "evidence" /\ log[j].target = <<"cell", e>>
              /\ log[j].action = "accept" /\ IsCanonicalReview(log[j])
              /\ \A k \in j + 1 .. Len(log) : ~ (log[k].kind = "evidence" /\ log[k].target = <<"cell", e>>)
        BY <4>1, <4>3, <4>4, StandingReview
      <4> QED  BY <4>1, <4>2, <4>3, <4>4, <4>5
    <3> QED  BY <1>2, <3>1, <3>2
  <2>2. PICK t \in 1 .. i - 1 : t = x[3]
    BY <2>1
  <2>3. \A k \in 1 .. i - 1 : log'[k] = log[k]
    BY <1>1, <1>2
  <2>4. PICK j \in t + 1 .. i - 1 :
              /\ log[j].kind = "evidence" /\ log[j].target = <<"cell", x[2]>>
              /\ log[j].action = "accept"
              /\ \A k \in j + 1 .. i - 1 :
                    ~ (log[k].kind = "evidence" /\ log[k].target = <<"cell", x[2]>>)
    BY <2>1, <2>2
  <2>5. i \in Nat /\ t \in Nat /\ j \in Nat /\ j \in 1 .. i - 1
    BY <1>1, <1>2, <2>2, <2>4
  <2>6. \A k \in j + 1 .. i - 1 : k \in 1 .. i - 1
    BY <2>5
  <2> QED  BY <2>1, <2>2, <2>3, <2>4, <2>5, <2>6
<1> QED
  BY <1>4, <1>5, <1>7, <1>9, <1>10, <1>11, <1>12, <1>13, <1>14

\* The entries of commands that are not reviews.
LEMMA PlainEntryFits ==
    ASSUME NEW id, NEW actor, NEW ch, ch.type # "evidence_attach"
    PROVE  EntryFits(ch, Entry(id, ch, actor))
  BY DEF EntryFits, Entry

LEMMA ReviewEntryFits ==
    ASSUME NEW id, NEW kind, NEW target, NEW action, NEW canonical, NEW actor, NEW content,
           \A e : kind = "evidence" /\ target = <<"cell", e>> => e \in DOMAIN cells,
           kind = "plan" => ReferencesExist(content) /\ action \in {"accept", "reject"}
    PROVE  EntryFits([NoChange EXCEPT !.type = "review"],
                     ReviewEntry(id, kind, target, action, canonical, actor, content))
<1>1. PICK en : en = ReviewEntry(id, kind, target, action, canonical, actor, content)
  OBVIOUS
<1>2. /\ en.type = "review" /\ en.status = "accepted" /\ en.added = DOMAIN NoChange.adds
      /\ en.kind = kind /\ en.target = target /\ en.canonical = canonical /\ en.content = content
      /\ en.action = action
  BY <1>1 DEF ReviewEntry, Entry, NoChange
<1>3. [NoChange EXCEPT !.type = "review"].adds = NoChange.adds
  BY DEF NoChange
<1>4. EntryFits([NoChange EXCEPT !.type = "review"], en)
  BY <1>2, <1>3 DEF EntryFits
<1> QED  BY <1>1, <1>4

LEMMA ReviewKeepsCase ==
    ASSUME NEW entry, AppendReview(entry), UNCHANGED origin, CaseInv,
           EntryFits([NoChange EXCEPT !.type = "review"], entry)
    PROVE  CaseInv'
  BY AppendKeepsCase, ReviewAddsNothing DEF AppendReview

\* An attachment brings its claims, and what they cover, in one entry.
LEMMA AttachKeepsCase ==
    ASSUME NEW actor, NEW batch, \A a \in batch : a.claim \in DOMAIN Inputs,
           EvidenceAttach(actor, batch), CaseInv
    PROVE  CaseInv'
<1>1. PICK ch : ch = AttachChange(batch)
  OBVIOUS
<1>2. PICK entry : entry = Entry(Generated("attach"), ch, actor)
  OBVIOUS
<1>3. AppendMorphism(ch, entry) /\ UNCHANGED origin
  BY <1>1, <1>2 DEF EvidenceAttach
<1>4. ch.rels = UNION {ClaimRelations(a) : a \in batch} /\ ch.type = "evidence_attach"
  BY <1>1 DEF AttachChange, NoChange
<1>5. \A a \in batch : a.claim \in DOMAIN ch.adds
  BY <1>1 DEF AttachChange, NoChange
<1>6. \A a \in batch : \A r \in ClaimRelations(a) : r.from = a.claim
  BY DEF ClaimRelations
<1>7. EntryFits(ch, entry)
  <2>1. entry.added = DOMAIN ch.adds /\ entry.addedRels = ch.rels /\ entry.kind = "none"
        /\ entry.canonical = FALSE /\ entry.content = <<>>
    BY <1>2 DEF Entry
  <2>2. \A r \in entry.addedRels : r.from \in entry.added
    BY <1>4, <1>5, <1>6, <2>1
  <2> QED  BY <2>1, <2>2 DEF EntryFits
<1>8. Typed(ch.adds)
  BY <1>1, AttachAddsTypedCells
<1> QED  BY <1>3, <1>7, <1>8, AppendKeepsCase

\* A packet's move: its claim was attached by the entry it names, and stands accepted.
LEMMA ResumeKeepsCase ==
    ASSUME NEW actor, NEW p, NEW i, PacketResume(actor, p, i), CaseInv
    PROVE  CaseInv'
<1>1. PICK ch : ch = [NoChange EXCEPT !.type = "update", !.sets = {<<p.cell, "life", p.life>>}]
  OBVIOUS
<1>2. PICK entry : entry = [Entry(Generated("transition"), ch, actor)
                               EXCEPT !.content = <<"packet", p.claim, i>>]
  OBVIOUS
<1>3. AppendMorphism(ch, entry) /\ UNCHANGED origin
  BY <1>1, <1>2 DEF PacketResume
<1>4. /\ entry.added = DOMAIN ch.adds /\ entry.type = "update" /\ entry.kind = "none"
      /\ entry.canonical = FALSE /\ entry.content = <<"packet", p.claim, i>>
  BY <1>1, <1>2 DEF Entry, NoChange
<1>5. i \in 1 .. Len(log)
  BY DEF PacketResume, ResumableClaim, CaseInv, LogIsLog
<1>6. p.claim \in log[i].added /\ LatestEvidenceReviewStatus(space, p.claim) = "accepted"
  BY DEF PacketResume, ResumableClaim
<1>7. EntryFits(ch, entry)
  BY <1>4, <1>5, <1>6 DEF EntryFits
<1>8. Typed(ch.adds)
  BY <1>1, UpdateAddsNothing
<1> QED  BY <1>3, <1>7, <1>8, AppendKeepsCase

\* A review is of something that is there.
LEMMA ReviewApplyKeepsCase ==
    ASSUME NEW actor, NEW target, NEW action, ReviewApply(actor, target, action), CaseInv
    PROVE  CaseInv'
<1>1. PICK kind : kind = ReviewTargetKind(target)
  OBVIOUS
<1>2. kind # "refused" /\ UNCHANGED origin
  BY <1>1 DEF ReviewApply
<1>3. kind # "plan"
  BY <1>1, <1>2 DEF ReviewTargetKind
<1>4. ASSUME NEW e, kind = "evidence", target = <<"cell", e>> PROVE e \in DOMAIN cells
  BY <1>1, <1>4 DEF ReviewTargetKind
<1>5. PICK entry : entry = ReviewEntry(Generated("review"), kind, target, action, TRUE, actor, <<>>)
  OBVIOUS
<1>6. EntryFits([NoChange EXCEPT !.type = "review"], entry)
  BY <1>3, <1>4, <1>5, ReviewEntryFits
<1>7. AppendReview(entry)
  BY <1>1, <1>5 DEF ReviewApply
<1> QED  BY <1>2, <1>6, <1>7, ReviewKeepsCase

\* A step that leaves the case space alone.
LEMMA UnchangedKeepsCase == ASSUME UNCHANGED <<origin, cells, rels, log>>, CaseInv PROVE CaseInv'
<1> USE DEF CaseInv
<1>1. Typed(cells)' /\ IdsExist(space)' /\ LogIsLog' /\ AddedOnce' /\ CoverageComesWithEvidence'
  BY DEF Typed, IdsExist, space, LogIsLog, AddedOnce, CoverageComesWithEvidence
<1>2. ReviewedAfterwards' /\ CanonicalIsReview' /\ EvidenceKeepsBoundary' /\ PlansRefer'
  BY DEF ReviewedAfterwards, CanonicalIsReview, EvidenceKeepsBoundary, PlansRefer, ReferencesExist
<1>3. PacketsInOrder'
  BY DEF PacketsInOrder, PacketEntryOK
<1> QED  BY <1>1, <1>2, <1>3

\* The record of a case stays in order under every command.
THEOREM CaseInvHolds == Spec => []CaseInv
<1>1. Init => CaseInv
  <2> SUFFICES ASSUME Init PROVE CaseInv
    OBVIOUS
  <2>1. /\ origin \in Cases /\ cells = origin.genesis.cells /\ rels = origin.genesis.rels
        /\ log = origin.genesis.log
    BY DEF Init
  <2>2. PICK entry : entry = log[1]
    OBVIOUS
  <2>3. /\ log = <<entry>> /\ entry.type = "create" /\ entry.kind = "none" /\ entry.canonical = FALSE
        /\ entry.content = <<>> /\ entry.added = DOMAIN cells
        /\ \A r \in rels : {r.from, r.to} \subseteq DOMAIN cells
    BY <2>1, <2>2, GenesisIsWhole
  <2>4. log \in Seq({entry}) /\ Len(log) = 1 /\ log[1] = entry
    BY <2>3
  <2>5. \A i \in 1 .. Len(log) : i = 1 /\ log[i] = entry
    BY <2>4
  <2>6. LogIsLog
    BY <2>1, <2>4 DEF LogIsLog
  <2>7. Typed(cells) /\ IdsExist(space) /\ EvidenceKeepsBoundary
    BY <2>1, <2>3, CellsAreComplete DEF Typed, IdsExist, space, EvidenceKeepsBoundary
  <2>8. AddedOnce
    BY <2>3, <2>4, <2>5 DEF AddedOnce
  <2>9. CoverageComesWithEvidence /\ ReviewedAfterwards /\ CanonicalIsReview /\ PlansRefer /\ PacketsInOrder
    BY <2>3, <2>5 DEF CoverageComesWithEvidence, ReviewedAfterwards, CanonicalIsReview, PlansRefer,
                      PacketsInOrder, PacketEntryOK
  <2> QED  BY <2>1, <2>6, <2>7, <2>8, <2>9 DEF CaseInv
<1>2. CaseInv /\ [Next]_vars => CaseInv'
  <2> SUFFICES ASSUME CaseInv, [Next]_vars PROVE CaseInv'
    OBVIOUS
  <2>0. origin \in Cases
    BY DEF CaseInv
  <2>1. ASSUME NEW actor \in Actors, NEW batch \in origin.batches, EvidenceAttach(actor, batch) PROVE CaseInv'
    BY <2>0, <2>1, CellsAreComplete, AttachKeepsCase
  <2>2. ASSUME NEW actor \in Actors, NEW p \in origin.packets, PacketApply(actor, p) PROVE CaseInv'
    <3>1. \A a \in {PacketClaim(p)} : a.claim \in DOMAIN Inputs
      BY <2>0, CellsAreComplete DEF PacketClaim
    <3> QED  BY <2>2, <3>1, AttachKeepsCase DEF PacketApply
  <2>3. ASSUME NEW actor \in Actors, NEW p \in origin.packets, NEW i \in DOMAIN log,
               PacketResume(actor, p, i)
        PROVE  CaseInv'
    BY <2>3, ResumeKeepsCase
  <2>4. ASSUME NEW actor \in Actors, NEW c \in DOMAIN cells, NEW life \in Lives,
               CellTransition(actor, c, life)
        PROVE  CaseInv'
    <3>1. PICK ch : ch = [NoChange EXCEPT !.type = "update", !.sets = {<<c, "life", life>>}]
      OBVIOUS
    <3>2. ch.type = "update" /\ Typed(ch.adds)
      BY <3>1, UpdateAddsNothing DEF NoChange
    <3>3. AppendMorphism(ch, Entry(Generated("transition"), ch, actor)) /\ UNCHANGED origin
      BY <2>4, <3>1 DEF CellTransition
    <3>4. EntryFits(ch, Entry(Generated("transition"), ch, actor))
      BY <3>2, PlainEntryFits
    <3> QED  BY <3>2, <3>3, <3>4, AppendKeepsCase
  <2>5. ASSUME NEW actor \in Actors, NEW t, NEW action, ReviewApply(actor, t, action) PROVE CaseInv'
    BY <2>5, ReviewApplyKeepsCase
  <2>6. ASSUME NEW m \in origin.changes, MorphismPropose(m) PROVE CaseInv'
    BY <2>6, UnchangedKeepsCase DEF MorphismPropose
  <2>7. ASSUME NEW actor \in Actors, NEW m \in origin.changes, MorphismApply(actor, m) PROVE CaseInv'
    <3>1. Typed(m.change.adds)
      BY <2>0, CellsAreComplete DEF Typed
    <3>2. m.change.type # "evidence_attach"
      BY <2>7 DEF MorphismApply, ProposableMorphism, ReservedTypes
    <3>3. EntryFits(m.change, Entry(m.id, m.change, actor))
      BY <3>2, PlainEntryFits
    <3> QED  BY <2>7, <3>1, <3>3, AppendKeepsCase DEF MorphismApply
  <2>8. ASSUME NEW actor \in Actors, NEW m \in origin.changes, MorphismReject(actor, m) PROVE CaseInv'
    <3>1. EntryFits([NoChange EXCEPT !.type = "review"],
                    ReviewEntry(Generated("reject"), "morphism", <<"proposal", m.id>>, "reject",
                                FALSE, actor, <<>>))
      BY ReviewEntryFits
    <3> QED  BY <2>8, <3>1, ReviewKeepsCase DEF MorphismReject
  <2>9. ASSUME NEW actor \in Actors, NEW action \in {"accept", "reject"}, PlanReviewAppend(actor, action)
        PROVE  CaseInv'
    <3>1. EntryFits([NoChange EXCEPT !.type = "review"],
                    ReviewEntry(Generated("plan-review"), "plan", <<"plan">>, action, TRUE,
                                actor, plan.content))
      BY <2>9, ReviewEntryFits DEF PlanReviewAppend
    <3> QED  BY <2>9, <3>1, ReviewKeepsCase DEF PlanReviewAppend
  <2>10. ASSUME \/ \E content \in origin.plans : PlanPropose(content)
                \/ PlanReviewWrite
                \/ PlanReviewCrash
                \/ \E content \in origin.plans, status \in {"unreviewed", "accepted", "rejected"} :
                      EditPlanFile(content, status)
                \/ UNCHANGED vars
         PROVE  CaseInv'
    BY <2>10, UnchangedKeepsCase
       DEF PlanPropose, PlanReviewWrite, PlanReviewCrash, EditPlanFile, vars
  <2> QED
    BY <2>1, <2>2, <2>3, <2>4, <2>5, <2>6, <2>7, <2>8, <2>9, <2>10 DEF Next
<1> QED  BY <1>1, <1>2, PTL DEF Spec

---------------------------------------------------------------------------
(* What the record of a case shows.                                         *)

\* The two reducers accept the same changes of a space without dangling edges.
LEMMA SameVerdict ==
    ASSUME IdsExist(space), NEW ch
    PROVE  MorphismApplies(space, ch) <=> MorphismAppliesIndexed(space, ch)
<1>1. DOMAIN NextCells(space, ch) = DOMAIN cells \cup DOMAIN ch.adds
  BY DEF NextCells, space
<1>2. \A r \in rels : {r.from, r.to} \subseteq DOMAIN cells
  BY DEF IdsExist, space
<1>3. ASSUME MorphismApplies(space, ch) PROVE MorphismAppliesIndexed(space, ch)
  <2>1. \A r \in ch.relSets : r \in rels /\ r.id \in RelIds(rels)
    BY <1>3 DEF MorphismApplies, UpdatableRelation, RelIds, space
  <2>2. \A r \in ch.rels : r.id \in RelIds(ch.rels) /\ r.id \notin RelIds(rels) /\ r.id \notin ch.drops
    BY <1>3 DEF MorphismApplies, RelIds, space
  <2>3. \A r \in ch.rels : r \in NextRels(space, ch)
    BY <2>2 DEF NextRels
  <2>4. \A r \in ch.rels \cup ch.relSets : {r.from, r.to} \subseteq DOMAIN cells \cup DOMAIN ch.adds
    BY <1>1, <1>2, <1>3, <2>1, <2>3 DEF MorphismApplies
  <2> QED  BY <1>3, <2>1, <2>2, <2>4 DEF MorphismApplies, MorphismAppliesIndexed, space
<1>4. ASSUME MorphismAppliesIndexed(space, ch) PROVE MorphismApplies(space, ch)
  <2>1. RelIds(ch.rels) \cap RelIds(rels) = {} /\ DOMAIN ch.adds \cap DOMAIN cells = {}
    BY <1>4 DEF MorphismAppliesIndexed, RelIds, space
  <2>2. \A r \in NextRels(space, ch) : {r.from, r.to} \subseteq DOMAIN cells \cup DOMAIN ch.adds
    BY <1>2, <1>4 DEF MorphismAppliesIndexed, NextRels, space
  <2> QED  BY <1>1, <1>4, <2>1, <2>2 DEF MorphismApplies, MorphismAppliesIndexed, space
<1> QED  BY <1>3, <1>4

\* The reducer of appends (apply_morphism) and the reducer of replays
\* (apply_morphism_indexed) accept the same morphisms in every state a case can reach, for
\* any genesis and any changes: nothing is written that a reader refuses.
THEOREM ReducersAgreeHolds == Spec => []ReducersAgree
<1>1. CaseInv => ReducersAgree
  <2> SUFFICES ASSUME CaseInv, NEW m \in origin.changes
               PROVE  MorphismApplies(space, m.change) = MorphismAppliesIndexed(space, m.change)
    BY DEF ReducersAgree
  <2>1. MorphismApplies(space, m.change) <=> MorphismAppliesIndexed(space, m.change)
    BY SameVerdict DEF CaseInv
  <2>2. MorphismApplies(space, m.change) \in BOOLEAN /\ MorphismAppliesIndexed(space, m.change) \in BOOLEAN
    BY DEF MorphismApplies, MorphismAppliesIndexed
  <2> QED  BY <2>1, <2>2
<1> QED  BY <1>1, CaseInvHolds, PTL

\* A packet moves its cell, and a plan may be dispatched, only under the standing review of
\* exactly what the file held (packet resume, verified_plan_review_status): whoever edits
\* the files, and wherever a review dies between its append and its write.
THEOREM FilesAwaitTheirReviewHolds == Spec => []FilesAwaitTheirReview
<1>1. CaseInv => FilesAwaitTheirReview
  <2> SUFFICES ASSUME CaseInv PROVE FilesAwaitTheirReview
    OBVIOUS
  <2>1. Len(log) \in Nat /\ DOMAIN log = 1 .. Len(log)
    BY DEF CaseInv, LogIsLog
  <2>2. PacketsWaitForReview
    <3> SUFFICES ASSUME NEW i \in 1 .. Len(log), log[i].content # <<>>, log[i].type = "update"
                 PROVE  \E j \in log[i].content[3] + 1 .. i - 1 :
                           /\ log[i].content[2] \in log[log[i].content[3]].added
                           /\ log[j].kind = "evidence" /\ log[j].target = <<"cell", log[i].content[2]>>
                           /\ log[j].action = "accept"
                           /\ \A k \in j + 1 .. i - 1 :
                                 ~ (log[k].kind = "evidence" /\ log[k].target = <<"cell", log[i].content[2]>>)
      BY <2>1 DEF PacketsWaitForReview
    <3> QED  BY DEF CaseInv, PacketsInOrder, PacketEntryOK
  <2>3. AcceptedPlanIsReviewedPlan
    <3> SUFFICES ASSUME plan # NoPlan, VerifiedPlanReviewStatus = "accepted"
                 PROVE  \E i \in DOMAIN log :
                           /\ log[i].kind = "plan" /\ log[i].action = "accept" /\ log[i].content = plan.content
                           /\ \A k \in DOMAIN log : k > i => log[k].kind # "plan"
                           /\ ReferencesExist(plan.content)
      BY DEF AcceptedPlanIsReviewedPlan
    <3>1. PlanReviews # {}
      BY DEF VerifiedPlanReviewStatus
    <3>2. PlanReviews \in SUBSET (1 .. Len(log))
      BY <2>1 DEF PlanReviews
    <3>3. PICK i : i = Max(PlanReviews)
      OBVIOUS
    <3>4. i \in PlanReviews /\ \A k \in PlanReviews : k <= i
      BY <2>1, <3>1, <3>2, <3>3, MaxIsLast
    <3>5. log[i].content = plan.content /\ OutcomeOf(log[i].action) = "accepted" /\ log[i].kind = "plan"
      BY <3>1, <3>3, <3>4 DEF VerifiedPlanReviewStatus, PlanReviews
    <3>6. log[i].action = "accept"
      BY <3>2, <3>4, <3>5 DEF OutcomeOf, CaseInv, PlansRefer
    <3> QED  BY <2>1, <3>2, <3>4, <3>5, <3>6 DEF PlanReviews, CaseInv, PlansRefer
  <2> QED  BY <2>2, <2>3 DEF FilesAwaitTheirReview
<1> QED  BY <1>1, CaseInvHolds, PTL

\* Evidence that counts comes from the genesis and was never rejected, or its last review
\* is an acceptance that came after it.
Earned(e, j) ==
    \/ /\ e \in DOMAIN origin.genesis.cells
       /\ origin.genesis.cells[e].boundary \in {"source_backed", "review_promoted"}
       /\ \A i \in DOMAIN log : log[i].kind = "evidence" /\ log[i].target = <<"cell", e>>
                                => \E k \in DOMAIN log : k >= i /\ StandingAccept(e, k)
    \/ \E i \in DOMAIN log : i > j /\ StandingAccept(e, i)

LEMMA AcceptStands ==
    ASSUME CaseInv, NEW e, NEW j \in 1 .. Len(log), e \in log[j].added,
           LatestEvidenceReviewStatus(space, e) = "accepted"
    PROVE  \E i \in DOMAIN log : i > j /\ StandingAccept(e, i)
<1>1. Len(log) \in Nat /\ DOMAIN log = 1 .. Len(log)
  BY DEF CaseInv, LogIsLog
<1>2. PICK i \in j + 1 .. Len(log) :
              /\ log[i].kind = "evidence" /\ log[i].target = <<"cell", e>>
              /\ log[i].action = "accept" /\ IsCanonicalReview(log[i])
              /\ \A k \in i + 1 .. Len(log) : ~ (log[k].kind = "evidence" /\ log[k].target = <<"cell", e>>)
  BY StandingReview DEF CaseInv
<1>3. i \in DOMAIN log /\ i > j
  BY <1>1
<1>4. \A k \in DOMAIN log : k > i => k \in i + 1 .. Len(log)
  BY <1>1
<1>5. StandingAccept(e, i)
  BY <1>2, <1>3, <1>4 DEF StandingAccept, IsCanonicalReview
<1> QED  BY <1>3, <1>5

LEMMA TrustIsEarned ==
    ASSUME CaseInv, NEW e \in TrustedEvidence(space), NEW j \in 1 .. Len(log), e \in log[j].added
    PROVE  Earned(e, j)
<1>1. Len(log) \in Nat /\ DOMAIN log = 1 .. Len(log)
  BY DEF CaseInv, LogIsLog
<1>2. /\ e \in DOMAIN cells /\ cells[e].type = "evidence"
      /\ EvidenceIsAcceptable(cells[e], LatestEvidenceReviewStatus(space, e))
  BY DEF TrustedEvidence, CellsOf, space
<1>3. CASE LatestEvidenceReviewStatus(space, e) = "accepted"
  BY <1>3, AcceptStands DEF Earned
<1>4. CASE LatestEvidenceReviewStatus(space, e) # "accepted"
  <2>1. cells[e].boundary \in {"source_backed", "review_promoted"}
    BY <1>2, <1>4 DEF EvidenceIsAcceptable
  <2>2. /\ e \in DOMAIN origin.genesis.cells
        /\ origin.genesis.cells[e].boundary \in {"source_backed", "review_promoted"}
    BY <1>2, <2>1 DEF CaseInv, EvidenceKeepsBoundary
  <2>3. EvidenceReviews(space, e) = {}
    <3>1. LatestEvidenceReviewStatus(space, e) # "rejected"
      BY <1>2 DEF EvidenceIsAcceptable
    <3> QED  BY <1>4, <3>1 DEF LatestEvidenceReviewStatus
  <2>4. \A i \in DOMAIN log : ~ (log[i].kind = "evidence" /\ log[i].target = <<"cell", e>>)
    BY <2>3 DEF EvidenceReviews, space
  <2> QED  BY <2>2, <2>4 DEF Earned
<1> QED  BY <1>3, <1>4

\* What counts as covered was put on record with evidence that is trusted.
LEMMA CoverageIsRecorded ==
    ASSUME CaseInv, NEW t \in Context(space).covered
    PROVE  \E e \in TrustedEvidence(space), j \in 1 .. Len(log) : e \in log[j].added /\ Recorded(e, t, j)
<1>1. Len(log) \in Nat /\ DOMAIN log = 1 .. Len(log) /\ 1 \in 1 .. Len(log)
  BY DEF CaseInv, LogIsLog
<1>2. PICK e \in TrustedEvidence(space), q \in CanonicalCoverage(space) : q[1] = e /\ q[2] = t
  BY DEF Context
<1>3. CASE \E i \in {j \in DOMAIN log : j = 1 \/ log[j].type = "evidence_attach"} :
              \E r \in log[i].addedRels : r.type \in CoveringTypes /\ q = <<r.from, r.to>>
  <2>1. PICK i \in DOMAIN log :
              /\ i = 1 \/ log[i].type = "evidence_attach"
              /\ \E r \in log[i].addedRels : r.type \in CoveringTypes /\ q = <<r.from, r.to>>
    BY <1>3
  <2>2. PICK r \in log[i].addedRels : r.type \in CoveringTypes /\ q = <<r.from, r.to>>
    BY <2>1
  <2>3. r.from = e /\ r.to = t
    BY <1>2, <2>2
  <2>4. e \in log[i].added
    <3>1. CASE i = 1
      BY <2>2, <2>3, <3>1, GenesisIsWhole DEF CaseInv, LogIsLog
    <3>2. CASE log[i].type = "evidence_attach"
      BY <1>1, <2>2, <2>3, <3>2 DEF CaseInv, CoverageComesWithEvidence
    <3> QED  BY <2>1, <3>1, <3>2
  <2> QED  BY <1>1, <2>2, <2>3, <2>4 DEF Recorded
<1>4. CASE /\ q[1] \in log[1].added /\ cells[q[1]].type = "evidence" /\ q[2] \in log[1].added
           /\ q[2] \in cells[q[1]].structure
  <2>1. e \in DOMAIN cells
    BY <1>2 DEF TrustedEvidence, CellsOf, space
  <2>2. e \in DOMAIN origin.genesis.cells
    BY <1>2, <1>4, GenesisIsWhole DEF CaseInv, LogIsLog
  <2>3. cells[e].structure = origin.genesis.cells[e].structure
    BY <1>2, <1>4, <2>1, <2>2 DEF CaseInv, EvidenceKeepsBoundary
  <2> QED  BY <1>1, <1>2, <1>4, <2>3 DEF Recorded
<1>5. \/ \E i \in {j \in DOMAIN log : j = 1 \/ log[j].type = "evidence_attach"} :
              \E r \in log[i].addedRels : r.type \in CoveringTypes /\ q = <<r.from, r.to>>
      \/ /\ q[1] \in log[1].added /\ cells[q[1]].type = "evidence" /\ q[2] \in log[1].added
         /\ q[2] \in cells[q[1]].structure
  <2> DEFINE M == {j \in DOMAIN log : j = 1 \/ log[j].type = "evidence_attach"}
             C(i) == {<<r.from, r.to>> : r \in {x \in log[i].addedRels : x.type \in CoveringTypes}}
             P == {p \in {c \in log[1].added : cells[c].type = "evidence"} \X log[1].added :
                      p[2] \in cells[p[1]].structure}
  <2>1. CanonicalCoverage(space) = (UNION {C(i) : i \in M}) \cup P
    BY DEF CanonicalCoverage, space
  <2>2. ASSUME q \in UNION {C(i) : i \in M}
        PROVE  \E i \in M : \E r \in log[i].addedRels : r.type \in CoveringTypes /\ q = <<r.from, r.to>>
    <3>1. PICK i \in M : q \in C(i)
      BY <2>2
    <3> QED  BY <3>1
  <2>3. ASSUME q \in P
        PROVE  /\ q[1] \in log[1].added /\ cells[q[1]].type = "evidence" /\ q[2] \in log[1].added
               /\ q[2] \in cells[q[1]].structure
    BY <2>3
  <2>4. q \in UNION {C(i) : i \in M} \/ q \in P
    <3> HIDE DEF C, M, P
    <3> QED  BY <1>2, <2>1
  <2>5. CASE q \in UNION {C(i) : i \in M}
    BY <2>2, <2>5
  <2>6. CASE q \in P
    BY <2>3, <2>6
  <2> QED  BY <2>4, <2>5, <2>6, Zenon
<1> QED  BY <1>3, <1>4, <1>5

\* What counts as met rests on a review, for any cell and any requirement.
LEMMA MetRestsOnReview ==
    ASSUME CaseInv, NEW c, NEW q, TrustedEvidenceExists(Context(space), q, c)
    PROVE  RestsOnReview(c, q)
<1> SUFFICES \E e \in DOMAIN cells, j \in DOMAIN log :
               /\ (e = q /\ e \in log[j].added) \/ Recorded(e, q, j) \/ Recorded(e, c, j)
               /\ Earned(e, j)
  BY DEF RestsOnReview, Earned
<1>1. DOMAIN log = 1 .. Len(log)
  BY DEF CaseInv, LogIsLog
<1>2. TrustedEvidence(space) \subseteq DOMAIN cells
  BY DEF TrustedEvidence, CellsOf, space
<1>3. CASE q \in TrustedEvidence(space)
  <2>1. PICK j \in 1 .. Len(log) : q \in log[j].added
    BY <1>2, <1>3 DEF CaseInv, AddedOnce
  <2> QED  BY <1>1, <1>2, <1>3, <2>1, TrustIsEarned
<1>4. ASSUME NEW t \in Context(space).covered, t \in {q, c}
      PROVE  \E e \in DOMAIN cells, j \in DOMAIN log :
                (Recorded(e, q, j) \/ Recorded(e, c, j)) /\ Earned(e, j)
  <2>1. PICK e \in TrustedEvidence(space), j \in 1 .. Len(log) : e \in log[j].added /\ Recorded(e, t, j)
    BY CoverageIsRecorded
  <2> QED  BY <1>1, <1>2, <1>4, <2>1, TrustIsEarned
<1>5. q \in TrustedEvidence(space) \/ q \in Context(space).covered \/ c \in Context(space).covered
  BY DEF TrustedEvidenceExists, Context
<1> QED  BY <1>3, <1>4, <1>5

\* A hard evidence requirement counts as met only on evidence of the genesis that was never
\* rejected, or under an acceptance that came after the coverage was put on record: no edge,
\* update or attachment widens afterwards what was accepted (canonical_evidence_coverage,
\* evidence_is_acceptable and the reducer's rules for evidence cells).
THEOREM SatisfactionRestsOnReviewHolds == Spec => []SatisfactionRestsOnReview
<1>1. CaseInv => SatisfactionRestsOnReview
  BY MetRestsOnReview DEF SatisfactionRestsOnReview, EvidenceRequirementSatisfied
<1> QED  BY <1>1, CaseInvHolds, PTL

\* A case that may be closed leaves no evidence requirement undecided: each rests on
\* evidence under a standing review, or on a waiver that no later review took back
\* (evidence_requirement_blockers and target_has_action, which read the latest review).
THEOREM CloseRestsOnDecisionsHolds == Spec => []CloseRestsOnDecisions
<1>1. CaseInv => CloseRestsOnDecisions
  <2> DEFINE cx == Context(space)
  <2> SUFFICES ASSUME CaseInv, NEW actor \in Actors, Closeable(cx, CloseRequest(actor)),
                      NEW r \in rels, r.type = "requires_evidence"
               PROVE  \/ RestsOnReview(r.from, r.to)
                      \/ WaiverStands(<<"relation", r.id>>) \/ WaiverStands(<<"cell", r.to>>)
    BY DEF CloseRestsOnDecisions
  <2>1. DOMAIN log = 1 .. Len(log) /\ Len(log) \in Nat /\ cx.log = log /\ cx.rels = rels
    BY DEF CaseInv, LogIsLog, Context, space
  <2>2. ASSUME NEW t, TargetHasAction(cx, t, {"waive"}) PROVE WaiverStands(t)
    <3> DEFINE R == {i \in DOMAIN log : log[i].canonical /\ log[i].target = t}
    <3>1. CanonicalReviewsOf(cx, t) = R
      BY <2>1 DEF CanonicalReviewsOf, IsCanonicalReview, CaseInv, CanonicalIsReview
    <3>2. R # {} /\ log[Max(R)].action = "waive"
      BY <2>1, <2>2, <3>1 DEF TargetHasAction
    <3>3. R \in SUBSET (1 .. Len(log))
      BY <2>1
    <3> HIDE DEF R
    <3>4. Max(R) \in R /\ \A k \in R : k <= Max(R)
      BY <2>1, <3>2, <3>3, MaxIsLast
    <3>5. PICK i : i = Max(R)
      OBVIOUS
    <3>6. i \in R /\ log[i].action = "waive" /\ \A k \in R : k <= i
      BY <3>2, <3>4, <3>5
    <3>7. i \in 1 .. Len(log) /\ log[i].canonical /\ log[i].target = t
      BY <2>1, <3>6 DEF R
    <3>8. ASSUME NEW k \in 1 .. Len(log), k > i PROVE ~(log[k].canonical /\ log[k].target = t)
      <4>1. k \notin R
        BY <2>1, <3>6, <3>7, <3>8
      <4> QED  BY <2>1, <4>1 DEF R
    <3> QED  BY <2>1, <3>6, <3>7, <3>8 DEF WaiverStands
  <2>3. \/ TargetHasAction(cx, <<"relation", r.id>>, {"waive"})
        \/ TargetHasAction(cx, <<"cell", r.to>>, {"waive"})
        \/ TrustedEvidenceExists(cx, r.to, r.from)
    BY <2>1 DEF Closeable, EvidenceRequirementBlockers
  <2> QED  BY <2>2, <2>3, MetRestsOnReview
<1> QED  BY <1>1, CaseInvHolds, PTL

---------------------------------------------------------------------------
(* Halts name what clears them.                                             *)

\* The review that a halt asks for is the last word on its claim.
LEMMA AcceptanceIsLatest ==
    ASSUME NEW cs, NEW l, NEW S, l \in Seq(S), NEW e,
           NEW entry, entry.kind = "evidence", entry.target = <<"cell", e>>,
           IsCanonicalReview(entry), entry.action = "accept", cs.log = Append(l, entry)
    PROVE  LatestEvidenceReviewStatus(cs, e) = "accepted"
<1> DEFINE n == Len(l) + 1
           A == EvidenceReviews(cs, e)
<1>1. l \in Seq(S \cup {entry}) /\ entry \in S \cup {entry}
  OBVIOUS
<1>2. DOMAIN cs.log = 1 .. n /\ n \in Nat /\ n \in 1 .. n /\ cs.log[n] = entry
  BY <1>1
<1>3. n \in A /\ A \in SUBSET (1 .. n)
  BY <1>2 DEF EvidenceReviews
<1> HIDE DEF A, n
<1>4. Max(A) \in A /\ \A j \in A : j <= Max(A)
  BY <1>2, <1>3, MaxIsLast
<1>5. Max(A) = n
  <2>1. PICK m \in 1 .. n : m = Max(A) /\ n <= m
    BY <1>3, <1>4
  <2> QED  BY <1>2, <2>1
<1> QED  BY <1>2, <1>3, <1>5 DEF LatestEvidenceReviewStatus, A

\* What Accepted appends.
LEMMA AcceptedLog ==
    ASSUME NEW cs, cs = [cells |-> cs.cells, rels |-> cs.rels, log |-> cs.log], NEW S, cs.log \in Seq(S), NEW e
    PROVE  /\ Accepted(cs, e).cells = cs.cells /\ Accepted(cs, e).rels = cs.rels
           /\ LatestEvidenceReviewStatus(Accepted(cs, e), e) = "accepted"
<1>1. PICK entry : entry = ReviewEntry(<<"ahead", e>>, "evidence", <<"cell", e>>, "accept", TRUE, "reviewer", <<>>)
  OBVIOUS
<1>2. /\ entry.kind = "evidence" /\ entry.target = <<"cell", e>>
      /\ IsCanonicalReview(entry) /\ entry.action = "accept"
  BY <1>1 DEF ReviewEntry, Entry, NoChange, IsCanonicalReview
<1>3. /\ Accepted(cs, e).cells = cs.cells /\ Accepted(cs, e).rels = cs.rels
      /\ Accepted(cs, e).log = Append(cs.log, entry)
  BY <1>1 DEF Accepted
<1>4. LatestEvidenceReviewStatus(Accepted(cs, e), e) = "accepted"
  BY <1>2, <1>3, AcceptanceIsLatest
<1> QED  BY <1>3, <1>4

\* An accepted claim awaits no review.
LEMMA AcceptanceClearsClaim ==
    ASSUME CaseInv, NEW e
    PROVE  e \notin ClaimReviewTargets(Context(Accepted(space, e)))
<1> DEFINE cs == Accepted(space, e)
           cx == Context(cs)
<1>1. PICK S : log \in Seq(S)
  BY DEF CaseInv, LogIsLog
<1>2. LatestEvidenceReviewStatus(cs, e) = "accepted"
  BY <1>1, AcceptedLog DEF space
<1>3. cx.log = cs.log
  BY DEF Context
<1> HIDE DEF cs
<1>4. LatestEvidenceReviewStatus(cx, e) = "accepted"
  BY <1>2, <1>3 DEF LatestEvidenceReviewStatus, EvidenceReviews
<1> HIDE DEF cx
<1>5. e \notin UnreviewedInferences(cx)
  BY <1>4 DEF UnreviewedInferences, EffectiveReviewStatus
<1>6. \A g \in ReviewGaps(cx) : g.type = "inference" => \E x \in UnreviewedInferences(cx) : g.target = <<"cell", x>>
  BY DEF ReviewGaps
<1>7. e \notin ClaimReviewTargets(cx)
  BY <1>5, <1>6 DEF ClaimReviewTargets
<1> QED  BY <1>7 DEF cx, cs

\* New evidence for a requirement, attached and accepted, covers the requirement.
LEMMA AttachedCovers ==
    ASSUME CaseInv, NewEvidence \notin DOMAIN cells, NEW q
    PROVE  q \in Context(AttachedFor(space, q)).covered
<1>1. PICK S : log \in Seq(S)
  BY DEF CaseInv, LogIsLog
<1>2. PICK e : e = NewEvidence
  OBVIOUS
<1>3. PICK cell : cell = [type |-> "evidence", life |-> "active", review |-> "unreviewed",
                          boundary |-> "inferred", source |-> TRUE, structure |-> {}]
  OBVIOUS
<1>4. PICK edge : edge = [id |-> <<"satisfies", e, q>>, type |-> "satisfies_evidence_requirement",
                          hard |-> FALSE, from |-> e, to |-> q]
  OBVIOUS
<1>5. PICK ch : ch = [NoChange EXCEPT !.type = "evidence_attach", !.adds = [x \in {e} |-> cell], !.rels = {edge}]
  OBVIOUS
<1>6. PICK entry : entry = Entry(<<"ahead", q>>, ch, "worker")
  OBVIOUS
<1>7. PICK cs : cs = [cells |-> NextCells(space, ch), rels |-> NextRels(space, ch), log |-> Append(log, entry)]
  OBVIOUS
<1>8. AttachedFor(space, q) = Accepted(cs, e)
  BY <1>2, <1>3, <1>4, <1>5, <1>6, <1>7 DEF AttachedFor, space
<1>9. entry.type = "evidence_attach" /\ entry.addedRels = {edge}
  BY <1>5, <1>6 DEF Entry, NoChange
<1>10. Append(log, entry) \in Seq(S \cup {entry})
  BY <1>1
<1>11. PICK cz : cz = Accepted(cs, e)
  OBVIOUS
<1>12. cz.cells = cs.cells /\ LatestEvidenceReviewStatus(cz, e) = "accepted"
  BY <1>7, <1>10, <1>11, AcceptedLog
<1>13. e \in DOMAIN cz.cells /\ cz.cells[e] = cell
  <2>1. ch.adds = [x \in {e} |-> cell]
    BY <1>5 DEF NoChange
  <2>2. DOMAIN ch.adds = {e} /\ ch.adds[e] = cell
    BY <2>1
  <2> QED  BY <1>7, <1>12, <2>2 DEF NextCells
<1>14. e \in TrustedEvidence(cz)
  BY <1>3, <1>12, <1>13 DEF TrustedEvidence, CellsOf, EvidenceIsAcceptable
<1>15. <<e, q>> \in CanonicalCoverage(cz)
  <2>1. PICK i : i = Len(log) + 1
    OBVIOUS
  <2>2. i \in DOMAIN cz.log /\ cz.log[i] = entry
    <3>1. PICK rv : cz.log = Append(cs.log, rv)
      BY <1>7, <1>11 DEF Accepted
    <3>2. log \in Seq(S \cup {entry, rv}) /\ entry \in S \cup {entry, rv} /\ rv \in S \cup {entry, rv}
      BY <1>1
    <3>3. cs.log = Append(log, entry)
      BY <1>7
    <3> QED  BY <2>1, <3>1, <3>2, <3>3
  <2>3. edge \in {r \in cz.log[i].addedRels : r.type \in CoveringTypes} /\ edge.from = e /\ edge.to = q
    BY <1>4, <1>9, <2>2 DEF CoveringTypes
  <2>4. <<e, q>> \in {<<r.from, r.to>> : r \in {x \in cz.log[i].addedRels : x.type \in CoveringTypes}}
    BY <2>3
  <2> QED  BY <1>9, <2>2, <2>4 DEF CanonicalCoverage
<1>16. q \in Context(cz).covered
  BY <1>14, <1>15 DEF Context
<1> QED  BY <1>8, <1>11, <1>16

\* What is covered is wanted by nobody: not as evidence, not as proof, not as an event.
LEMMA CoveredIsNotWanted ==
    ASSUME NEW cx, NEW q \in cx.covered, NEW o \in Obstructions(cx),
           TypeOf(o) \in {"missing_evidence", "missing_proof", "external_wait"}
    PROVE  WitnessOf(o) # q
<1>1. \A c : TrustedEvidenceExists(cx, q, c)
  BY DEF TrustedEvidenceExists
<1>2. PICK c \in Subjects(cx) : o \in ObstructionsOf(cx, c)
  BY DEF Obstructions
<1>3. CASE o \in EvidenceObstructions(cx, c)
  BY <1>1, <1>3 DEF EvidenceObstructions, EvidenceRequirementSatisfied, Obstruction, WitnessOf
<1>4. CASE o \in ProofObstructions(cx, c)
  BY <1>1, <1>4 DEF ProofObstructions, ProofRequirementSatisfied, Obstruction, WitnessOf
<1>5. CASE o \in WaitObstructions(cx, c)
  BY <1>1, <1>5 DEF WaitObstructions, WaitSatisfied, Obstruction, WitnessOf
<1>6. o \notin DependencyObstructions(cx, c)
  BY DEF DependencyObstructions, Obstruction, TypeOf
<1>7. o \notin ContradictionObstructions(cx, c)
  BY DEF ContradictionObstructions, Obstruction, TypeOf
<1>8. o \notin ReviewObstructions(cx, c)
  BY DEF ReviewObstructions, Obstruction, TypeOf
<1> QED  BY <1>2, <1>3, <1>4, <1>5, <1>6, <1>7, <1>8 DEF ObstructionsOf

\* A halt names something to do, and what it names for claims and evidence requirements
\* clears it (derive_halts and the operations it reports), for every case and every work.
THEOREM NamedOperationsClearHolds == Spec => []NamedOperationsClear
<1>1. CaseInv => NamedOperationsClear
  <2> SUFFICES ASSUME CaseInv PROVE NamedOperationsClear
    OBVIOUS
  <2>1. PICK cx : cx = Context(space)
    OBVIOUS
  <2>2. PICK work : work = Subjects(cx)
    OBVIOUS
  <2>3. CaseHalts(cx, work) = {n.halt : n \in NamedOperations(cx, work)}
    <3>1. PICK A, B, C, D : /\ A = ClaimReviewTargets(cx) /\ B = GateReviewTargets(cx, work)
                            /\ C = EvidenceTargets(cx, work) /\ D = WaitingTargets(cx, work)
      OBVIOUS
    <3> DEFINE Why(h) == \/ h = "needs_review" /\ (A # {} \/ B # {})
                         \/ h = "needs_evidence" /\ C # {}
                         \/ h = "needs_external" /\ D # {}
    <3>2. \A h : h \in CaseHalts(cx, work) <=> Why(h)
      <4>1. CaseHalts(cx, work) =
              {h \in {"needs_review", "needs_evidence", "needs_external"} :
                  CASE h = "needs_review"   -> A # {} \/ B # {}
                    [] h = "needs_evidence" -> C # {}
                    [] h = "needs_external" -> D # {}}
        BY <3>1 DEF CaseHalts, NeedsReview
      <4>2. "needs_review" \in CaseHalts(cx, work) <=> A # {} \/ B # {}
        BY <4>1
      <4>3. "needs_evidence" \in CaseHalts(cx, work) <=> C # {}
        BY <4>1
      <4>4. "needs_external" \in CaseHalts(cx, work) <=> D # {}
        BY <4>1
      <4>5. \A h \in CaseHalts(cx, work) : h \in {"needs_review", "needs_evidence", "needs_external"}
        BY <4>1
      <4> QED  BY <4>2, <4>3, <4>4, <4>5
    <3> DEFINE Op(h, o, t) == [halt |-> h, op |-> o, target |-> t]
    <3>3. /\ \A h, o, t : Op(h, o, t).halt = h
          /\ \A n : n \in NamedOperations(cx, work) <=>
                \/ \E t \in A : n = Op("needs_review", "review accept", t)
                \/ \E t \in B : n = Op("needs_review", "cell transition", t)
                \/ \E t \in C : n = Op("needs_evidence", "evidence attach", t)
                \/ \E t \in D : n = Op("needs_external", "review accept", t)
      <4>1. NamedOperations(cx, work) =
              {Op("needs_review", "review accept", t) : t \in A}
              \cup {Op("needs_review", "cell transition", t) : t \in B}
              \cup {Op("needs_evidence", "evidence attach", t) : t \in C}
              \cup {Op("needs_external", "review accept", t) : t \in D}
        BY <3>1 DEF NamedOperations
      <4>2. \A h, o, t : Op(h, o, t).halt = h
        OBVIOUS
      <4> HIDE DEF Op
      <4> QED  BY <4>1, <4>2
    <3> HIDE DEF Op
    <3>4. \A h : h \in {n.halt : n \in NamedOperations(cx, work)} <=> Why(h)
      <4>1. ASSUME NEW n \in NamedOperations(cx, work) PROVE Why(n.halt)
        <5>1. CASE \E t \in A : n = Op("needs_review", "review accept", t)
          <6>1. PICK t \in A : n = Op("needs_review", "review accept", t)
            BY <5>1
          <6>2. n.halt = "needs_review" /\ A # {}
            BY <6>1 DEF Op
          <6> QED  BY <6>2
        <5>2. CASE \E t \in B : n = Op("needs_review", "cell transition", t)
          <6>1. PICK t \in B : n = Op("needs_review", "cell transition", t)
            BY <5>2
          <6>2. n.halt = "needs_review" /\ B # {}
            BY <6>1 DEF Op
          <6> QED  BY <6>2
        <5>3. CASE \E t \in C : n = Op("needs_evidence", "evidence attach", t)
          <6>1. PICK t \in C : n = Op("needs_evidence", "evidence attach", t)
            BY <5>3
          <6>2. n.halt = "needs_evidence" /\ C # {}
            BY <6>1 DEF Op
          <6> QED  BY <6>2
        <5>4. CASE \E t \in D : n = Op("needs_external", "review accept", t)
          <6>1. PICK t \in D : n = Op("needs_external", "review accept", t)
            BY <5>4
          <6>2. n.halt = "needs_external" /\ D # {}
            BY <6>1 DEF Op
          <6> QED  BY <6>2
        <5> QED  BY <3>3, <5>1, <5>2, <5>3, <5>4
      <4>2. \A t \in A : \E n \in NamedOperations(cx, work) : n.halt = "needs_review"
        BY <3>3
      <4>3. \A t \in B : \E n \in NamedOperations(cx, work) : n.halt = "needs_review"
        BY <3>3
      <4>4. \A t \in C : \E n \in NamedOperations(cx, work) : n.halt = "needs_evidence"
        BY <3>3
      <4>5. \A t \in D : \E n \in NamedOperations(cx, work) : n.halt = "needs_external"
        BY <3>3
      <4>6. \A h : Why(h) => \E n \in NamedOperations(cx, work) : n.halt = h
        BY <4>2, <4>3, <4>4, <4>5
      <4> HIDE DEF Why
      <4> QED  BY <4>1, <4>6
    <3> HIDE DEF Why
    <3> QED  BY <3>2, <3>4
  <2>4. ClaimReviewTargets(cx) # {} => Assurance(cx) \in {"review_required", "rejected"}
    <3> SUFFICES ASSUME NEW t \in ClaimReviewTargets(cx) PROVE Assurance(cx) \in {"review_required", "rejected"}
      OBVIOUS
    <3>1. \E g \in ReviewGaps(cx) : ~g.satisfied
      BY DEF ClaimReviewTargets
    <3> QED  BY <3>1 DEF Assurance
  <2>5. ASSUME NEW n \in NamedOperations(cx, work), n.halt = "needs_review", n.op = "review accept"
        PROVE  n.target \notin ClaimReviewTargets(Context(Accepted(space, n.target)))
    BY AcceptanceClearsClaim
  <2>6. ASSUME NEW n \in NamedOperations(cx, work), NewEvidence \notin DOMAIN cells,
               NEW o \in Obstructions(Context(AttachedFor(space, n.target))),
               TypeOf(o) \in {"missing_evidence", "missing_proof", "external_wait"}
        PROVE  WitnessOf(o) # n.target
    <3>1. n.target \in Context(AttachedFor(space, n.target)).covered
      BY <2>6, AttachedCovers
    <3> QED  BY <2>6, <3>1, CoveredIsNotWanted
  <2> QED  BY <2>1, <2>2, <2>3, <2>4, <2>5, <2>6 DEF NamedOperationsClear
<1> QED  BY <1>1, CaseInvHolds, PTL
=============================================================================
