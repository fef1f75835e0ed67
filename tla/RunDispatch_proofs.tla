------------------------- MODULE RunDispatch_proofs -------------------------
(***************************************************************************)
(* A transition is appended only to a revision in which its work cell is   *)
(* ready.  The argument: a step is judged against the log as it stands,    *)
(* the append goes through only while the log still is that long, and      *)
(* what the log says of a cell at a revision never changes afterwards.     *)
(*                                                                         *)
(* The second part proves that traces are true (TruthInv): a trace is      *)
(* written only by the call that reserved it, through one held guard or    *)
(* one item in progress, so what that guard remembers is what its file,    *)
(* its worker and the log say of it.                                       *)
(***************************************************************************)
EXTENDS RunDispatch, TLAPS, WellFoundedInduction, FiniteSetTheorems

\* A nonempty set of positions has a last one: CellAt's choice exists.
LEMMA LastExists ==
    ASSUME NEW n \in Nat, NEW A \in SUBSET (1 .. n), A # {}
    PROVE  \E i \in A : \A j \in A : j <= i
<1> DEFINE R == {ss \in Nat \X Nat : ss[1] < ss[2]}
           T == {n - i : i \in A}
<1>1. IsWellFoundedOn(R, Nat)
  BY NatLessThanWellFounded DEF OpToRel
<1>2. T \subseteq Nat /\ T # {}
  <2>1. \A i \in A : n - i \in Nat
    OBVIOUS
  <2>2. PICK i \in A : TRUE
    OBVIOUS
  <2>3. n - i \in T
    BY <2>2
  <2> QED  BY <2>1, <2>3
<1>3. PICK x \in T : \A y \in T : ~ (<<y, x>> \in R)
  <2> HIDE DEF R, T
  <2> QED  BY <1>1, <1>2, WFMin
<1>4. PICK i \in A : x = n - i
  OBVIOUS
<1>5. ASSUME NEW j \in A PROVE j <= i
  <2>1. n - j \in T
    OBVIOUS
  <2>2. ~ (n - j < n - i)
    BY <1>2, <1>3, <1>4, <2>1
  <2> QED  BY <2>2
<1> QED  BY <1>5

\* What a log says of a cell at a revision is not changed by a later append:
\* the ground on which a case space may be replayed and used later.
LEMMA CellInStable ==
    ASSUME NEW S, NEW l \in Seq(S), NEW e, NEW c, NEW n \in 0 .. Len(l)
    PROVE  CellIn(Append(l, e), c, n) = CellIn(l, c, n)
<1> DEFINE m == Append(l, e)
           A(k) == {i \in 1 .. n : Decides(k[i], c)}
           L(k) == CHOOSE i \in A(k) : \A j \in A(k) : j <= i
<1>1. \A i \in 1 .. n : m[i] = l[i]
  <2>1. l \in Seq(S \cup {e}) /\ e \in S \cup {e}
    OBVIOUS
  <2> QED
    BY <2>1
<1>2. A(m) = A(l)
  BY <1>1
<1>3. L(m) = L(l)
  BY <1>2
<1>4. ASSUME A(l) # {} PROVE L(l) \in 1 .. n
  <2>1. \E i \in A(l) : \A j \in A(l) : j <= i
    <3>1. A(l) \in SUBSET (1 .. n) /\ n \in Nat
      OBVIOUS
    <3> DEFINE B == A(l)
    <3>2. B \in SUBSET (1 .. n) /\ B # {} /\ n \in Nat
      BY <1>4, <3>1
    <3> HIDE DEF B
    <3>3. \E i \in B : \A j \in B : j <= i
      BY <3>2, LastExists
    <3> QED  BY <3>3 DEF B
  <2> QED  BY <2>1
<1>5. ASSUME A(l) # {} PROVE m[L(l)] = l[L(l)]
  BY <1>1, <1>4, <1>5
<1>6. CellIn(l, c, n) = CASE A(l) = {} -> "ready"
                          [] A(l) # {} /\ l[L(l)].kind = "transition" -> "resolved"
                          [] A(l) # {} /\ l[L(l)].kind = "edit" -> l[L(l)].to
  BY DEF CellIn
<1>7. CellIn(m, c, n) = CASE A(m) = {} -> "ready"
                          [] A(m) # {} /\ m[L(m)].kind = "transition" -> "resolved"
                          [] A(m) # {} /\ m[L(m)].kind = "edit" -> m[L(m)].to
  BY DEF CellIn
<1> HIDE DEF A, L
<1> QED
  BY <1>2, <1>3, <1>5, <1>6, <1>7

----------------------------------------------------------------------------
(* The inductive invariant *)

\* Where the item in progress knows what it is part of
Settling == {"evidence", "judge", "transition", "fail", "final", "refused", "anchor"}

LocalsAreFunctions == DOMAIN pc = Runners /\ DOMAIN item = Runners
                        /\ DOMAIN view = Runners /\ DOMAIN phase = Runners
PhaseKnown(p) == pc[p] \in Settling => phase[p] \in {"reserve", "apply", "drop"}
Judged(p) == pc[p] = "transition" =>
                 /\ view[p] \in 0 .. Len(log)
                 /\ CaseEligible(StepOf(item[p].trace), view[p])
LogIsSequence == \E S : log \in Seq(S)

IInv ==
    /\ LogIsSequence
    /\ LocalsAreFunctions
    /\ \A p \in Runners : PhaseKnown(p) /\ Judged(p)
    /\ TransitionsApplyToReadyCells

\* What any step of a runner leaves alone, and how it may extend the log
OthersKeep(p) == /\ DOMAIN pc' = DOMAIN pc /\ DOMAIN item' = DOMAIN item
                 /\ DOMAIN view' = DOMAIN view /\ DOMAIN phase' = DOMAIN phase
                 /\ \A q \in Runners \ {p} :
                       /\ pc'[q] = pc[q] /\ item'[q] = item[q]
                       /\ view'[q] = view[q] /\ phase'[q] = phase[q]
ArrivesJudged(p) == pc'[p] = "transition" =>
                        /\ item'[p] = item[p]
                        /\ \/ pc[p] = "transition" /\ view'[p] = view[p]
                           \/ /\ log' = log
                              /\ view'[p] = Len(log)
                              /\ CaseEligible(StepOf(item[p].trace), Len(log))
LogGrows(p) == \/ log' = log
               \/ \E e : /\ log' = Append(log, e)
                         /\ e.kind = "transition" =>
                               /\ pc[p] = "transition"
                               /\ view[p] = Len(log)
                               /\ e.trace = item[p].trace
Shape(p) == OthersKeep(p) /\ PhaseKnown(p)' /\ ArrivesJudged(p) /\ LogGrows(p)

\* Every step of a call has that shape: only Judge brings a call to the
\* transition, and only a judged call appends one.
LEMMA StepShape ==
    ASSUME NEW p \in Runners, LocalsAreFunctions, PhaseKnown(p), Step(p)
    PROVE  Shape(p)
<1> USE DEF LocalsAreFunctions, PhaseKnown, Settling, Shape, OthersKeep, ArrivesJudged,
            LogGrows, disk, locals, env, history, Goto
<1>1. CASE Select(p)
  BY <1>1 DEF Select
<1>2. CASE SelectNothing(p)
  BY <1>2 DEF SelectNothing, Return
<1>3. CASE Reserve(p)
  BY <1>3 DEF Reserve, ReserveAttempt
<1>4. CASE ReserveRefused(p)
  BY <1>4 DEF ReserveRefused, RecordReservationFailure, ReserveAttempt, Return
<1>5. CASE Start(p)
  BY <1>5 DEF Start, WriteInitialTrace, AfterReserve
<1>6. CASE StartRefused(p)
  BY <1>6 DEF StartRefused, RecordReservationFailure, ReserveAttempt, Return
<1>7. CASE StartFailed(p)
  BY <1>7 DEF StartFailed, WriteInitialTrace
<1>8. CASE \E i \in 1 .. Cardinality(Steps) : Thread(p, i)
  BY <1>8 DEF Thread, Reject, Mark, SpawnFails, Spawn, Exit, ExitLost
<1>9. CASE Join(p)
  BY <1>9 DEF Join
<1>10. CASE ApplyRejected(p)
  BY <1>10 DEF ApplyRejected, TakeHeld
<1>11. CASE ApplyExecuted(p)
  BY <1>11 DEF ApplyExecuted, TakeHeld
<1>12. CASE ApplyReplayFails(p)
  BY <1>12 DEF ApplyReplayFails, TakeHeld
<1>13. CASE ApplyUnspawned(p)
  BY <1>13 DEF ApplyUnspawned, TakeHeld, OnStepError
<1>14. CASE ApplyLost(p)
  BY <1>14 DEF ApplyLost, TakeHeld
<1>15. CASE AppendEvidence(p)
  BY <1>15 DEF AppendEvidence, EvidenceEntry
<1>16. CASE Judge(p)
  BY <1>16 DEF Judge
<1>17. CASE AppendTransition(p)
  BY <1>17 DEF AppendTransition, TransitionEntry, CanAppend, SetMem
<1>18. CASE StepFails(p)
  BY <1>18 DEF StepFails, OnStepError
<1>19. CASE Finish(p)
  BY <1>19 DEF Finish, SetMem, Onward, AfterReserve
<1>20. CASE FinishReplayFails(p)
  BY <1>20 DEF FinishReplayFails
<1>21. CASE FinishWriteFails(p)
  BY <1>21 DEF FinishWriteFails
<1>22. CASE Drop(p)
  BY <1>22 DEF Drop, SetMem
<1>23. CASE Anchor(p)
  BY <1>23 DEF Anchor, AnchorEntry, Onward, AfterReserve
<1>24. CASE AnchorFails(p)
  BY <1>24 DEF AnchorFails
<1>25. CASE Rewind(p)
  BY <1>25 DEF Rewind
<1>26. CASE Abort(p)
  BY <1>26 DEF Abort, Return
<1>27. CASE EndRound(p)
  BY <1>27 DEF EndRound, Return
<1> QED
  BY <1>1, <1>2, <1>3, <1>4, <1>5, <1>6, <1>7, <1>8, <1>9, <1>10, <1>11, <1>12, <1>13, <1>14, <1>15, <1>16, <1>17, <1>18, <1>19, <1>20, <1>21, <1>22, <1>23, <1>24, <1>25, <1>26, <1>27 DEF Step, Apply, Settle

\* Eligibility at a revision, over a log that is given as a value
EligibleIn(l, s, n) == CellIn(l, WorkCell[s], n) = "ready"

\* A later append does not change whether a step was eligible at a revision.
LEMMA EligibleStable ==
    ASSUME NEW S, NEW l \in Seq(S), NEW e, NEW s, NEW n \in 0 .. Len(l)
    PROVE  EligibleIn(Append(l, e), s, n) = EligibleIn(l, s, n)
BY CellInStable DEF EligibleIn

\* A step of that shape preserves the invariant: what was judged stays judged
\* while others append, and the log's transitions stay justified.
LEMMA ShapePreserves ==
    ASSUME NEW p \in Runners, IInv, Shape(p)
    PROVE  IInv'
<1>1. PICK S : log \in Seq(S)
  BY DEF IInv, LogIsSequence
<1>2. /\ \A s, n : CaseEligible(s, n) = EligibleIn(log, s, n)
      /\ \A s, n : CaseEligible(s, n)' = EligibleIn(log', s, n)
  BY DEF CaseEligible, CellAt, EligibleIn
<1>3. LocalsAreFunctions'
  BY DEF IInv, Shape, OthersKeep, LocalsAreFunctions
<1>4. \A q \in Runners : PhaseKnown(q)'
  BY DEF IInv, Shape, OthersKeep, PhaseKnown
<1>5. CASE log' = log
  <2>1. LogIsSequence'
    BY <1>1, <1>5 DEF LogIsSequence
  <2>2. ASSUME NEW q \in Runners PROVE Judged(q)'
    <3>1. CASE q = p
      BY <1>1, <1>2, <1>5, <3>1 DEF IInv, Shape, ArrivesJudged, Judged
    <3>2. CASE q # p
      BY <1>2, <1>5, <3>2 DEF IInv, Shape, OthersKeep, Judged
    <3> QED  BY <3>1, <3>2
  <2>3. TransitionsApplyToReadyCells'
    BY <1>2, <1>5 DEF IInv, TransitionsApplyToReadyCells
  <2> QED  BY <1>3, <1>4, <2>1, <2>2, <2>3 DEF IInv
<1>6. ASSUME NEW e, log' = Append(log, e),
             e.kind = "transition" => /\ pc[p] = "transition"
                                      /\ view[p] = Len(log)
                                      /\ e.trace = item[p].trace
      PROVE  IInv'
  <2>1. /\ log' \in Seq(S \cup {e})
        /\ Len(log') = Len(log) + 1
        /\ Len(log) \in Nat
        /\ log'[Len(log) + 1] = e
        /\ \A i \in 1 .. Len(log) : log'[i] = log[i]
    <3>1. log \in Seq(S \cup {e}) /\ e \in S \cup {e}
      BY <1>1
    <3> QED  BY <1>6, <3>1
  <2>2. \A s : \A n \in 0 .. Len(log) : CaseEligible(s, n)' = CaseEligible(s, n)
    BY <1>1, <1>2, <1>6, EligibleStable
  <2>3. ASSUME NEW q \in Runners PROVE Judged(q)'
    <3>1. SUFFICES ASSUME pc'[q] = "transition"
                   PROVE  /\ view'[q] \in 0 .. Len(log')
                          /\ EligibleIn(log', StepOf(item'[q].trace), view'[q])
      BY <1>2 DEF Judged, StepOf
    <3>2. pc[q] = "transition" /\ item'[q] = item[q] /\ view'[q] = view[q]
      <4>1. log' # log
        BY <2>1
      <4> QED  BY <3>1, <4>1 DEF Shape, ArrivesJudged, OthersKeep
    <3>3. view[q] \in 0 .. Len(log) /\ CaseEligible(StepOf(item[q].trace), view[q])
      BY <3>2 DEF IInv, Judged
    <3> QED  BY <1>2, <2>1, <2>2, <3>2, <3>3
  <2>4. TransitionsApplyToReadyCells'
    <3>1. SUFFICES ASSUME NEW i \in 1 .. Len(log'), log'[i].kind = "transition"
                   PROVE  EligibleIn(log', StepOf(log'[i].trace), i - 1)
      BY <1>2 DEF TransitionsApplyToReadyCells, StepOf
    <3>2. CASE i \in 1 .. Len(log)
      <4>1. CaseEligible(StepOf(log[i].trace), i - 1)
        BY <2>1, <3>1, <3>2 DEF IInv, TransitionsApplyToReadyCells
      <4> QED  BY <1>2, <2>1, <2>2, <3>2, <4>1
    <3>3. CASE i = Len(log) + 1
      <4>1. CaseEligible(StepOf(item[p].trace), Len(log))
        BY <1>6, <2>1, <3>1, <3>3 DEF IInv, Judged
      <4> QED  BY <1>2, <1>6, <2>1, <2>2, <3>1, <3>3, <4>1
    <3> QED  BY <2>1, <3>1, <3>2, <3>3
  <2> QED  BY <1>3, <1>4, <2>1, <2>3, <2>4 DEF IInv, LogIsSequence
<1> QED
  BY <1>5, <1>6 DEF Shape, LogGrows

\* The start of a call and its death have the shape as well.
LEMMA EnvironmentShape ==
    ASSUME NEW p \in Runners, LocalsAreFunctions, PhaseKnown(p),
           Begin(p) \/ Crash(p)
    PROVE  Shape(p)
BY DEF LocalsAreFunctions, PhaseKnown, Settling, Shape, OthersKeep, ArrivesJudged,
       LogGrows, disk, Begin, Crash, Return, Goto

\* So has an edit by another command, seen from any runner.
LEMMA EditShape ==
    ASSUME NEW p \in Runners, LocalsAreFunctions, PhaseKnown(p), Edit
    PROVE  Shape(p)
BY DEF LocalsAreFunctions, PhaseKnown, Shape, OthersKeep, ArrivesJudged, LogGrows,
       locals, Edit, EditEntry

\* The invariant is inductive, whatever the plan, the runners and the bounds.
THEOREM IInvHolds == Spec => []IInv
<1>1. Init => IInv
  <2> SUFFICES ASSUME Init PROVE IInv
    OBVIOUS
  <2>1. log = <<>> /\ log \in Seq({})
    BY DEF Init
  <2>2. TransitionsApplyToReadyCells
    BY <2>1 DEF TransitionsApplyToReadyCells
  <2> QED
    BY <2>1, <2>2 DEF Init, IInv, LogIsSequence, LocalsAreFunctions, PhaseKnown,
                      Settling, Judged
<1>2. IInv /\ [Next]_vars => IInv'
  <2> SUFFICES ASSUME IInv, [Next]_vars PROVE IInv'
    OBVIOUS
  <2>0. PICK r \in Runners : TRUE
    BY DispatchAssumption
  <2>1. ASSUME NEW p \in Runners, Step(p) PROVE IInv'
    BY <2>1, StepShape, ShapePreserves DEF IInv
  <2>2. ASSUME NEW p \in Runners, Begin(p) \/ Crash(p) PROVE IInv'
    BY <2>2, EnvironmentShape, ShapePreserves DEF IInv
  <2>3. CASE Edit
    BY <2>0, <2>3, EditShape, ShapePreserves DEF IInv
  <2>4. CASE UNCHANGED vars
    <3>1. Shape(r)
      BY <2>0, <2>4 DEF IInv, Shape, OthersKeep, PhaseKnown, ArrivesJudged, LogGrows,
                        vars, disk, locals
    <3> QED  BY <2>0, <3>1, ShapePreserves
  <2> QED  BY <2>1, <2>2, <2>3, <2>4 DEF Next
<1> QED
  BY <1>1, <1>2, PTL DEF Spec

\* A transition resolves a work cell that is ready in the very revision it
\* extends: apply_step_result judges against a fresh replay, and
\* append_validated_morphism refuses any revision but the current one.
THEOREM TransitionsApplyToReadyCellsHolds == Spec => []TransitionsApplyToReadyCells
<1>1. IInv => TransitionsApplyToReadyCells
  BY DEF IInv
<1> QED
  BY <1>1, IInvHolds, PTL

----------------------------------------------------------------------------
(* What traces say.  A trace file is written by the call that reserved its   *)
(* run directory and by nobody else; so it is enough to follow what a call   *)
(* holds: the reserved steps that wait, and the one in progress.             *)

Guard == [trace : TraceId, mem : Trace, rejected : BOOLEAN,
          got : Answers \cup {"none", "marked", "running"}]

\* The item's run directory has no trace; its trace is started; its trace names an anchor.
Fresh == {"start", "startFailed"}
Unsettled == {"evidence", "judge", "transition", "fail", "final", "refused", "drop"}
Naming == {"anchor", "rewind"}
WithItem == Fresh \cup Unsettled \cup Naming
Label == WithItem \cup {"idle", "select", "reserve", "dispatch", "apply", "abort"}

AnchorBody(t, b) ==
    \E i \in 1 .. Len(log) : log[i].kind = "anchor" /\ log[i].trace = t /\ log[i].body = b
Transitioned(t) == \E i \in 1 .. Len(log) : log[i] = TransitionEntry(t)

Typed ==
    /\ made \subseteq TraceId
    /\ file \in [TraceId -> Trace \cup {NoTrace}]
    /\ out \in [TraceId -> Artifacts]
    /\ worker \in [TraceId -> {"none", "running", "done"}]
    /\ pc \in [Runners -> Label]
    /\ call \in [Runners -> [mode : {"none", "step", "frontier", "operate"},
                             retry : SUBSET Steps, supersede : SUBSET TraceId]]
    /\ held \in [Runners -> Seq(Guard)]
    /\ item \in [Runners -> Guard \cup {NoItem}]
    /\ mine \in [Runners -> SUBSET TraceId]
    /\ DOMAIN picked = Runners /\ DOMAIN phase = Runners

\* Every pick names a step and the traces it was authorized past.
PicksTyped ==
    \A p \in Runners : \A w \in picked[p] :
        /\ w.step \in Steps /\ w.rejected \in BOOLEAN
        /\ w.retried \in SUBSET TraceId /\ w.superseded \in SUBSET TraceId

Plain(m) == m.retried = {} /\ m.superseded = {}
EarlierFinished(t) == \A j \in 1 .. t[2] - 1 : Finished(<<t[1], j>>)
Holds(p, g) == \E i \in DOMAIN held[p] : held[p][i] = g

Untold(m) == /\ m.state = "started" /\ m.out = "initial"
             /\ m.applied = FALSE /\ m.invoked = FALSE /\ m.anchor = FALSE

\* What a thread knows of its worker is what the worker did.
WorkerFits(g) ==
    /\ g.got \in {"none", "marked", "rejected", "unspawned"} =>
          worker[g.trace] = "none" /\ out[g.trace] = "initial"
    /\ g.got = "running" => worker[g.trace] = "running"
    /\ g.got \in {"ok", "failed"} => worker[g.trace] = "done" /\ out[g.trace] = "worker"
    /\ g.got = "lost" => worker[g.trace] = "done"
    /\ g.got \in {"marked", "running", "ok", "failed", "lost"} => file[g.trace].invoked = TRUE

\* A reserved step that waits for its worker or for the application of its result
GuardOK(p, g) ==
    /\ g.trace \in mine[p] /\ g.trace \notin aborted
    /\ Untold(g.mem)
    /\ file[g.trace] \in Trace /\ file[g.trace].state = "started"
    /\ file[g.trace].anchor = FALSE
    /\ file[g.trace].retried = g.mem.retried /\ file[g.trace].superseded = g.mem.superseded
    /\ \A b : ~AnchorBody(g.trace, b)
    /\ ~Transitioned(g.trace)
    /\ WorkerFits(g)
    /\ Plain(g.mem) => EarlierFinished(g.trace)
    /\ \A u \in mine[p] : SameStep(g.trace, u) => worker[u] = "none"

HeldOK(p) == \A g \in Guard : Holds(p, g) => GuardOK(p, g)
HeldApart(p) == \A i, j \in DOMAIN held[p] : i # j => StepOf(held[p][i].trace) # StepOf(held[p][j].trace)

\* A pick was chosen against all attempts that this call knows of.
PickOK(p, w) ==
    /\ Plain(w) => w.attempt = 1
    /\ \A t \in mine[p] : StepOf(t) = w.step => worker[t] = "none"
    /\ \A i \in DOMAIN held[p] : StepOf(held[p][i].trace) # w.step
PicksOK(p) == \A w : w \in picked[p] => PickOK(p, w)

\* What the trace in memory says is what happened.
MemTells(t, m) ==
    /\ m.applied = TRUE <=> Transitioned(t)
    /\ m.invoked = TRUE <=> worker[t] # "none"
    /\ m.out = out[t]

FreshOK(p, g) ==
    /\ g.trace \notin aborted /\ ~Transitioned(g.trace)
    /\ file[g.trace] = NoTrace /\ worker[g.trace] = "none"
    /\ g.got = "none" /\ Untold(g.mem)
    /\ \E w \in picked[p] : w.step = StepOf(g.trace)
    /\ pc[p] = "start" /\ Plain(g.mem) => EarlierFinished(g.trace)

UnsettledOK(p, g) ==
    /\ g.mem.state = "started" /\ worker[g.trace] # "running"
    /\ file[g.trace] \in Trace /\ file[g.trace].state = "started"
    /\ file[g.trace].anchor = FALSE
    /\ pc[p] \in {"evidence", "judge", "transition"} => g.mem.applied = FALSE
    /\ g.trace \notin aborted =>
          /\ MemTells(g.trace, g.mem)
          /\ worker[g.trace] # "none" => file[g.trace].invoked = TRUE
          /\ pc[p] = "drop" => g.mem.applied = FALSE

NamingOK(g) ==
    /\ file[g.trace] = NamingAnchor(g.mem)
    /\ g.mem.state \in {"completed", "failed"}
    /\ g.mem.state = "completed" => g.mem.applied = TRUE
    /\ worker[g.trace] # "running"
    /\ g.trace \notin aborted => MemTells(g.trace, g.mem)

\* The step in progress, whatever its call is about to do with it
ItemIsOK(p, g) ==
    /\ g.trace \in mine[p]
    /\ g.mem.anchor = FALSE
    /\ \A b : ~AnchorBody(g.trace, b)
    /\ \A i \in DOMAIN held[p] : StepOf(held[p][i].trace) # StepOf(g.trace)
    /\ pc[p] \in Fresh => FreshOK(p, g)
    /\ pc[p] \in Unsettled => UnsettledOK(p, g)
    /\ pc[p] \in Naming => NamingOK(g)
ItemOK(p) == pc[p] \in WithItem =>
                 item[p] \in Guard /\ \A g \in Guard : item[p] = g => ItemIsOK(p, g)

CallOK(p) ==
    /\ pc[p] \in {"idle", "select"} => held[p] = <<>>
    /\ pc[p] = "idle" => mine[p] = {}
    /\ pc[p] # "dispatch" => \A i \in DOMAIN held[p] : held[p][i].got \in Answers \cup {"none"}
    /\ call[p].mode = "operate" => call[p].retry = {}
    /\ pc[p] = "select" /\ mine[p] # {} => call[p].mode = "operate"
    /\ mine[p] \subseteq made
    /\ call[p].supersede \subseteq made /\ call[p].supersede \cap mine[p] = {}

\* A trace tells what happened, whoever holds it.
TraceOK(t) ==
    /\ t \notin made => /\ file[t] = NoTrace /\ worker[t] = "none" /\ out[t] = "none"
                        /\ t \notin aborted /\ t \notin stranded
                        /\ (\A b : ~AnchorBody(t, b)) /\ ~Transitioned(t)
    /\ worker[t] # "none" => file[t] # NoTrace
    /\ file[t].state = "completed" => file[t].applied = TRUE
    /\ Finished(t) => worker[t] # "running"
    /\ worker[t] = "running" /\ Plain(file[t]) => EarlierFinished(t)
    /\ t \notin aborted =>
          /\ \A b : AnchorBody(t, b) => file[t] = b /\ out[t] = b.out
          /\ Finished(t) => /\ file[t].applied = TRUE <=> Transitioned(t)
                            /\ file[t].invoked = TRUE <=> worker[t] # "none"
          /\ worker[t] # "none" => file[t].invoked = TRUE
    /\ file[t] # NoTrace /\ file[t].anchor = TRUE =>
          \/ \E b : AnchorBody(t, b)
          \/ \E p \in Runners : Anchoring(p, t)
          \/ t \in stranded

\* A call at work
AtWork(p) == HeldOK(p) /\ HeldApart(p) /\ PicksOK(p) /\ ItemOK(p) /\ CallOK(p)
             /\ \A t, u \in mine[p] : SameStep(t, u) => worker[t] = "none" \/ worker[u] = "none"

TruthInv ==
    /\ Typed /\ PicksTyped
    /\ \A t, b : AnchorBody(t, b) => t \in TraceId
    /\ aborted \subseteq made /\ stranded \subseteq made
    /\ \A p \in Runners : AtWork(p)
    /\ \A p, q \in Runners : p # q => mine[p] \cap mine[q] = {}
    /\ \A t \in TraceId : TraceOK(t)

\* What a step of p leaves alone
Owns(p, t) == \/ \E i \in DOMAIN held[p] : held[p][i].trace = t
              \/ pc[p] \in WithItem /\ item[p].trace = t
Same(t) == /\ file'[t] = file[t] /\ out'[t] = out[t] /\ worker'[t] = worker[t]
           /\ \A b : AnchorBody(t, b)' <=> AnchorBody(t, b)
           /\ Transitioned(t)' <=> Transitioned(t)
           /\ t \in aborted' <=> t \in aborted
SameCall(q) == /\ pc'[q] = pc[q] /\ call'[q] = call[q] /\ held'[q] = held[q] /\ item'[q] = item[q]
               /\ picked'[q] = picked[q] /\ mine'[q] = mine[q] /\ phase'[q] = phase[q]
Confined(p) ==
    /\ \A q \in Runners \ {p} : SameCall(q)
    /\ \A t \in TraceId : ~Owns(p, t) => Same(t)
    /\ \A t \in TraceId : Finished(t) => Finished(t)'
    /\ made \subseteq made' /\ mine'[p] \subseteq made'
    /\ mine'[p] \subseteq mine[p] \cup (TraceId \ made)
    /\ aborted' \subseteq made' /\ stranded' \subseteq made' /\ stranded \subseteq stranded'
    /\ aborted \subseteq aborted'
    /\ \A t, b : AnchorBody(t, b)' => t \in TraceId

\* An entry more in the log: what it adds to the anchors and transitions.
LEMMA LogStep ==
    ASSUME LogIsSequence, NEW e, log' = Append(log, e)
    PROVE  /\ \A t, b : AnchorBody(t, b)' <=>
                  AnchorBody(t, b) \/ (e.kind = "anchor" /\ e.trace = t /\ e.body = b)
           /\ \A t : Transitioned(t)' <=> Transitioned(t) \/ e = TransitionEntry(t)
<1>1. PICK S : log \in Seq(S)
  BY DEF LogIsSequence
<1>2. /\ Len(log') = Len(log) + 1
      /\ Len(log) \in Nat
      /\ log'[Len(log) + 1] = e
      /\ \A i \in 1 .. Len(log) : log'[i] = log[i]
  <2>1. log \in Seq(S \cup {e}) /\ e \in S \cup {e}
    BY <1>1
  <2> QED  BY <2>1
<1>3. \A i : i \in 1 .. Len(log') <=> i \in 1 .. Len(log) \/ i = Len(log) + 1
  BY <1>2
<1> QED
  BY <1>2, <1>3 DEF AnchorBody, Transitioned, TransitionEntry

\* Earlier attempts are attempts.
LEMMA EarlierTrace ==
    ASSUME NEW t \in TraceId, NEW j \in 1 .. t[2] - 1
    PROVE  <<t[1], j>> \in TraceId
<1>1. MaxAttempts \in Nat
  BY DispatchAssumption
<1>2. t[1] \in Steps /\ t[2] \in 1 .. MaxAttempts
  BY DEF TraceId
<1>3. j \in 1 .. MaxAttempts
  BY <1>1, <1>2
<1> QED  BY <1>2, <1>3 DEF TraceId

\* What stays as it was of a waiting step's trace keeps the step in order.
LEMMA GuardKept ==
    ASSUME NEW q \in Runners, NEW g \in Guard, GuardOK(q, g), Same(g.trace),
           g.trace \in mine'[q],
           \A t \in TraceId : Finished(t) => Finished(t)',
           \A u \in mine'[q] : SameStep(g.trace, u) =>
                worker'[u] = "none" \/ (u \in mine[q] /\ worker'[u] = worker[u])
    PROVE  GuardOK(q, g)'
<1>1. WorkerFits(g)'
  BY DEF GuardOK, WorkerFits, Same
<1>2. Plain(g.mem) => EarlierFinished(g.trace)'
  <2> SUFFICES ASSUME Plain(g.mem), NEW j \in 1 .. g.trace[2] - 1
               PROVE  Finished(<<g.trace[1], j>>)'
    BY DEF EarlierFinished
  <2>1. <<g.trace[1], j>> \in TraceId
    BY EarlierTrace DEF Guard
  <2> QED  BY <2>1 DEF GuardOK, EarlierFinished
<1> QED
  BY <1>1, <1>2 DEF GuardOK, Same

\* The calls of other runners do not notice a confined step.
LEMMA OthersAtWork ==
    ASSUME NEW p \in Runners, NEW q \in Runners, q # p, TruthInv, Typed', Confined(p)
    PROVE  AtWork(q)'
<1> USE DEF TruthInv
<1>1. SameCall(q) /\ AtWork(q) /\ mine[q] \subseteq TraceId
  BY DEF Confined, Typed
<1>2. \A t \in mine[q] : t \in TraceId /\ ~Owns(p, t)
  <2> SUFFICES ASSUME NEW t \in mine[q], Owns(p, t) PROVE FALSE
    BY <1>1
  <2>1. t \in mine[p]
    <3>1. CASE \E i \in DOMAIN held[p] : held[p][i].trace = t
      <4>1. PICK i \in DOMAIN held[p] : held[p][i].trace = t
        BY <3>1
      <4>2. held[p][i] \in Guard
        BY DEF Typed
      <4>3. PICK g \in Guard : g = held[p][i]
        BY <4>2
      <4> QED  BY <4>1, <4>3 DEF AtWork, HeldOK, Holds, GuardOK
    <3>2. CASE pc[p] \in WithItem /\ item[p].trace = t
      BY <3>2 DEF AtWork, ItemOK, ItemIsOK
    <3> QED  BY <3>1, <3>2 DEF Owns
  <2> QED  BY <2>1
<1>3. \A t \in mine[q] : Same(t)
  BY <1>2 DEF Confined
<1>4. \A t \in TraceId : Finished(t) => Finished(t)'
  BY DEF Confined
<1>5. HeldOK(q)'
  <2> SUFFICES ASSUME NEW g \in Guard, Holds(q, g)' PROVE GuardOK(q, g)'
    BY DEF HeldOK
  <2>1. Holds(q, g)
    BY <1>1 DEF Holds, SameCall
  <2>2. GuardOK(q, g)
    BY <1>1, <2>1 DEF AtWork, HeldOK
  <2>3. Same(g.trace) /\ g.trace \in mine'[q]
    BY <1>1, <1>3, <2>2 DEF GuardOK, SameCall
  <2>4. \A u \in mine'[q] : u \in mine[q] /\ worker'[u] = worker[u]
    BY <1>1, <1>3 DEF SameCall, Same
  <2> QED  BY <1>4, <2>2, <2>3, <2>4, GuardKept
<1>6. HeldApart(q)'
  BY <1>1 DEF AtWork, HeldApart, SameCall, StepOf
<1>7. PicksOK(q)'
  <2> SUFFICES ASSUME NEW w, (w \in picked[q])' PROVE PickOK(q, w)'
    BY DEF PicksOK
  <2>1. PickOK(q, w)
    BY <1>1 DEF AtWork, PicksOK, SameCall
  <2> QED  BY <1>1, <1>3, <2>1 DEF PickOK, SameCall, Same, Plain, StepOf
<1>8. ItemOK(q)'
  <2> SUFFICES ASSUME (pc[q] \in WithItem)', NEW g \in Guard, (item[q] = g)'
               PROVE  ItemIsOK(q, g)'
    BY <1>1 DEF ItemOK, AtWork, SameCall, WithItem
  <2>1. ItemIsOK(q, g)
    BY <1>1 DEF AtWork, ItemOK, SameCall
  <2>2. Same(g.trace)
    BY <1>3, <2>1 DEF ItemIsOK
  <2>3. pc[q] = "start" /\ Plain(g.mem) /\ EarlierFinished(g.trace) => EarlierFinished(g.trace)'
    <3> SUFFICES ASSUME EarlierFinished(g.trace), NEW j \in 1 .. g.trace[2] - 1
                 PROVE  Finished(<<g.trace[1], j>>)'
      BY DEF EarlierFinished
    <3>1. <<g.trace[1], j>> \in TraceId
      BY EarlierTrace DEF Guard
    <3> QED  BY <1>4, <3>1 DEF EarlierFinished
  <2>4. pc'[q] \in Fresh => FreshOK(q, g)'
    BY <1>1, <2>1, <2>2, <2>3 DEF ItemIsOK, FreshOK, Same, SameCall
  <2>5. pc'[q] \in Unsettled => UnsettledOK(q, g)'
    BY <1>1, <2>1, <2>2 DEF ItemIsOK, UnsettledOK, MemTells, Same, SameCall
  <2>6. pc'[q] \in Naming => NamingOK(g)'
    BY <1>1, <2>1, <2>2 DEF ItemIsOK, NamingOK, MemTells, Same, SameCall
  <2> QED  BY <1>1, <2>1, <2>2, <2>4, <2>5, <2>6 DEF ItemIsOK, Same, SameCall, StepOf
<1>9. CallOK(q)'
  BY <1>1 DEF AtWork, CallOK, SameCall, Confined
<1>10. \A t, u \in mine'[q] : SameStep(t, u) => worker'[t] = "none" \/ worker'[u] = "none"
  BY <1>1, <1>3 DEF AtWork, SameCall, Same
<1> QED  BY <1>5, <1>6, <1>7, <1>8, <1>9, <1>10 DEF AtWork, SameStep, StepOf

\* A trace that a step of p leaves as it is tells the truth afterwards.
LEMMA OtherTraces ==
    ASSUME NEW p \in Runners, NEW t \in TraceId, TruthInv, Confined(p),
           ~Owns(p, t) \/ (Same(t) /\ ~Anchoring(p, t))
    PROVE  TraceOK(t)'
<1>1. Same(t) /\ TraceOK(t)
  BY DEF TruthInv, Confined
<1>2. EarlierFinished(t) => EarlierFinished(t)'
  <2> SUFFICES ASSUME EarlierFinished(t), NEW j \in 1 .. t[2] - 1
               PROVE  Finished(<<t[1], j>>)'
    BY DEF EarlierFinished
  <2>1. <<t[1], j>> \in TraceId
    BY EarlierTrace
  <2> QED  BY <2>1 DEF EarlierFinished, Confined
<1>3. \A q \in Runners : Anchoring(q, t) => Anchoring(q, t)'
  <2> SUFFICES ASSUME NEW q \in Runners, Anchoring(q, t) PROVE Anchoring(q, t)'
    OBVIOUS
  <2>1. q # p
    BY DEF Anchoring, Owns, WithItem, Naming
  <2> QED  BY <2>1 DEF Anchoring, Confined, SameCall
<1>4. t \notin made' => t \notin made /\ t \notin aborted' /\ t \notin stranded'
  BY DEF Confined
<1>5. /\ t \notin made' => /\ file'[t] = NoTrace /\ worker'[t] = "none" /\ out'[t] = "none"
                           /\ t \notin aborted' /\ t \notin stranded'
                           /\ (\A b : ~AnchorBody(t, b)') /\ ~Transitioned(t)'
  BY <1>1, <1>4 DEF TraceOK, Same
<1>6. file'[t] # NoTrace /\ file'[t].anchor = TRUE =>
          \/ \E b : AnchorBody(t, b)'
          \/ \E q \in Runners : Anchoring(q, t)'
          \/ t \in stranded'
  BY <1>1, <1>3 DEF TraceOK, Same, Confined
<1> QED
  BY <1>1, <1>2, <1>5, <1>6 DEF TraceOK, Same, Finished, Plain

\* A confined step of p that keeps p's own business in order keeps everything in order.
LEMMA ConfinedKeeps ==
    ASSUME NEW p \in Runners, TruthInv, Typed', PicksTyped', Confined(p), AtWork(p)',
           \A t \in TraceId : Owns(p, t) => TraceOK(t)'
    PROVE  TruthInv'
<1>1. \A q \in Runners : AtWork(q)'
  BY OthersAtWork
<1>2. \A t \in TraceId : TraceOK(t)'
  BY OtherTraces
<1>3. ASSUME NEW q \in Runners, NEW r \in Runners, q # r PROVE mine'[q] \cap mine'[r] = {}
  <2>1. \A x \in Runners \ {p} : mine'[x] = mine[x] /\ mine[x] \subseteq made
    BY DEF TruthInv, AtWork, CallOK, Confined, SameCall
  <2>2. mine'[p] \subseteq mine[p] \cup (TraceId \ made)
    BY DEF Confined
  <2>3. mine[q] \cap mine[r] = {}
    BY <1>3 DEF TruthInv
  <2>4. CASE q = p
    BY <1>3, <2>1, <2>2, <2>3, <2>4
  <2>5. CASE r = p
    BY <1>3, <2>1, <2>2, <2>3, <2>5
  <2>6. CASE q # p /\ r # p
    BY <2>1, <2>3, <2>6
  <2> QED  BY <2>4, <2>5, <2>6
<1> QED
  BY <1>1, <1>2, <1>3 DEF TruthInv, Confined

\* A step that leaves the files and the log alone, and gives up no trace but its own
Quiet(p) ==
    /\ UNCHANGED <<log, made, file, out, worker>>
    /\ \A q \in Runners \ {p} : SameCall(q)
    /\ mine'[p] \subseteq mine[p]
    /\ aborted \subseteq aborted' /\ \A t \in aborted' \ aborted : Owns(p, t)
    /\ stranded \subseteq stranded' /\ stranded' \subseteq made
    /\ \A t \in TraceId : Anchoring(p, t) => Anchoring(p, t)' \/ t \in stranded'

\* What a call owns it has reserved.
LEMMA OwnedIsMine ==
    ASSUME NEW p \in Runners, TruthInv, NEW t, Owns(p, t)
    PROVE  t \in mine[p] /\ t \in made /\ t \in TraceId
<1> USE DEF TruthInv
<1>1. CASE \E i \in DOMAIN held[p] : held[p][i].trace = t
  <2>1. PICK i \in DOMAIN held[p] : held[p][i].trace = t
    BY <1>1
  <2>2. held[p][i] \in Guard
    BY DEF Typed
  <2>3. PICK g \in Guard : g = held[p][i]
    BY <2>2
  <2>4. t \in mine[p]
    BY <2>1, <2>3 DEF AtWork, HeldOK, Holds, GuardOK
  <2> QED  BY <2>4 DEF AtWork, CallOK, Typed
<1>2. CASE pc[p] \in WithItem /\ item[p].trace = t
  <2>1. t \in mine[p]
    BY <1>2 DEF AtWork, ItemOK, ItemIsOK
  <2> QED  BY <2>1 DEF AtWork, CallOK, Typed
<1> QED  BY <1>1, <1>2 DEF Owns

\* A quiet step is confined, and no trace says anything new.
LEMMA QuietKeeps ==
    ASSUME NEW p \in Runners, TruthInv, Quiet(p), Typed', PicksTyped', AtWork(p)'
    PROVE  TruthInv'
<1>1. \A t, b : AnchorBody(t, b)' <=> AnchorBody(t, b)
  BY DEF Quiet, AnchorBody
<1>2. \A t : Transitioned(t)' <=> Transitioned(t)
  BY DEF Quiet, Transitioned, TransitionEntry
<1>3. \A t : Finished(t)' <=> Finished(t)
  BY DEF Quiet, Finished
<1>4. aborted' \subseteq made
  BY OwnedIsMine DEF Quiet, TruthInv
<1>5. Confined(p)
  <2>1. \A t \in TraceId : ~Owns(p, t) => Same(t)
    BY <1>1, <1>2 DEF Quiet, Same
  <2> QED  BY <1>1, <1>3, <1>4, <2>1 DEF Quiet, Confined, TruthInv, AtWork, CallOK
<1>6. ASSUME NEW t \in TraceId PROVE TraceOK(t)'
  <2>1. TraceOK(t)
    BY DEF TruthInv
  <2>2. EarlierFinished(t)' <=> EarlierFinished(t)
    BY <1>3 DEF EarlierFinished
  <2>3. (\E q \in Runners : Anchoring(q, t)) => (\E q \in Runners : Anchoring(q, t)') \/ t \in stranded'
    <3> SUFFICES ASSUME NEW q \in Runners, Anchoring(q, t)
                 PROVE  Anchoring(q, t)' \/ t \in stranded'
      OBVIOUS
    <3>1. CASE q = p
      BY <3>1 DEF Quiet
    <3>2. CASE q # p
      BY <3>2 DEF Quiet, SameCall, Anchoring
    <3> QED  BY <3>1, <3>2
  <2>4. file'[t] # NoTrace /\ file'[t].anchor = TRUE =>
          \/ \E b : AnchorBody(t, b)'
          \/ \E q \in Runners : Anchoring(q, t)'
          \/ t \in stranded'
    BY <1>1, <2>1, <2>3 DEF TraceOK, Quiet
  <2>5. t \notin made' => t \notin aborted' /\ t \notin stranded' /\ t \notin made
    BY <1>4 DEF Quiet
  <2>6. t \notin aborted' => t \notin aborted
    BY DEF Quiet
  <2> QED  BY <1>1, <1>2, <1>3, <2>1, <2>2, <2>4, <2>5, <2>6 DEF TraceOK, Quiet, Finished, Plain
<1> QED
  BY <1>5, <1>6, ConfinedKeeps

\* The end of a call, by its return or by a kill
LEMMA ReturnKeeps ==
    ASSUME NEW p \in Runners, TruthInv, Return(p), UNCHANGED <<log, made, file, out, worker, aborted>>,
           stranded \subseteq stranded', stranded' \subseteq made,
           pc[p] \in Naming => item[p].trace \in stranded'
    PROVE  TruthInv'
<1>1. Typed /\ PicksTyped
  BY DEF TruthInv
<1>2. Typed' /\ PicksTyped'
  BY <1>1 DEF Typed, PicksTyped, Return, NoCall, Label
<1>3. Quiet(p)
  BY <1>1 DEF Quiet, Return, SameCall, Typed, Anchoring, Naming
<1>4. AtWork(p)'
  <2>1. /\ pc'[p] = "idle" /\ held'[p] = <<>> /\ mine'[p] = {} /\ picked'[p] = {}
        /\ call'[p] = NoCall
    BY <1>1 DEF Return, Typed
  <2>2. DOMAIN held'[p] = {}
    BY <2>1
  <2>3. HeldOK(p)' /\ HeldApart(p)' /\ PicksOK(p)'
    BY <2>1, <2>2 DEF HeldOK, Holds, HeldApart, PicksOK
  <2>4. ItemOK(p)'
    BY <2>1 DEF ItemOK, WithItem, Fresh, Unsettled, Naming
  <2>5. CallOK(p)'
    BY <2>1, <2>2 DEF CallOK, NoCall
  <2> QED  BY <2>1, <2>3, <2>4, <2>5 DEF AtWork
<1> QED
  BY <1>2, <1>3, <1>4, QuietKeeps

\* The waiting steps of a call stay in order while some of them are taken away.
LEMMA QuietHeld ==
    ASSUME NEW p \in Runners, TruthInv, Quiet(p), mine'[p] = mine[p],
           \A g \in Guard : Holds(p, g)' => Holds(p, g) /\ g.trace \notin aborted'
    PROVE  HeldOK(p)'
<1> SUFFICES ASSUME NEW g \in Guard, Holds(p, g)' PROVE GuardOK(p, g)'
  BY DEF HeldOK
<1>1. GuardOK(p, g) /\ g.trace \notin aborted'
  BY DEF TruthInv, AtWork, HeldOK
<1>2. Same(g.trace)
  <2>1. \A b : AnchorBody(g.trace, b)' <=> AnchorBody(g.trace, b)
    BY DEF Quiet, AnchorBody
  <2>2. Transitioned(g.trace)' <=> Transitioned(g.trace)
    BY DEF Quiet, Transitioned, TransitionEntry
  <2> QED  BY <1>1, <2>1, <2>2 DEF Same, Quiet
<1>3. \A t \in TraceId : Finished(t) => Finished(t)'
  BY DEF Finished, Quiet
<1> QED  BY <1>1, <1>2, <1>3, GuardKept DEF Quiet, GuardOK

\* A call moves on with its step in progress.
LEMMA MoveKeeps ==
    ASSUME NEW p \in Runners, TruthInv, Quiet(p), Typed', UNCHANGED <<held, picked, mine, call>>,
           ItemOK(p)', pc'[p] \notin {"idle", "select"},
           pc[p] = "dispatch" => \A i \in DOMAIN held[p] : held[p][i].got \in Answers \cup {"none"},
           \A t \in aborted' \ aborted : pc[p] \in WithItem /\ item[p].trace = t
    PROVE  TruthInv'
<1>1. AtWork(p) /\ Typed /\ PicksTyped
  BY DEF TruthInv
<1>2. PicksTyped'
  BY <1>1 DEF PicksTyped
<1>3. HeldOK(p)'
  <2> SUFFICES ASSUME NEW g \in Guard, Holds(p, g)' PROVE Holds(p, g) /\ g.trace \notin aborted'
    BY QuietHeld
  <2>1. Holds(p, g)
    BY DEF Holds
  <2>2. g.trace \notin aborted
    BY <1>1, <2>1 DEF AtWork, HeldOK, GuardOK
  <2>3. pc[p] \in WithItem => g.trace # item[p].trace
    BY <1>1, <2>1 DEF AtWork, ItemOK, ItemIsOK, Holds, StepOf
  <2> QED  BY <2>1, <2>2, <2>3
<1>4. HeldApart(p)'
  BY <1>1 DEF AtWork, HeldApart, StepOf
<1>5. PicksOK(p)'
  BY <1>1 DEF AtWork, PicksOK, PickOK, Plain, StepOf, Quiet
<1>6. CallOK(p)'
  BY <1>1 DEF AtWork, CallOK, Quiet
<1>7. \A t, u \in mine'[p] : SameStep(t, u) => worker'[t] = "none" \/ worker'[u] = "none"
  BY <1>1 DEF AtWork, Quiet
<1>8. AtWork(p)'
  BY <1>3, <1>4, <1>5, <1>6, <1>7 DEF AtWork, SameStep, StepOf
<1> QED
  BY <1>2, <1>8, QuietKeeps

\* The rest of a sequence of guards
LEMMA TailOfGuards ==
    ASSUME NEW s \in Seq(Guard), s # <<>>
    PROVE  /\ Head(s) \in Guard /\ 1 \in DOMAIN s /\ s[1] = Head(s)
           /\ Tail(s) \in Seq(Guard)
           /\ \A j \in DOMAIN Tail(s) : j + 1 \in DOMAIN s /\ Tail(s)[j] = s[j + 1] /\ j \in 1 .. Len(s) - 1
           /\ DOMAIN s = 1 .. Len(s) /\ Len(s) \in Nat
OBVIOUS

\* A call takes the first of its waiting steps.
LEMMA TakeKeeps ==
    ASSUME NEW p \in Runners, TruthInv, Quiet(p), Typed', UNCHANGED <<picked, mine, call>>,
           ItemOK(p)', pc'[p] \notin {"idle", "select"}, pc[p] # "dispatch",
           held[p] # <<>>, held'[p] = Tail(held[p]),
           \A t \in aborted' \ aborted : t = Head(held[p]).trace
    PROVE  TruthInv'
<1>1. AtWork(p) /\ Typed /\ PicksTyped
  BY DEF TruthInv
<1>2. PicksTyped'
  BY <1>1 DEF PicksTyped
<1> DEFINE h == held[p]
<1>3. /\ h \in Seq(Guard) /\ h # <<>>
  BY <1>1 DEF Typed
<1>4. /\ Head(h) \in Guard /\ 1 \in DOMAIN h /\ h[1] = Head(h)
      /\ \A j \in DOMAIN Tail(h) : j + 1 \in DOMAIN h /\ Tail(h)[j] = h[j + 1] /\ j \in 1 .. Len(h) - 1
      /\ DOMAIN h = 1 .. Len(h) /\ Len(h) \in Nat
  <2> HIDE DEF h
  <2> QED  BY <1>3, TailOfGuards
<1>5. \A j \in DOMAIN held'[p] : /\ j + 1 \in DOMAIN h /\ held'[p][j] = h[j + 1]
                                 /\ j + 1 # 1 /\ j \in Nat
  BY <1>4
<1>6. HeldOK(p)'
  <2> SUFFICES ASSUME NEW g \in Guard, Holds(p, g)' PROVE Holds(p, g) /\ g.trace \notin aborted'
    BY QuietHeld
  <2>1. PICK j \in DOMAIN held'[p] : held'[p][j] = g
    BY DEF Holds
  <2>2. Holds(p, g)
    BY <1>5, <2>1 DEF Holds
  <2>3. g.trace \notin aborted
    BY <1>1, <2>2 DEF AtWork, HeldOK, GuardOK
  <2>4. StepOf(g.trace) # StepOf(h[1].trace)
    BY <1>1, <1>4, <1>5, <2>1 DEF AtWork, HeldApart
  <2> QED  BY <1>4, <2>2, <2>3, <2>4
<1>7. HeldApart(p)'
  <2> SUFFICES ASSUME NEW i \in DOMAIN held'[p], NEW j \in DOMAIN held'[p], i # j
               PROVE  held'[p][i].trace[1] # held'[p][j].trace[1]
    BY DEF HeldApart, StepOf
  <2>1. i + 1 \in DOMAIN h /\ j + 1 \in DOMAIN h /\ i + 1 # j + 1
    BY <1>5
  <2> QED  BY <1>1, <1>5, <2>1 DEF AtWork, HeldApart, StepOf
<1>8. PicksOK(p)'
  BY <1>1, <1>5 DEF AtWork, PicksOK, PickOK, Plain, StepOf, Quiet
<1>9. CallOK(p)'
  BY <1>1, <1>5 DEF AtWork, CallOK, Quiet
<1>10. \A t, u \in mine'[p] : SameStep(t, u) => worker'[t] = "none" \/ worker'[u] = "none"
  BY <1>1 DEF AtWork, Quiet
<1>11. AtWork(p)'
  BY <1>6, <1>7, <1>8, <1>9, <1>10 DEF AtWork, SameStep, StepOf
<1> QED
  BY <1>2, <1>11, QuietKeeps

\* The step in progress stays in order from one label to the next.
LEMMA UnsettledMoves ==
    ASSUME NEW p \in Runners, TruthInv, Quiet(p), UNCHANGED <<item, held, picked, mine>>,
           pc[p] \in Unsettled, pc'[p] \in Unsettled,
           pc'[p] \in {"evidence", "judge", "transition"} => pc[p] \in {"evidence", "judge", "transition"},
           pc'[p] = "drop" => \/ pc[p] \in {"evidence", "judge", "transition"}
                              \/ item[p].trace \in aborted'
    PROVE  ItemOK(p)'
<1>1. item[p] \in Guard
  BY DEF TruthInv, AtWork, ItemOK, WithItem
<1> SUFFICES ASSUME NEW g \in Guard, item[p] = g PROVE ItemIsOK(p, g)'
  BY <1>1 DEF ItemOK
<1>2. ItemIsOK(p, g) /\ UnsettledOK(p, g)
  BY DEF TruthInv, AtWork, ItemOK, ItemIsOK, WithItem
<1>3. \A b : AnchorBody(g.trace, b)' <=> AnchorBody(g.trace, b)
  BY DEF Quiet, AnchorBody
<1>4. Transitioned(g.trace)' <=> Transitioned(g.trace)
  BY DEF Quiet, Transitioned, TransitionEntry
<1>5. UnsettledOK(p, g)'
  BY <1>2, <1>4 DEF UnsettledOK, MemTells, Quiet
<1>6. pc'[p] \notin Fresh /\ pc'[p] \notin Naming
  BY DEF Unsettled, Fresh, Naming
<1> QED
  BY <1>2, <1>3, <1>5, <1>6 DEF ItemIsOK, StepOf, Quiet

\* Judging a dispatched step against the replayed log writes nothing.
LEMMA JudgeKeeps ==
    ASSUME NEW p \in Runners, TruthInv, Judge(p) \/ StepFails(p)
    PROVE  TruthInv'
<1> USE DEF disk, locals, history, env, Goto, OnStepError, Judge, StepFails
<1>1. Typed
  BY DEF TruthInv
<1>2. /\ pc[p] \in {"evidence", "judge", "transition"}
      /\ pc'[p] \in {"transition", "final", "drop", "fail"}
      /\ pc'[p] = "transition" => pc[p] = "judge"
  BY <1>1 DEF Typed
<1>3. Quiet(p) /\ UNCHANGED <<item, held, picked, mine, call, aborted>>
  BY <1>1, <1>2 DEF Quiet, SameCall, Typed, Anchoring, TruthInv
<1>4. Typed'
  BY <1>1 DEF Typed, Label, WithItem, Unsettled
<1>5. ItemOK(p)'
  BY <1>2, <1>3, UnsettledMoves DEF Unsettled
<1> QED
  BY <1>2, <1>3, <1>4, <1>5, MoveKeeps

\* When the replay before TraceGuard::finish fails, the item is left to the guard's drop.
LEMMA FinishFailsKeeps ==
    ASSUME NEW p \in Runners, TruthInv, FinishReplayFails(p)
    PROVE  TruthInv'
<1> USE DEF disk, locals, history, env, Goto, FinishReplayFails
<1>1. Typed
  BY DEF TruthInv
<1>2. pc[p] \in {"fail", "final"} /\ pc'[p] = "drop" /\ aborted' = aborted \cup {item[p].trace}
  BY <1>1 DEF Typed
<1>3. Quiet(p) /\ UNCHANGED <<item, held, picked, mine, call>>
  BY <1>1, <1>2 DEF Quiet, SameCall, Typed, Anchoring, TruthInv, Owns, WithItem, Unsettled
<1>4. Typed'
  BY <1>1 DEF Typed, Label, WithItem, Unsettled
<1>5. ItemOK(p)'
  BY <1>2, <1>3, UnsettledMoves DEF Unsettled
<1> QED
  BY <1>2, <1>3, <1>4, <1>5, MoveKeeps DEF WithItem, Unsettled

\* A call that is about to give up has no step in progress.
LEMMA GiveUpKeeps ==
    ASSUME NEW p \in Runners, TruthInv, Goto(p, "abort"), pc[p] \notin Naming \cup {"dispatch"},
           UNCHANGED <<disk, locals, history>>
    PROVE  TruthInv'
<1> USE DEF disk, locals, history, Goto
<1>1. Typed
  BY DEF TruthInv
<1>2. pc'[p] = "abort"
  BY <1>1 DEF Typed
<1>3. Quiet(p) /\ UNCHANGED <<held, picked, mine, call, aborted>>
  BY <1>1 DEF Quiet, SameCall, Typed, Anchoring, TruthInv, Naming
<1>4. Typed'
  BY <1>1 DEF Typed, Label
<1>5. ItemOK(p)'
  BY <1>2 DEF ItemOK, WithItem, Fresh, Unsettled, Naming
<1> QED
  BY <1>2, <1>3, <1>4, <1>5, MoveKeeps

\* A refused anchor append leaves the name to be taken back (write_and_anchor_trace).
LEMMA AnchorFailsKeeps ==
    ASSUME NEW p \in Runners, TruthInv, AnchorFails(p)
    PROVE  TruthInv'
<1> USE DEF disk, locals, history, env, Goto, AnchorFails
<1>1. Typed
  BY DEF TruthInv
<1>2. pc[p] = "anchor" /\ pc'[p] = "rewind"
  BY <1>1 DEF Typed
<1>3. Quiet(p) /\ UNCHANGED <<item, held, picked, mine, call, aborted>>
  BY <1>1, <1>2 DEF Quiet, SameCall, Typed, Anchoring, TruthInv
<1>4. Typed'
  BY <1>1 DEF Typed, Label, WithItem, Naming
<1>5. ItemOK(p)'
  <2>1. item[p] \in Guard
    BY <1>2 DEF TruthInv, AtWork, ItemOK, WithItem, Naming
  <2> SUFFICES ASSUME NEW g \in Guard, item[p] = g PROVE ItemIsOK(p, g)'
    BY <1>3, <2>1 DEF ItemOK
  <2>2. ItemIsOK(p, g) /\ NamingOK(g)
    BY <1>2 DEF TruthInv, AtWork, ItemOK, ItemIsOK, WithItem, Naming
  <2>3. \A b : AnchorBody(g.trace, b)' <=> AnchorBody(g.trace, b)
    BY DEF AnchorBody
  <2>4. Transitioned(g.trace)' <=> Transitioned(g.trace)
    BY DEF Transitioned, TransitionEntry
  <2>5. NamingOK(g)'
    BY <2>2, <2>4 DEF NamingOK, MemTells
  <2>6. pc'[p] \notin Fresh /\ pc'[p] \notin Unsettled
    BY <1>2 DEF Unsettled, Fresh
  <2> QED  BY <2>2, <2>3, <2>5, <2>6 DEF ItemIsOK, StepOf
<1> QED
  BY <1>2, <1>3, <1>4, <1>5, MoveKeeps

\* Joining the threads (execute_selected_steps) only moves the call on to its results.
LEMMA JoinKeeps ==
    ASSUME NEW p \in Runners, TruthInv, Join(p)
    PROVE  TruthInv'
<1> USE DEF disk, locals, history, env, Goto, Join
<1>1. Typed
  BY DEF TruthInv
<1>2. pc[p] = "dispatch" /\ pc'[p] = "apply"
  BY <1>1 DEF Typed
<1>3. Quiet(p) /\ UNCHANGED <<item, held, picked, mine, call, aborted>>
  BY <1>1, <1>2 DEF Quiet, SameCall, Typed, Anchoring, TruthInv
<1>4. Typed'
  BY <1>1 DEF Typed, Label
<1>5. ItemOK(p)'
  BY <1>2 DEF ItemOK, WithItem, Fresh, Unsettled, Naming
<1> QED
  BY <1>2, <1>3, <1>4, <1>5, MoveKeeps

\* The state of a step whose result is being applied
LEMMA TakenItem ==
    ASSUME NEW p \in Runners, TruthInv, Quiet(p), NEW g \in Guard, held[p] # <<>>, g = Head(held[p]),
           mine'[p] = mine[p], held'[p] = Tail(held[p]), pc[p] # "dispatch", pc'[p] \in Unsettled,
           item'[p] = [g EXCEPT !.mem = Learned(g)],
           g.trace \in aborted' \/ g.got \in {"ok", "failed", "rejected", "unspawned"}
    PROVE  ItemOK(p)'
<1>1. AtWork(p) /\ held[p] \in Seq(Guard)
  BY DEF TruthInv, Typed
<1>2. /\ 1 \in DOMAIN held[p] /\ held[p][1] = g
      /\ \A j \in DOMAIN held'[p] : j + 1 \in DOMAIN held[p] /\ held'[p][j] = held[p][j + 1] /\ j + 1 # 1
  <2> DEFINE h == held[p]
  <2>1. h \in Seq(Guard) /\ h # <<>> /\ held'[p] = Tail(h) /\ g = Head(h)
    BY <1>1
  <2> HIDE DEF h
  <2>2. /\ 1 \in DOMAIN h /\ h[1] = g /\ Len(h) \in Nat
        /\ \A j \in DOMAIN Tail(h) : j + 1 \in DOMAIN h /\ Tail(h)[j] = h[j + 1] /\ j \in 1 .. Len(h) - 1
    BY <2>1, TailOfGuards
  <2>3. \A j \in DOMAIN Tail(h) : j + 1 # 1
    BY <2>2
  <2> QED  BY <2>1, <2>2, <2>3 DEF h
<1>3. GuardOK(p, g) /\ g.got \in Answers \cup {"none"}
  BY <1>1, <1>2 DEF AtWork, HeldOK, Holds, CallOK
<1>4. /\ item'[p] \in Guard /\ item'[p].trace = g.trace /\ item'[p].got = g.got
      /\ item'[p].mem = Learned(g) /\ Learned(g) \in Trace
      /\ HasReport(g.got) =>
            /\ Learned(g).state = "started" /\ Learned(g).out = "worker"
            /\ Learned(g).applied = FALSE /\ Learned(g).invoked = TRUE /\ Learned(g).anchor = FALSE
      /\ ~HasReport(g.got) => Untold(Learned(g))
  <2>1. g.mem \in Trace /\ Untold(g.mem)
    BY <1>3 DEF Guard, GuardOK
  <2>2. /\ Executed(g.mem) \in Trace
        /\ Executed(g.mem).state = "started" /\ Executed(g.mem).out = "worker"
        /\ Executed(g.mem).applied = FALSE /\ Executed(g.mem).invoked = TRUE
        /\ Executed(g.mem).anchor = FALSE
    BY <2>1 DEF Executed, Trace, Artifacts, Untold
  <2>3. Learned(g) \in Trace
    BY <2>1, <2>2 DEF Learned
  <2>4. /\ item'[p] \in Guard /\ item'[p].trace = g.trace /\ item'[p].got = g.got
        /\ item'[p].mem = Learned(g)
    BY <2>3 DEF Guard
  <2> QED  BY <2>1, <2>2, <2>3, <2>4 DEF Learned
<1> SUFFICES ASSUME NEW k \in Guard, item'[p] = k PROVE ItemIsOK(p, k)'
  BY <1>4 DEF ItemOK
<1>5. \A b : AnchorBody(g.trace, b)' <=> AnchorBody(g.trace, b)
  BY DEF Quiet, AnchorBody
<1>6. Transitioned(g.trace)' <=> Transitioned(g.trace)
  BY DEF Quiet, Transitioned, TransitionEntry
<1>7. UnsettledOK(p, k)'
  <2>1. k.trace = g.trace /\ k.mem.state = "started" /\ k.mem.applied = FALSE /\ k.mem.anchor = FALSE
    BY <1>4 DEF Untold
  <2>2. worker[g.trace] # "running"
    BY <1>3 DEF GuardOK, WorkerFits, Answers
  <2>3. k.trace \notin aborted' => /\ MemTells(k.trace, k.mem)'
                                   /\ worker'[k.trace] # "none" => file'[k.trace].invoked = TRUE
    BY <1>3, <1>4, <1>6 DEF GuardOK, WorkerFits, Untold, MemTells, HasReport, Quiet
  <2> QED  BY <1>3, <2>1, <2>2, <2>3 DEF UnsettledOK, GuardOK, Quiet
<1>8. \A i \in DOMAIN held'[p] : StepOf(held'[p][i].trace) # StepOf(k.trace)
  BY <1>1, <1>2, <1>4 DEF AtWork, HeldApart
<1>9. k.mem.anchor = FALSE
  BY <1>4 DEF Untold
<1>10. pc'[p] \notin Fresh /\ pc'[p] \notin Naming
  BY DEF Unsettled, Fresh, Naming
<1> QED
  BY <1>3, <1>4, <1>5, <1>7, <1>8, <1>9, <1>10 DEF ItemIsOK, GuardOK, StepOf

\* Taking a result up for its application turns what the thread knew into the item's facts.
LEMMA ApplyKeeps ==
    ASSUME NEW p \in Runners, TruthInv,
           \/ ApplyRejected(p) \/ ApplyExecuted(p) \/ ApplyReplayFails(p)
           \/ ApplyUnspawned(p) \/ ApplyLost(p)
    PROVE  TruthInv'
<1> USE DEF disk, history, env, Goto
<1>1. Typed /\ AtWork(p) /\ held[p] \in Seq(Guard)
  BY DEF TruthInv, Typed
<1>2. TakeHeld(p) /\ UNCHANGED <<aborted, stranded>>
  BY DEF ApplyRejected, ApplyExecuted, ApplyReplayFails, ApplyUnspawned, ApplyLost
<1>3. pc[p] = "apply" /\ held[p] # <<>>
  BY <1>2 DEF TakeHeld
<1>4. PICK g \in Guard : g = Head(held[p])
  <2> DEFINE h == held[p]
  <2>1. h \in Seq(Guard) /\ h # <<>>
    BY <1>1, <1>3
  <2> HIDE DEF h
  <2>2. Head(h) \in Guard
    BY <2>1, TailOfGuards
  <2> QED  BY <2>2 DEF h
<1>5. Tail(held[p]) \in Seq(Guard)
  BY <1>1, <1>3
<1>6. /\ held' = [held EXCEPT ![p] = Tail(held[p])]
      /\ item' = [item EXCEPT ![p] = [g EXCEPT !.mem = Learned(g)]]
  BY <1>2, <1>4 DEF TakeHeld
<1>7. [g EXCEPT !.mem = Learned(g)] \in Guard
  <2>1. g.mem \in Trace
    BY DEF Guard
  <2>2. Learned(g) \in Trace
    BY <2>1 DEF Learned, Executed, Trace, Artifacts
  <2> QED  BY <2>2 DEF Guard
<1>8. /\ pc'[p] \in Unsettled \cup {"abort"}
      /\ pc' = [pc EXCEPT ![p] = pc'[p]]
      /\ pc'[p] # "abort" => g.got \in {"ok", "failed", "rejected", "unspawned"}
  BY <1>1, <1>4 DEF ApplyRejected, ApplyExecuted, ApplyReplayFails, ApplyUnspawned, ApplyLost,
                    OnStepError, Typed, Unsettled, HasReport
<1>9. Typed'
  <2>1. pc' \in [Runners -> Label]
    BY <1>1, <1>8 DEF Typed, Label, WithItem
  <2>2. held' \in [Runners -> Seq(Guard)]
    BY <1>1, <1>5, <1>6 DEF Typed
  <2>3. item' \in [Runners -> Guard \cup {NoItem}]
    BY <1>1, <1>6, <1>7 DEF Typed
  <2>4. /\ UNCHANGED <<made, file, out, worker, call, mine, picked>>
        /\ DOMAIN phase' = Runners
    BY <1>1, <1>2 DEF TakeHeld, Typed
  <2> QED  BY <1>1, <2>1, <2>2, <2>3, <2>4 DEF Typed
<1>10. Quiet(p) /\ UNCHANGED <<picked, mine, call>>
  BY <1>1, <1>2, <1>3, <1>6, <1>8 DEF Quiet, SameCall, Typed, Anchoring, TruthInv, TakeHeld
<1>11. held'[p] = Tail(held[p]) /\ item'[p] = [g EXCEPT !.mem = Learned(g)]
  BY <1>1, <1>6 DEF Typed
<1>12. ItemOK(p)'
  <2>1. CASE pc'[p] = "abort"
    BY <2>1 DEF ItemOK, WithItem, Fresh, Unsettled, Naming
  <2>2. CASE pc'[p] # "abort"
    BY <1>3, <1>4, <1>8, <1>10, <1>11, <2>2, TakenItem
  <2> QED  BY <2>1, <2>2
<1>13. pc'[p] \notin {"idle", "select"}
  BY <1>8 DEF Unsettled
<1> QED
  BY <1>2, <1>3, <1>9, <1>10, <1>11, <1>12, <1>13, TakeKeeps

\* The guards of the remaining steps are dropped; their traces are given up.
LEMMA AbortKeeps ==
    ASSUME NEW p \in Runners, TruthInv, Abort(p)
    PROVE  TruthInv'
<1> USE DEF disk, history, env, Goto
<1>1. Typed /\ AtWork(p) /\ held[p] \in Seq(Guard) /\ pc[p] = "abort"
  BY DEF TruthInv, Typed, Abort
<1>2. CASE held[p] = <<>>
  BY <1>1, <1>2, ReturnKeeps DEF Abort, TruthInv, Naming
<1>3. CASE held[p] # <<>>
  <2> DEFINE h == held[p]
             g == Head(h)
  <2>1. h \in Seq(Guard) /\ h # <<>>
    BY <1>1, <1>3
  <2>2. /\ g \in Guard /\ 1 \in DOMAIN h /\ h[1] = g /\ Tail(h) \in Seq(Guard) /\ Len(h) \in Nat
        /\ \A j \in DOMAIN Tail(h) : j + 1 \in DOMAIN h /\ Tail(h)[j] = h[j + 1] /\ j \in 1 .. Len(h) - 1
    <3> HIDE DEF h
    <3> QED  BY <2>1, TailOfGuards
  <2>3. /\ item' = [item EXCEPT ![p] = g] /\ held' = [held EXCEPT ![p] = Tail(h)]
        /\ aborted' = aborted \cup {g.trace} /\ pc' = [pc EXCEPT ![p] = "drop"]
        /\ UNCHANGED <<disk, call, picked, phase, mine, stranded>>
    BY <1>3 DEF Abort
  <2>4. Typed'
    BY <1>1, <2>2, <2>3 DEF Typed, Label, WithItem, Unsettled
  <2>5. /\ pc'[p] = "drop" /\ held'[p] = Tail(h) /\ item'[p] = g
    BY <1>1, <2>3 DEF Typed
  <2>6. Owns(p, g.trace)
    BY <2>2 DEF Owns
  <2>7. Quiet(p)
    BY <1>1, <2>3, <2>6 DEF Quiet, SameCall, Typed, Anchoring, TruthInv
  <2>8. ItemOK(p)'
    <3> SUFFICES ASSUME NEW k \in Guard, item'[p] = k PROVE ItemIsOK(p, k)'
      BY <2>2, <2>5 DEF ItemOK
    <3>1. k = h[1] /\ 1 \in DOMAIN h
      BY <2>2, <2>5
    <3>2. GuardOK(p, k) /\ k.got \in Answers \cup {"none"}
      BY <1>1, <3>1 DEF AtWork, HeldOK, Holds, CallOK
    <3>3. \A b : AnchorBody(k.trace, b)' <=> AnchorBody(k.trace, b)
      BY <2>3 DEF AnchorBody
    <3>4. UnsettledOK(p, k)'
      BY <2>2, <2>3, <2>5, <3>1, <3>2 DEF UnsettledOK, GuardOK, WorkerFits, Untold, Answers
    <3>5. \A i \in DOMAIN held'[p] : StepOf(held'[p][i].trace) # StepOf(k.trace)
      BY <1>1, <2>2, <2>5, <3>1 DEF AtWork, HeldApart
    <3> QED
      BY <2>3, <2>5, <3>2, <3>3, <3>4, <3>5 DEF ItemIsOK, GuardOK, Untold, StepOf, Fresh, Naming
  <2> QED
    BY <1>1, <1>3, <2>3, <2>4, <2>5, <2>7, <2>8, TakeKeeps
<1> QED  BY <1>2, <1>3

\* A round ends with no step held; a plain dispatch returns, operate selects again.
LEMMA EndRoundKeeps ==
    ASSUME NEW p \in Runners, TruthInv, EndRound(p)
    PROVE  TruthInv'
<1> USE DEF disk, history, env, Goto
<1>1. Typed /\ AtWork(p) /\ pc[p] = "apply" /\ held[p] = <<>>
  BY DEF TruthInv, EndRound
<1>2. CASE Return(p)
  BY <1>1, <1>2, ReturnKeeps DEF EndRound, TruthInv, Naming
<1>3. CASE call[p].mode = "operate" /\ pc' = [pc EXCEPT ![p] = "select"] /\ ~Return(p)
  <2>1. /\ item' = [item EXCEPT ![p] = NoItem] /\ phase' = [phase EXCEPT ![p] = "none"]
        /\ UNCHANGED <<disk, call, picked, held, mine, aborted, stranded>>
    BY <1>3 DEF EndRound
  <2>2. Typed' /\ PicksTyped'
    BY <1>1, <1>3, <2>1 DEF Typed, PicksTyped, Label, TruthInv
  <2>3. pc'[p] = "select"
    BY <1>1, <1>3 DEF Typed
  <2>4. Quiet(p)
    BY <1>1, <1>3, <2>1 DEF Quiet, SameCall, Typed, Anchoring, TruthInv
  <2>5. HeldOK(p)'
    BY <1>1, <2>1 DEF HeldOK, Holds
  <2>6. HeldApart(p)'
    BY <1>1, <2>1 DEF HeldApart
  <2>7. PicksOK(p)'
    BY <1>1, <2>1 DEF AtWork, PicksOK, PickOK, Plain, StepOf
  <2>8. ItemOK(p)'
    BY <2>3 DEF ItemOK, WithItem, Fresh, Unsettled, Naming
  <2>9. CallOK(p)'
    BY <1>1, <1>3, <2>1, <2>3 DEF AtWork, CallOK
  <2>10. AtWork(p)'
    BY <1>1, <2>1, <2>5, <2>6, <2>7, <2>8, <2>9 DEF AtWork, SameStep, StepOf
  <2> QED  BY <2>2, <2>4, <2>10, QuietKeeps
<1> QED  BY <1>2, <1>3 DEF EndRound

\* A call begins with an empty history: its supersessions name earlier calls' traces.
LEMMA BeginKeeps ==
    ASSUME NEW p \in Runners, TruthInv, Begin(p)
    PROVE  TruthInv'
<1> USE DEF disk, history, env, Goto
<1>1. Typed /\ AtWork(p) /\ pc[p] = "idle" /\ held[p] = <<>> /\ mine[p] = {}
  BY DEF TruthInv, Begin, AtWork, CallOK
<1>2. PICK mode \in Modes, retry \in SUBSET Steps, supersede \in SUBSET {t \in TraceId : Started(t)} :
          /\ mode = "operate" => retry = {}
          /\ call' = [call EXCEPT ![p] = [mode |-> mode, retry |-> retry, supersede |-> supersede]]
  BY DEF Begin
<1>3. /\ pc' = [pc EXCEPT ![p] = "select"]
      /\ UNCHANGED <<disk, picked, held, item, phase, mine, aborted, stranded>>
  BY DEF Begin
<1>4. supersede \subseteq made /\ supersede \subseteq TraceId
  BY DEF TruthInv, TraceOK, Started, NoTrace
<1>5. Typed' /\ PicksTyped'
  BY <1>1, <1>2, <1>3, <1>4, DispatchAssumption DEF Typed, PicksTyped, Label, TruthInv
<1>6. /\ pc'[p] = "select" /\ call'[p].mode = mode /\ call'[p].retry = retry
      /\ call'[p].supersede = supersede
  BY <1>1, <1>2, <1>3 DEF Typed
<1>7. Quiet(p)
  BY <1>1, <1>2, <1>3 DEF Quiet, SameCall, Typed, Anchoring, TruthInv
<1>8. HeldOK(p)'
  BY <1>1, <1>3 DEF HeldOK, Holds
<1>9. HeldApart(p)'
  BY <1>1, <1>3 DEF HeldApart
<1>10. PicksOK(p)'
  BY <1>1, <1>3 DEF AtWork, PicksOK, PickOK, Plain, StepOf
<1>11. ItemOK(p)'
  BY <1>6 DEF ItemOK, WithItem, Fresh, Unsettled, Naming
<1>12. CallOK(p)'
  BY <1>1, <1>2, <1>3, <1>4, <1>6 DEF CallOK
<1>13. AtWork(p)'
  BY <1>1, <1>3, <1>8, <1>9, <1>10, <1>11, <1>12 DEF AtWork, SameStep, StepOf
<1> QED  BY <1>5, <1>7, <1>13, QuietKeeps

\* What select_steps chooses has no attempt that the call would repeat.
LEMMA ChosenIsNew ==
    ASSUME NEW p \in Runners, NEW s \in Steps, NEW rejected, TruthInv, pc[p] = "select", Selectable(p, s)
    PROVE  PickOK(p, Pick(p, s, rejected))
<1> DEFINE w == Pick(p, s, rejected)
<1>1. w.step = s /\ w.attempt = Cardinality(TracesOf(s)) + 1 /\ w.retried = FailedTraces(s)
      /\ w.superseded = {t \in call[p].supersede : StepOf(t) = s}
  BY DEF Pick
<1>2. AtWork(p) /\ Typed
  BY DEF TruthInv
<1>3. \A t \in TraceId : file[t] # NoTrace =>
          \/ Started(t) \/ file[t].state = "failed"
          \/ file[t].state = "completed" /\ file[t].applied = TRUE
  BY <1>2 DEF TruthInv, TraceOK, Typed, Trace, Started
<1>4. ASSUME Plain(w) PROVE w.attempt = 1
  <2>1. TracesOf(s) = {}
    <3> SUFFICES ASSUME NEW t \in TracesOf(s) PROVE FALSE
      OBVIOUS
    <3>1. t \in TraceId /\ StepOf(t) = s /\ file[t] # NoTrace
      BY DEF TracesOf
    <3>2. ~Started(t)
      BY <1>1, <1>4, <3>1 DEF Plain, Selectable, InProgress
    <3>3. file[t].state # "failed"
      BY <1>1, <1>4 DEF Plain, FailedTraces
    <3> QED  BY <1>3, <3>1, <3>2, <3>3 DEF Selectable, AlreadyExecuted
  <2> QED  BY <1>1, <2>1, FS_EmptySet
<1>5. ASSUME NEW t \in mine[p], StepOf(t) = s PROVE worker[t] = "none"
  <2> SUFFICES ASSUME worker[t] # "none" PROVE FALSE
    OBVIOUS
  <2>1. t \in TraceId /\ file[t] # NoTrace
    BY <1>2 DEF Typed, TruthInv, TraceOK
  <2>2. t \in TracesOf(s)
    BY <1>5, <2>1 DEF TracesOf
  <2>3. call[p].retry = {} /\ t \notin call[p].supersede
    BY <1>2 DEF AtWork, CallOK
  <2> QED
    BY <1>3, <2>1, <2>2, <2>3 DEF Selectable, InProgress, AlreadyExecuted, RetryRequired, FailedTraces
<1>6. DOMAIN held[p] = {}
  BY <1>2 DEF AtWork, CallOK
<1> QED  BY <1>1, <1>4, <1>5, <1>6 DEF PickOK

\* select_steps picks only steps that no worker of this call was started for.
LEMMA SelectKeeps ==
    ASSUME NEW p \in Runners, TruthInv, Select(p)
    PROVE  TruthInv'
<1> USE DEF disk, history, env, Goto
<1>1. Typed /\ AtWork(p) /\ pc[p] = "select" /\ held[p] = <<>>
  BY DEF TruthInv, Select, AtWork, CallOK
<1>2. PICK rejected \in Rejections(p) :
          picked' = [picked EXCEPT ![p] = {Pick(p, s, rejected) : s \in Round(p, rejected)}]
  BY DEF Select
<1>3. /\ pc' = [pc EXCEPT ![p] = "reserve"]
      /\ UNCHANGED <<disk, call, held, item, phase, mine, aborted, stranded>>
  BY DEF Select
<1>4. /\ pc'[p] = "reserve"
      /\ \A w : w \in picked'[p] => \E s \in Round(p, rejected) : w = Pick(p, s, rejected)
  BY <1>1, <1>2, <1>3 DEF Typed
<1>5. \A s \in Round(p, rejected) : s \in Steps /\ Selectable(p, s)
  BY DEF Round, OnePerCell
<1>6. \A s : /\ Pick(p, s, rejected).step = s
             /\ Pick(p, s, rejected).rejected \in BOOLEAN
             /\ Pick(p, s, rejected).retried \in SUBSET TraceId
             /\ Pick(p, s, rejected).superseded \in SUBSET TraceId
  <2>1. call[p].supersede \in SUBSET TraceId
    BY <1>1 DEF Typed
  <2> QED  BY <2>1 DEF Pick, FailedTraces, TracesOf
<1>7. Typed'
  BY <1>1, <1>2, <1>3 DEF Typed, Label
<1>8. PicksTyped'
  <2> SUFFICES ASSUME NEW q \in Runners, NEW w \in picked'[q]
               PROVE  /\ w.step \in Steps /\ w.rejected \in BOOLEAN
                      /\ w.retried \in SUBSET TraceId /\ w.superseded \in SUBSET TraceId
    BY DEF PicksTyped
  <2>1. CASE q = p
    BY <1>4, <1>5, <1>6, <2>1
  <2>2. CASE q # p
    BY <1>1, <1>2, <2>2 DEF Typed, TruthInv, PicksTyped
  <2> QED  BY <2>1, <2>2
<1>9. Quiet(p)
  BY <1>1, <1>2, <1>3 DEF Quiet, SameCall, Typed, Anchoring, TruthInv
<1>10. HeldOK(p)'
  BY <1>1, <1>3 DEF HeldOK, Holds
<1>11. HeldApart(p)'
  BY <1>1, <1>3 DEF HeldApart
<1>12. PicksOK(p)'
  <2> SUFFICES ASSUME NEW w, w \in picked'[p] PROVE PickOK(p, w)'
    BY DEF PicksOK
  <2>1. PICK s \in Round(p, rejected) : w = Pick(p, s, rejected)
    BY <1>4
  <2>2. \E x : x = Pick(p, s, rejected) /\ PickOK(p, x)
    BY <1>1, <1>5, ChosenIsNew
  <2>3. PickOK(p, w)
    BY <2>1, <2>2
  <2> QED  BY <1>3, <2>3 DEF PickOK, Plain, StepOf
<1>13. ItemOK(p)'
  BY <1>4 DEF ItemOK, WithItem, Fresh, Unsettled, Naming
<1>14. CallOK(p)'
  BY <1>1, <1>3, <1>4 DEF AtWork, CallOK
<1>15. AtWork(p)'
  BY <1>1, <1>3, <1>10, <1>11, <1>12, <1>13, <1>14 DEF AtWork, SameStep, StepOf
<1> QED  BY <1>7, <1>8, <1>9, <1>15, QuietKeeps

----------------------------------------------------------------------------
(* Steps that write: each of them touches one trace, which its call owns. *)

Touches(p, x) ==
    /\ \A t \in TraceId \ {x} : file'[t] = file[t] /\ out'[t] = out[t] /\ worker'[t] = worker[t]
    /\ \A t, b : t # x => (AnchorBody(t, b)' <=> AnchorBody(t, b))
    /\ \A t : t # x => (Transitioned(t)' <=> Transitioned(t))
    /\ Finished(x) => Finished(x)'
    /\ aborted' = aborted /\ made' = made /\ mine' = mine
    /\ stranded \subseteq stranded' /\ stranded' \subseteq made
    /\ \A q \in Runners \ {p} : SameCall(q)

\* Such a step is confined; it remains to look at its own call and its own trace.
LEMMA TouchKeeps ==
    ASSUME NEW p \in Runners, NEW x \in TraceId, TruthInv, Typed', PicksTyped', Owns(p, x), Touches(p, x),
           \A t \in TraceId \ {x} : ~Anchoring(p, t),
           AtWork(p)', TraceOK(x)'
    PROVE  TruthInv'
<1>1. \A t \in TraceId \ {x} : Same(t)
  BY DEF Touches, Same
<1>2. \A t \in TraceId : Finished(t) => Finished(t)'
  BY DEF Touches, Finished
<1>3. Confined(p)
  <2>1. mine'[p] \subseteq made' /\ aborted' \subseteq made' /\ stranded' \subseteq made'
    BY DEF Touches, TruthInv, AtWork, CallOK
  <2>2. \A t, b : AnchorBody(t, b)' => t \in TraceId
    BY DEF Touches, TruthInv
  <2> QED  BY <1>1, <1>2, <2>1, <2>2 DEF Confined, Touches
<1>4. \A t \in TraceId : TraceOK(t)'
  BY <1>1, <1>3, OtherTraces
<1> QED
  BY <1>3, <1>4, ConfinedKeeps

\* The waiting steps other than the one whose trace is touched
LEMMA TouchHeld ==
    ASSUME NEW p \in Runners, NEW x \in TraceId, TruthInv, Touches(p, x),
           \A g \in Guard : Holds(p, g)' =>
                (Holds(p, g) /\ StepOf(g.trace) # StepOf(x)) \/ GuardOK(p, g)'
    PROVE  HeldOK(p)'
<1> SUFFICES ASSUME NEW g \in Guard, Holds(p, g), StepOf(g.trace) # StepOf(x) PROVE GuardOK(p, g)'
  BY DEF HeldOK
<1>1. GuardOK(p, g) /\ mine[p] \subseteq TraceId
  BY DEF TruthInv, AtWork, HeldOK, Typed
<1>2. Same(g.trace) /\ g.trace \in mine'[p]
  BY <1>1 DEF Touches, Same, GuardOK, Guard
<1>3. \A t \in TraceId : Finished(t) => Finished(t)'
  BY DEF Touches, Finished
<1>4. \A u \in mine'[p] : SameStep(g.trace, u) => u \in mine[p] /\ worker'[u] = worker[u]
  BY <1>1 DEF Touches, SameStep
<1> QED  BY <1>1, <1>2, <1>3, <1>4, GuardKept

\* The trace of a waiting step tells as much as is known.
LEMMA GuardTells ==
    ASSUME NEW p \in Runners, NEW g \in Guard, GuardOK(p, g)', (g.trace \in made)'
    PROVE  TraceOK(g.trace)'
<1>1. file'[g.trace] # NoTrace
  BY DEF GuardOK, Trace, NoTrace
<1>2. ~Finished(g.trace)'
  BY DEF GuardOK, Finished
<1>3. worker'[g.trace] # "none" => file'[g.trace].invoked = TRUE
  BY DEF GuardOK, WorkerFits, Guard, Answers
<1>4. worker'[g.trace] = "running" /\ Plain(file[g.trace])' => EarlierFinished(g.trace)'
  BY DEF GuardOK, Plain
<1> QED
  BY <1>1, <1>2, <1>3, <1>4 DEF GuardOK, TraceOK

\* A step of a dispatch thread
LEMMA ThreadKeeps ==
    ASSUME NEW p \in Runners, TruthInv, Typed', pc[p] = "dispatch",
           NEW i, i \in DOMAIN held[p], NEW g \in Guard, held[p][i] = g,
           NEW k \in Guard, k.trace = g.trace,
           held' = [held EXCEPT ![p][i] = k],
           UNCHANGED <<pc, call, item, picked, phase>>,
           Touches(p, g.trace), GuardOK(p, k)'
    PROVE  TruthInv'
<1> DEFINE x == g.trace
<1>1. Typed /\ AtWork(p) /\ x \in TraceId /\ GuardOK(p, g)
  BY DEF TruthInv, AtWork, HeldOK, Holds, Guard
<1>2. /\ DOMAIN held'[p] = DOMAIN held[p]
      /\ held'[p][i] = k
      /\ \A j \in DOMAIN held[p] : j # i => held'[p][j] = held[p][j]
  BY <1>1 DEF Typed
<1>3. \A j \in DOMAIN held[p] : j # i => StepOf(held[p][j].trace) # StepOf(x)
  BY <1>1 DEF AtWork, HeldApart
<1>4. \A j \in DOMAIN held[p] : held'[p][j].trace = held[p][j].trace
  BY <1>2
<1>5. HeldOK(p)'
  <2> SUFFICES ASSUME NEW h \in Guard, Holds(p, h)'
               PROVE  (Holds(p, h) /\ StepOf(h.trace) # StepOf(x)) \/ GuardOK(p, h)'
    BY <1>1, TouchHeld
  <2>1. PICK j \in DOMAIN held'[p] : held'[p][j] = h
    BY DEF Holds
  <2>2. CASE j = i
    BY <1>2, <2>1, <2>2
  <2>3. CASE j # i
    BY <1>2, <1>3, <2>1, <2>3 DEF Holds
  <2> QED  BY <2>2, <2>3
<1>6. HeldApart(p)'
  BY <1>1, <1>2, <1>4 DEF AtWork, HeldApart, StepOf
<1>7. \A t \in mine[p] : t # x => worker'[t] = worker[t]
  BY <1>1 DEF Touches, Typed
<1>8. PicksOK(p)'
  <2> SUFFICES ASSUME NEW w, w \in picked[p] PROVE PickOK(p, w)'
    BY DEF PicksOK
  <2>1. PickOK(p, w)
    BY <1>1 DEF AtWork, PicksOK
  <2>2. StepOf(x) # w.step
    BY <2>1 DEF PickOK
  <2> QED  BY <1>2, <1>4, <1>7, <2>1, <2>2 DEF PickOK, Plain, StepOf, Touches
<1>9. ItemOK(p)'
  BY DEF ItemOK, WithItem, Fresh, Unsettled, Naming
<1>10. CallOK(p)'
  BY <1>1 DEF AtWork, CallOK, Touches
<1>11. \A t, u \in mine'[p] : SameStep(t, u) => worker'[t] = "none" \/ worker'[u] = "none"
  <2> SUFFICES ASSUME NEW t \in mine[p], NEW u \in mine[p], SameStep(t, u)
               PROVE  worker'[t] = "none" \/ worker'[u] = "none"
    BY DEF Touches
  <2>1. CASE t = x
    BY <1>1, <1>7, <2>1 DEF GuardOK, SameStep
  <2>2. CASE u = x
    BY <1>1, <1>7, <2>2 DEF GuardOK, SameStep
  <2>3. CASE t # x /\ u # x
    BY <1>1, <1>7, <2>3 DEF AtWork
  <2> QED  BY <2>1, <2>2, <2>3
<1>12. AtWork(p)'
  BY <1>5, <1>6, <1>8, <1>9, <1>10, <1>11 DEF AtWork, SameStep, StepOf
<1>13. PicksTyped'
  BY DEF TruthInv, PicksTyped
<1>14. TraceOK(x)'
  <2>1. x \in made'
    BY <1>1 DEF AtWork, CallOK, GuardOK, Touches
  <2>2. TraceOK(k.trace)'
    BY <2>1, GuardTells
  <2> QED  BY <2>2
<1>15. Owns(p, x)
  BY DEF Owns
<1>16. \A t \in TraceId \ {x} : ~Anchoring(p, t)
  BY DEF Anchoring
<1> HIDE DEF x
<1>17. Touches(p, x)
  BY DEF x
<1> QED
  BY <1>1, <1>12, <1>13, <1>14, <1>15, <1>16, <1>17, TouchKeeps

\* What a thread does to its own step
LEMMA GuardStep ==
    ASSUME NEW p \in Runners, TruthInv, NEW g \in Guard, GuardOK(p, g), Touches(p, g.trace),
           NEW k \in Guard, k.trace = g.trace, k.mem = g.mem, UNCHANGED log,
           file'[g.trace] \in Trace,
           \A f \in {"state", "anchor", "retried", "superseded"} : file'[g.trace][f] = file[g.trace][f],
           WorkerFits(k)'
    PROVE  GuardOK(p, k)'
<1> DEFINE x == g.trace
<1>1. x \in TraceId /\ mine[p] \subseteq TraceId
  BY DEF Guard, TruthInv, Typed
<1>2. \A b : AnchorBody(x, b)' <=> AnchorBody(x, b)
  BY DEF AnchorBody
<1>3. Transitioned(x)' <=> Transitioned(x)
  BY DEF Transitioned, TransitionEntry
<1>4. Plain(g.mem) => EarlierFinished(x)'
  <2> SUFFICES ASSUME Plain(g.mem), NEW j \in 1 .. x[2] - 1 PROVE Finished(<<x[1], j>>)'
    BY DEF EarlierFinished
  <2>1. <<x[1], j>> \in TraceId
    BY <1>1, EarlierTrace
  <2>2. <<x[1], j>> # x
    <3>1. x[2] \in Int /\ j < x[2]
      BY <1>1 DEF TraceId
    <3> QED  BY <3>1
  <2>3. Finished(<<x[1], j>>)
    BY DEF GuardOK, EarlierFinished
  <2> QED  BY <2>1, <2>2, <2>3 DEF Touches, Finished
<1>5. \A u \in mine[p] : SameStep(x, u) => worker'[u] = "none"
  BY <1>1 DEF GuardOK, Touches, SameStep
<1>6. \A u \in mine'[p] : SameStep(k.trace, u) => worker'[u] = "none"
  BY <1>5 DEF Touches
<1>7. /\ file'[x].state = "started" /\ file'[x].anchor = FALSE
      /\ file'[x].retried = g.mem.retried /\ file'[x].superseded = g.mem.superseded
  BY DEF GuardOK
<1>8. k.trace \in mine'[p] /\ k.trace \notin aborted'
  BY DEF GuardOK, Touches
<1> QED
  BY <1>2, <1>3, <1>4, <1>6, <1>7, <1>8 DEF GuardOK

\* Every step of a thread changes one held guard and the trace that guard alone owns.
LEMMA ThreadStepsKeep ==
    ASSUME NEW p \in Runners, TruthInv, NEW i, Thread(p, i)
    PROVE  TruthInv'
<1> USE DEF disk, history, env
<1>1. Typed /\ AtWork(p) /\ pc[p] = "dispatch" /\ i \in DOMAIN held[p]
  BY DEF TruthInv, Thread, Reject, Mark, SpawnFails, Spawn, Exit, ExitLost, Running
<1>2. PICK g \in Guard : held[p][i] = g
  BY <1>1 DEF Typed
<1>3. GuardOK(p, g) /\ g.trace \in TraceId /\ g.mem \in Trace /\ file[g.trace] \in Trace
  BY <1>1, <1>2 DEF AtWork, HeldOK, Holds, Guard, GuardOK
<1>4. /\ UNCHANGED <<log, made, pc, call, picked, item, phase, mine, aborted, stranded>>
  BY DEF Thread, Reject, Mark, SpawnFails, Spawn, Exit, ExitLost
<1>5. ASSUME NEW v \in Answers \cup {"marked", "running"}, Got(p, i, v),
             file' \in [TraceId -> Trace \cup {NoTrace}], out' \in [TraceId -> Artifacts],
             worker' \in [TraceId -> {"none", "running", "done"}],
             \A t \in TraceId \ {g.trace} :
                 file'[t] = file[t] /\ out'[t] = out[t] /\ worker'[t] = worker[t],
             file'[g.trace] \in Trace,
             \A f \in {"state", "anchor", "retried", "superseded"} : file'[g.trace][f] = file[g.trace][f],
             WorkerFits([g EXCEPT !.got = v])'
      PROVE  TruthInv'
  <2> DEFINE k == [g EXCEPT !.got = v]
  <2>1. k \in Guard /\ k.trace = g.trace /\ k.mem = g.mem
    BY DEF Guard
  <2>2. held' = [held EXCEPT ![p][i] = k]
    BY <1>2, <1>5 DEF Got
  <2>3. held' \in [Runners -> Seq(Guard)]
    <3>1. held[p] \in Seq(Guard)
      BY <1>1 DEF Typed
    <3>2. [held[p] EXCEPT ![i] = k] \in Seq(Guard)
      BY <1>1, <2>1, <3>1
    <3> QED  BY <1>1, <2>2, <3>2 DEF Typed
  <2>4. Typed'
    BY <1>1, <1>4, <1>5, <2>3 DEF Typed
  <2>5. Touches(p, g.trace)
    <3>1. \A q \in Runners \ {p} : SameCall(q)
      BY <1>1, <1>4, <2>2 DEF SameCall, Typed
    <3>2. Finished(g.trace) => Finished(g.trace)'
      BY <1>3 DEF GuardOK, Finished
    <3> QED  BY <1>4, <1>5, <3>1, <3>2 DEF Touches, AnchorBody, Transitioned, TransitionEntry, TruthInv
  <2>6. WorkerFits(k)'
    BY <1>5
  <2> HIDE DEF k
  <2>7. \E x \in Guard : x = k /\ x.trace = g.trace /\ x.mem = g.mem /\ WorkerFits(x)'
    BY <2>1, <2>6
  <2>8. PICK x \in Guard : x = k /\ x.trace = g.trace /\ x.mem = g.mem /\ WorkerFits(x)'
    BY <2>7
  <2>9. GuardOK(p, x)'
    BY <1>3, <1>4, <1>5, <2>5, <2>8, GuardStep
  <2> QED  BY <1>1, <1>2, <1>4, <2>2, <2>4, <2>5, <2>8, <2>9, ThreadKeeps
<1>6. \A v \in Answers \cup {"marked", "running"} :
          [g EXCEPT !.got = v].got = v /\ [g EXCEPT !.got = v].trace = g.trace
  BY DEF Guard
<1>7. WorkerFits(g)
  BY <1>3 DEF GuardOK
<1>8. CASE Reject(p, i)
  <2>1. Got(p, i, "rejected") /\ UNCHANGED <<file, out, worker>> /\ g.got = "none"
    BY <1>2, <1>8 DEF Reject, Running
  <2>2. WorkerFits([g EXCEPT !.got = "rejected"])'
    BY <1>6, <1>7, <2>1 DEF WorkerFits, Answers
  <2> QED  BY <1>1, <1>3, <1>5, <2>1, <2>2 DEF Typed, Answers
<1>9. CASE SpawnFails(p, i)
  <2>1. Got(p, i, "unspawned") /\ UNCHANGED <<file, out, worker>> /\ g.got \in {"none", "marked"}
    BY <1>2, <1>9 DEF SpawnFails, Running
  <2>2. WorkerFits([g EXCEPT !.got = "unspawned"])'
    BY <1>6, <1>7, <2>1 DEF WorkerFits, Answers
  <2> QED  BY <1>1, <1>3, <1>5, <2>1, <2>2 DEF Typed, Answers
<1>10. CASE Mark(p, i)
  <2>1. /\ Got(p, i, "marked") /\ UNCHANGED <<out, worker>> /\ g.got = "none"
        /\ file' = [file EXCEPT ![g.trace].invoked = TRUE]
    BY <1>2, <1>10 DEF Mark, Running
  <2>2. /\ file'[g.trace] \in Trace /\ file'[g.trace].invoked = TRUE
        /\ \A f \in {"state", "anchor", "retried", "superseded"} : file'[g.trace][f] = file[g.trace][f]
        /\ file' \in [TraceId -> Trace \cup {NoTrace}]
    <3>1. /\ [file[g.trace] EXCEPT !.invoked = TRUE] \in Trace
          /\ [file[g.trace] EXCEPT !.invoked = TRUE].invoked = TRUE
          /\ \A f \in {"state", "anchor", "retried", "superseded"} :
                 [file[g.trace] EXCEPT !.invoked = TRUE][f] = file[g.trace][f]
      BY <1>3 DEF Trace
    <3>2. file' = [file EXCEPT ![g.trace] = [file[g.trace] EXCEPT !.invoked = TRUE]]
      BY <2>1
    <3> QED  BY <1>1, <1>3, <3>1, <3>2 DEF Typed
  <2>3. WorkerFits([g EXCEPT !.got = "marked"])'
    BY <1>6, <1>7, <2>1, <2>2 DEF WorkerFits
  <2>4. \A t \in TraceId \ {g.trace} : file'[t] = file[t]
    BY <1>1, <2>1 DEF Typed
  <2> QED  BY <1>1, <1>3, <1>5, <2>1, <2>2, <2>3, <2>4 DEF Typed
<1>11. CASE Spawn(p, i)
  <2>1. /\ Got(p, i, "running") /\ UNCHANGED <<file, out>> /\ g.got = "marked"
        /\ worker' = [worker EXCEPT ![g.trace] = "running"]
    BY <1>2, <1>11 DEF Spawn, Running
  <2>2. worker'[g.trace] = "running" /\ \A t \in TraceId \ {g.trace} : worker'[t] = worker[t]
    BY <1>1, <1>3, <2>1 DEF Typed
  <2>3. WorkerFits([g EXCEPT !.got = "running"])'
    BY <1>6, <1>7, <2>1, <2>2 DEF WorkerFits
  <2> QED  BY <1>1, <1>3, <1>5, <2>1, <2>2, <2>3 DEF Typed
<1>12. CASE Exit(p, i)
  <2>1. PICK v \in {"ok", "failed"} : Got(p, i, v)
    BY <1>12 DEF Exit
  <2>2. /\ UNCHANGED file /\ g.got = "running"
        /\ worker' = [worker EXCEPT ![g.trace] = "done"] /\ out' = [out EXCEPT ![g.trace] = "worker"]
    BY <1>2, <1>12 DEF Exit, Running
  <2>3. /\ worker'[g.trace] = "done" /\ \A t \in TraceId \ {g.trace} : worker'[t] = worker[t]
        /\ out'[g.trace] = "worker" /\ \A t \in TraceId \ {g.trace} : out'[t] = out[t]
    BY <1>1, <1>3, <2>2 DEF Typed
  <2>4. WorkerFits([g EXCEPT !.got = v])'
    BY <1>6, <1>7, <2>2, <2>3 DEF WorkerFits, Answers
  <2>5. out' \in [TraceId -> Artifacts] /\ worker' \in [TraceId -> {"none", "running", "done"}]
    BY <1>1, <2>2 DEF Typed, Artifacts
  <2> QED  BY <1>1, <1>3, <1>5, <2>1, <2>2, <2>3, <2>4, <2>5 DEF Typed, Answers
<1>13. CASE ExitLost(p, i)
  <2>1. PICK a \in {"initial", "worker"} : out' = [out EXCEPT ![g.trace] = a]
    BY <1>2, <1>13 DEF ExitLost
  <2>2. /\ Got(p, i, "lost") /\ UNCHANGED file /\ g.got = "running"
        /\ worker' = [worker EXCEPT ![g.trace] = "done"]
    BY <1>2, <1>13 DEF ExitLost, Running
  <2>3. /\ worker'[g.trace] = "done" /\ \A t \in TraceId \ {g.trace} : worker'[t] = worker[t]
        /\ \A t \in TraceId \ {g.trace} : out'[t] = out[t]
    BY <1>1, <1>3, <2>1, <2>2 DEF Typed
  <2>4. WorkerFits([g EXCEPT !.got = "lost"])'
    BY <1>6, <1>7, <2>2, <2>3 DEF WorkerFits, Answers
  <2>5. out' \in [TraceId -> Artifacts] /\ worker' \in [TraceId -> {"none", "running", "done"}]
    BY <1>1, <2>1, <2>2 DEF Typed, Artifacts
  <2> QED  BY <1>1, <1>3, <1>5, <2>2, <2>3, <2>4, <2>5 DEF Typed, Answers
<1> QED
  BY <1>8, <1>9, <1>10, <1>11, <1>12, <1>13 DEF Thread

\* A step that writes about the step in progress
LEMMA ItemTouchKeeps ==
    ASSUME NEW p \in Runners, TruthInv, Typed', pc[p] \in WithItem,
           NEW x \in TraceId, x = item[p].trace, Touches(p, x),
           UNCHANGED <<held, call, worker>>, picked'[p] \subseteq picked[p],
           pc'[p] \notin {"idle", "select"}, ItemOK(p)', TraceOK(x)'
    PROVE  TruthInv'
<1>1. Typed /\ AtWork(p) /\ PicksTyped
  BY DEF TruthInv
<1>2. \A i \in DOMAIN held[p] : StepOf(held[p][i].trace) # StepOf(x)
  BY <1>1 DEF AtWork, ItemOK, ItemIsOK
<1>3. HeldOK(p)'
  <2> SUFFICES ASSUME NEW h \in Guard, Holds(p, h)'
               PROVE  Holds(p, h) /\ StepOf(h.trace) # StepOf(x)
    BY TouchHeld
  <2> QED  BY <1>2 DEF Holds
<1>4. HeldApart(p)'
  BY <1>1 DEF AtWork, HeldApart, StepOf
<1>5. PicksOK(p)'
  BY <1>1 DEF AtWork, PicksOK, PickOK, Plain, StepOf, Touches
<1>6. CallOK(p)'
  BY <1>1 DEF AtWork, CallOK, Touches, WithItem, Fresh, Unsettled, Naming
<1>7. \A t, u \in mine'[p] : SameStep(t, u) => worker'[t] = "none" \/ worker'[u] = "none"
  BY <1>1 DEF AtWork, Touches
<1>8. AtWork(p)'
  BY <1>3, <1>4, <1>5, <1>6, <1>7 DEF AtWork, SameStep, StepOf
<1>9. PicksTyped'
  BY <1>1 DEF PicksTyped, Touches, SameCall
<1>10. Owns(p, x)
  BY DEF Owns
<1>11. \A t \in TraceId \ {x} : ~Anchoring(p, t)
  BY DEF Anchoring
<1> QED
  BY <1>8, <1>9, <1>10, <1>11, TouchKeeps

\* The trace of a step that is not settled tells of no anchor, and of its worker.
LEMMA UnsettledTells ==
    ASSUME NEW p \in Runners, NEW g \in Guard, UnsettledOK(p, g)', (g.trace \in made)',
           \A b : ~AnchorBody(g.trace, b)'
    PROVE  TraceOK(g.trace)'
<1>1. file'[g.trace] # NoTrace
  BY DEF UnsettledOK, Trace, NoTrace
<1>2. ~Finished(g.trace)'
  BY DEF UnsettledOK, Finished
<1> QED
  BY <1>1, <1>2 DEF UnsettledOK, TraceOK

\* The item of a call that has one, and what is known of it
LEMMA ItemKnown ==
    ASSUME NEW p \in Runners, TruthInv, pc[p] \in WithItem
    PROVE  \E g \in Guard :
              /\ item[p] = g /\ ItemIsOK(p, g) /\ g.trace \in TraceId /\ g.trace \in made
              /\ g.mem \in Trace /\ TraceOK(g.trace)
<1>1. PICK g \in Guard : item[p] = g /\ ItemIsOK(p, g)
  BY DEF TruthInv, AtWork, ItemOK
<1>2. g.trace \in TraceId /\ g.mem \in Trace
  BY DEF Guard
<1> QED  BY <1>1, <1>2 DEF TruthInv, AtWork, CallOK, ItemIsOK

\* Evidence is neither an anchor nor a transition: what traces tell is unchanged.
LEMMA EvidenceKeeps ==
    ASSUME NEW p \in Runners, TruthInv, LogIsSequence, AppendEvidence(p)
    PROVE  TruthInv'
<1> USE DEF disk, locals, history, env, Goto, AppendEvidence
<1>1. Typed /\ pc[p] = "evidence" /\ pc[p] \in WithItem
  BY DEF TruthInv, WithItem, Unsettled
<1>2. PICK g \in Guard : /\ item[p] = g /\ ItemIsOK(p, g) /\ g.trace \in TraceId /\ g.trace \in made
                         /\ g.mem \in Trace /\ TraceOK(g.trace)
  BY <1>1, ItemKnown
<1>3. pc'[p] = "judge" /\ pc' = [pc EXCEPT ![p] = "judge"]
  BY <1>1 DEF Typed
<1>4. /\ \A t, b : AnchorBody(t, b)' <=> AnchorBody(t, b)
      /\ \A t : Transitioned(t)' <=> Transitioned(t)
  <2>1. EvidenceEntry(item[p].trace).kind = "evidence"
    BY DEF EvidenceEntry
  <2>2. \A t : EvidenceEntry(item[p].trace) # TransitionEntry(t)
    BY DEF EvidenceEntry, TransitionEntry
  <2> QED  BY <2>1, <2>2, LogStep
<1>5. Typed'
  BY <1>1 DEF Typed, Label, WithItem, Unsettled
<1>6. Touches(p, g.trace)
  BY <1>1, <1>4 DEF Touches, SameCall, Typed, Finished, TruthInv
<1>7. UnsettledOK(p, g)'
  BY <1>1, <1>2, <1>3, <1>4 DEF ItemIsOK, UnsettledOK, MemTells, Unsettled
<1>8. ItemOK(p)'
  <2> SUFFICES ASSUME NEW h \in Guard, item'[p] = h PROVE ItemIsOK(p, h)'
    BY <1>2 DEF ItemOK
  <2>1. h = g
    BY <1>2
  <2> QED  BY <1>2, <1>3, <1>4, <1>7, <2>1 DEF ItemIsOK, StepOf, Fresh, Naming
<1>9. TraceOK(g.trace)'
  BY <1>2, <1>4, <1>7, UnsettledTells DEF ItemIsOK
<1> QED
  BY <1>1, <1>2, <1>3, <1>5, <1>6, <1>8, <1>9, ItemTouchKeeps

\* The transition is in the log, and the trace in memory knows.
LEMMA TransitionKeeps ==
    ASSUME NEW p \in Runners, TruthInv, LogIsSequence, AppendTransition(p)
    PROVE  TruthInv'
<1> USE DEF disk, locals, history, env, Goto, AppendTransition
<1>1. Typed /\ pc[p] = "transition" /\ pc[p] \in WithItem
  BY DEF TruthInv, WithItem, Unsettled
<1>2. PICK g \in Guard : /\ item[p] = g /\ ItemIsOK(p, g) /\ g.trace \in TraceId /\ g.trace \in made
                         /\ g.mem \in Trace /\ TraceOK(g.trace)
  BY <1>1, ItemKnown
<1>3. pc'[p] = "final" /\ pc' = [pc EXCEPT ![p] = "final"]
  BY <1>1 DEF Typed
<1>4. /\ \A t, b : AnchorBody(t, b)' <=> AnchorBody(t, b)
      /\ \A t : Transitioned(t)' <=> Transitioned(t) \/ t = g.trace
  <2>1. TransitionEntry(item[p].trace).kind = "transition"
    BY DEF TransitionEntry
  <2>2. \A t : TransitionEntry(item[p].trace) = TransitionEntry(t) <=> t = g.trace
    BY <1>2 DEF TransitionEntry
  <2> QED  BY <2>1, <2>2, LogStep
<1> DEFINE m == [g.mem EXCEPT !.applied = TRUE]
           k == [g EXCEPT !.mem = m]
<1>5. /\ m \in Trace /\ m.applied = TRUE
      /\ m.state = g.mem.state /\ m.anchor = g.mem.anchor /\ m.invoked = g.mem.invoked /\ m.out = g.mem.out
  BY <1>2 DEF Trace
<1>6. k \in Guard /\ k.trace = g.trace /\ k.mem = m
  BY <1>5 DEF Guard
<1>7. item' = [item EXCEPT ![p] = k] /\ item'[p] = k
  <2>1. item' = [item EXCEPT ![p].mem = [item[p].mem EXCEPT !.applied = TRUE]]
    BY DEF SetMem
  <2> QED  BY <1>1, <1>2, <2>1 DEF Typed
<1>8. Typed'
  BY <1>1, <1>3, <1>6, <1>7 DEF Typed, Label, WithItem, Unsettled
<1>9. Touches(p, g.trace)
  BY <1>1, <1>4, <1>7 DEF Touches, SameCall, Typed, Finished, TruthInv
<1>10. PICK h \in Guard : h = k
  BY <1>6
<1>11. UnsettledOK(p, h)'
  <2>1. UnsettledOK(p, g)
    BY <1>1, <1>2 DEF ItemIsOK, Unsettled
  <2> HIDE DEF m
  <2> QED  BY <1>3, <1>4, <1>5, <1>6, <1>10, <2>1 DEF UnsettledOK, MemTells
<1>12. ItemOK(p)'
  <2> SUFFICES ASSUME NEW f \in Guard, item'[p] = f PROVE ItemIsOK(p, f)'
    BY <1>6, <1>7 DEF ItemOK
  <2>1. f = h /\ f.trace = g.trace /\ f.mem.anchor = FALSE
    BY <1>2, <1>5, <1>6, <1>7, <1>10 DEF ItemIsOK
  <2> QED  BY <1>2, <1>3, <1>4, <1>11, <2>1 DEF ItemIsOK, StepOf, Fresh, Naming
<1>13. TraceOK(g.trace)'
  <2>1. h.trace = g.trace
    BY <1>6, <1>10
  <2>2. h.trace \in made' /\ \A b : ~AnchorBody(h.trace, b)'
    BY <1>2, <1>4, <2>1 DEF ItemIsOK
  <2>3. TraceOK(h.trace)'
    BY <1>11, <2>2, UnsettledTells
  <2> QED  BY <2>1, <2>3
<1> QED
  BY <1>1, <1>2, <1>3, <1>8, <1>9, <1>12, <1>13, ItemTouchKeeps

\* A trace that is ready to be written for the last time
SettledMem(g) ==
    /\ g.mem.state \in {"completed", "failed"} /\ g.mem.anchor = FALSE
    /\ g.mem.state = "completed" => g.mem.applied = TRUE
    /\ worker[g.trace] # "running"
    /\ g.trace \notin aborted => MemTells(g.trace, g.mem)

\* It is written, either with the anchor it is about to get or without one.
LEMMA WriteKeeps ==
    ASSUME NEW p \in Runners, TruthInv, pc[p] \in WithItem,
           NEW g \in Guard, item[p] = g, NEW k \in Guard, k.trace = g.trace, SettledMem(k),
           item' = [item EXCEPT ![p] = k],
           NEW l \in Label \ {"idle", "select"}, pc' = [pc EXCEPT ![p] = l],
           \/ l = "anchor" /\ file' = [file EXCEPT ![g.trace] = NamingAnchor(k.mem)]
           \/ l \notin WithItem /\ file' = [file EXCEPT ![g.trace] = k.mem],
           UNCHANGED <<log, made, out, worker, held, call, picked, mine, aborted, stranded>>,
           DOMAIN phase' = Runners, \A q \in Runners \ {p} : phase'[q] = phase[q]
    PROVE  TruthInv'
<1> DEFINE x == g.trace
           v == file'[x]
<1>1. Typed /\ AtWork(p)
  BY DEF TruthInv
<1>2. /\ ItemIsOK(p, g) /\ x \in TraceId /\ x \in made /\ k.mem \in Trace /\ TraceOK(x)
  BY ItemKnown DEF Guard
<1>3. /\ NamingAnchor(k.mem) \in Trace
      /\ NamingAnchor(k.mem).anchor = TRUE
      /\ \A f \in {"state", "applied", "invoked", "out", "retried", "superseded"} :
             NamingAnchor(k.mem)[f] = k.mem[f]
  BY <1>2 DEF NamingAnchor, Trace
<1>4. /\ v \in Trace /\ v \in {NamingAnchor(k.mem), k.mem}
      /\ file' = [file EXCEPT ![x] = v]
  BY <1>1, <1>2, <1>3 DEF Typed
<1>5. /\ v.state \in {"completed", "failed"} /\ v.state = k.mem.state /\ v.applied = k.mem.applied
      /\ v.invoked = k.mem.invoked
      /\ l # "anchor" => v.anchor = FALSE
      /\ l = "anchor" => v = NamingAnchor(k.mem)
  BY <1>1, <1>2, <1>3, <1>4 DEF SettledMem, Typed, WithItem, Naming
<1>6. \A t, b : AnchorBody(t, b)' <=> AnchorBody(t, b)
  BY DEF AnchorBody
<1>7. \A t : Transitioned(t)' <=> Transitioned(t)
  BY DEF Transitioned, TransitionEntry
<1>8. pc'[p] = l /\ item'[p] = k /\ file'[x] = v /\ \A t \in TraceId \ {x} : file'[t] = file[t]
  BY <1>1, <1>2, <1>4 DEF Typed
<1>9. Finished(x)'
  BY <1>5 DEF Finished
<1> HIDE DEF v
<1>10. Typed'
  BY <1>1, <1>4 DEF Typed
<1>11. Touches(p, x)
  BY <1>1, <1>6, <1>7, <1>8, <1>9 DEF Touches, SameCall, Typed, TruthInv
<1>12. ItemOK(p)'
  <2>1. CASE l # "anchor"
    BY <1>8, <2>1 DEF ItemOK
  <2>2. CASE l = "anchor"
    <3> SUFFICES ASSUME NEW f \in Guard, item'[p] = f PROVE ItemIsOK(p, f)'
      BY <1>8 DEF ItemOK
    <3>1. f = k
      BY <1>8
    <3>2. NamingOK(f)'
      BY <1>5, <1>7, <1>8, <2>2, <3>1 DEF NamingOK, SettledMem, MemTells
    <3> QED
      BY <1>2, <1>6, <1>8, <2>2, <3>1, <3>2 DEF ItemIsOK, SettledMem, StepOf, Fresh, Unsettled
  <2> QED  BY <2>1, <2>2
<1>13. TraceOK(x)'
  <2>1. \A b : ~AnchorBody(x, b)'
    BY <1>2, <1>6 DEF ItemIsOK
  <2>2. x \notin aborted => /\ v.applied = TRUE <=> Transitioned(x)'
                            /\ v.invoked = TRUE <=> worker[x] # "none"
    BY <1>5, <1>7 DEF SettledMem, MemTells
  <2>3. v.anchor = TRUE => Anchoring(p, x)'
    BY <1>5, <1>8 DEF Anchoring
  <2>4. v # NoTrace
    BY <1>5 DEF NoTrace
  <2>5. worker[x] # "running" /\ (v.state = "completed" => v.applied = TRUE)
    BY <1>5 DEF SettledMem
  <2> QED  BY <1>2, <1>8, <2>1, <2>2, <2>3, <2>4, <2>5 DEF TraceOK
<1> HIDE DEF x
<1>14. x = item[p].trace
  BY DEF x
<1> QED
  BY <1>2, <1>8, <1>10, <1>11, <1>12, <1>13, <1>14, ItemTouchKeeps

\* What an item becomes when its trace is changed in memory
LEMMA SetMemIs ==
    ASSUME NEW p \in Runners, Typed, NEW g \in Guard, item[p] = g, NEW m \in Trace, SetMem(p, m)
    PROVE  \E k \in Guard : k.trace = g.trace /\ k.mem = m /\ item' = [item EXCEPT ![p] = k]
<1> DEFINE k == [g EXCEPT !.mem = m]
<1>1. k \in Guard /\ k.trace = g.trace /\ k.mem = m
  BY DEF Guard
<1>2. item' = [item EXCEPT ![p] = k]
  BY DEF SetMem, Typed
<1> QED  BY <1>1, <1>2

\* TraceGuard::finish writes the record of the transition that was appended.
LEMMA FinishKeeps ==
    ASSUME NEW p \in Runners, TruthInv, IInv, Finish(p)
    PROVE  TruthInv'
<1> USE DEF disk, locals, history, env, Goto
<1>1. Typed /\ pc[p] \in {"fail", "final", "refused"} /\ pc[p] \in WithItem
  BY DEF TruthInv, Finish, WithItem, Unsettled
<1>2. PICK g \in Guard : /\ item[p] = g /\ ItemIsOK(p, g) /\ g.trace \in TraceId /\ g.trace \in made
                         /\ g.mem \in Trace /\ TraceOK(g.trace)
  BY <1>1, ItemKnown
<1>3. UnsettledOK(p, g) /\ g.mem.anchor = FALSE
  BY <1>1, <1>2 DEF ItemIsOK, Unsettled
<1> DEFINE m == SettledTrace(g.mem)
<1>4. /\ m \in Trace /\ m.state = (IF g.mem.applied THEN "completed" ELSE "failed")
      /\ m.applied = g.mem.applied /\ m.invoked = g.mem.invoked /\ m.out = g.mem.out
      /\ m.anchor = g.mem.anchor
  BY <1>2 DEF SettledTrace, Trace
<1>5. SetMem(p, m)
  BY <1>2 DEF Finish
<1>6. PICK k \in Guard : k.trace = g.trace /\ k.mem = m /\ item' = [item EXCEPT ![p] = k]
  BY <1>1, <1>2, <1>4, <1>5, SetMemIs
<1>7. SettledMem(k)
  <2>1. g.mem.applied \in BOOLEAN
    BY <1>2 DEF Trace
  <2> HIDE DEF m
  <2> QED  BY <1>3, <1>4, <1>6, <2>1 DEF SettledMem, UnsettledOK, MemTells
<1>8. Onward(p) \in Label \ ({"idle", "select"} \cup WithItem)
  BY <1>1 DEF IInv, PhaseKnown, Settling, Onward, AfterReserve, Label, WithItem, Fresh, Unsettled, Naming
<1>9. PICK l \in Label \ {"idle", "select"} :
        /\ pc' = [pc EXCEPT ![p] = l]
        /\ \/ l = "anchor" /\ file' = [file EXCEPT ![g.trace] = NamingAnchor(k.mem)]
           \/ l \notin WithItem /\ file' = [file EXCEPT ![g.trace] = k.mem]
  <2>1. CASE WriteTrace(p, NamingAnchor(m)) /\ pc' = [pc EXCEPT ![p] = "anchor"]
    BY <1>2, <1>6, <2>1 DEF WriteTrace, Label, WithItem, Naming
  <2>2. CASE WriteTrace(p, m) /\ pc' = [pc EXCEPT ![p] = Onward(p)]
    BY <1>2, <1>6, <1>8, <2>2 DEF WriteTrace
  <2> QED  BY <1>2, <2>1, <2>2 DEF Finish
<1>10. UNCHANGED <<log, made, out, worker, held, call, picked, mine, phase, aborted, stranded>>
  BY DEF Finish
<1> QED
  BY <1>1, <1>2, <1>6, <1>7, <1>9, <1>10, WriteKeeps DEF Typed

\* TraceGuard's drop writes what the guard remembers, ahead of its anchor.
LEMMA DropKeeps ==
    ASSUME NEW p \in Runners, TruthInv, Drop(p)
    PROVE  TruthInv'
<1> USE DEF disk, locals, history, env, Goto
<1>1. Typed /\ pc[p] = "drop" /\ pc[p] \in WithItem
  BY DEF TruthInv, Drop, WithItem, Unsettled
<1>2. PICK g \in Guard : /\ item[p] = g /\ ItemIsOK(p, g) /\ g.trace \in TraceId /\ g.trace \in made
                         /\ g.mem \in Trace /\ TraceOK(g.trace)
  BY <1>1, ItemKnown
<1>3. UnsettledOK(p, g) /\ g.mem.anchor = FALSE
  BY <1>1, <1>2 DEF ItemIsOK, Unsettled
<1> DEFINE m == DroppedTrace(g.mem)
<1>4. /\ m \in Trace /\ m.state = "failed" /\ m.applied = FALSE
      /\ m.invoked = g.mem.invoked /\ m.out = g.mem.out /\ m.anchor = g.mem.anchor
  BY <1>2 DEF DroppedTrace, Trace
<1>5. SetMem(p, m)
  BY <1>2 DEF Drop
<1>6. PICK k \in Guard : k.trace = g.trace /\ k.mem = m /\ item' = [item EXCEPT ![p] = k]
  BY <1>1, <1>2, <1>4, <1>5, SetMemIs
<1>7. SettledMem(k)
  <2> HIDE DEF m
  <2> QED  BY <1>1, <1>3, <1>4, <1>6 DEF SettledMem, UnsettledOK, MemTells
<1>8. /\ UNCHANGED <<log, made, out, worker, held, call, picked, mine, aborted, stranded>>
      /\ DOMAIN phase' = Runners /\ \A q \in Runners \ {p} : phase'[q] = phase[q]
  BY <1>1 DEF Drop, Typed
<1>9. CASE WriteTrace(p, NamingAnchor(m)) /\ pc' = [pc EXCEPT ![p] = "anchor"]
  <2>1. file' = [file EXCEPT ![g.trace] = NamingAnchor(k.mem)] /\ "anchor" \in Label \ {"idle", "select"}
    BY <1>2, <1>6, <1>9 DEF WriteTrace, Label, WithItem, Naming
  <2> QED  BY <1>1, <1>2, <1>6, <1>7, <1>8, <1>9, <2>1, WriteKeeps
<1>10. CASE WriteTrace(p, m) /\ pc' = [pc EXCEPT ![p] = "abort"]
  <2>1. /\ file' = [file EXCEPT ![g.trace] = k.mem]
        /\ "abort" \in Label \ {"idle", "select"} /\ "abort" \notin WithItem
    BY <1>2, <1>6, <1>10 DEF WriteTrace, Label, WithItem, Fresh, Unsettled, Naming
  <2> QED  BY <1>1, <1>2, <1>6, <1>7, <1>8, <1>10, <2>1, WriteKeeps
<1>11. CASE UNCHANGED file /\ pc' = [pc EXCEPT ![p] = "abort"]
  <2>1. pc'[p] = "abort"
    BY <1>1, <1>11 DEF Typed
  <2>2. Quiet(p)
    BY <1>1, <1>6, <1>8, <1>11 DEF Quiet, SameCall, Typed, Anchoring, TruthInv
  <2>3. Typed'
    BY <1>1, <1>6, <1>8, <1>11 DEF Typed, Label
  <2>4. ItemOK(p)'
    BY <2>1 DEF ItemOK, WithItem, Fresh, Unsettled, Naming
  <2> QED  BY <1>1, <1>8, <2>1, <2>2, <2>3, <2>4, MoveKeeps
<1> QED
  BY <1>2, <1>9, <1>10, <1>11 DEF Drop

\* Taking the anchor's name back restores the record as finished.
LEMMA RewindKeeps ==
    ASSUME NEW p \in Runners, TruthInv, Rewind(p)
    PROVE  TruthInv'
<1> USE DEF disk, locals, history, env, Goto
<1>1. Typed /\ pc[p] = "rewind" /\ pc[p] \in WithItem /\ pc' = [pc EXCEPT ![p] = "abort"]
  BY DEF TruthInv, Rewind, WithItem, Naming
<1>2. PICK g \in Guard : /\ item[p] = g /\ ItemIsOK(p, g) /\ g.trace \in TraceId /\ g.trace \in made
                         /\ g.mem \in Trace /\ TraceOK(g.trace)
  BY <1>1, ItemKnown
<1>3. SettledMem(g)
  BY <1>1, <1>2 DEF ItemIsOK, Naming, NamingOK, SettledMem
<1>4. UNCHANGED <<log, made, out, worker, item, held, call, picked, mine, phase, aborted>>
  BY DEF Rewind
<1>5. CASE WriteTrace(p, item[p].mem) /\ UNCHANGED stranded
  <2>1. /\ file' = [file EXCEPT ![g.trace] = g.mem] /\ item' = [item EXCEPT ![p] = g]
        /\ "abort" \in Label \ {"idle", "select"} /\ "abort" \notin WithItem
    BY <1>1, <1>2, <1>4, <1>5 DEF WriteTrace, Label, WithItem, Fresh, Unsettled, Naming, Typed
  <2>2. DOMAIN phase' = Runners /\ \A q \in Runners \ {p} : phase'[q] = phase[q]
    BY <1>1, <1>4 DEF Typed
  <2> QED  BY <1>1, <1>2, <1>3, <1>4, <1>5, <2>1, <2>2, WriteKeeps
<1>6. CASE UNCHANGED file /\ stranded' = stranded \cup {item[p].trace}
  <2>1. pc'[p] = "abort"
    BY <1>1 DEF Typed
  <2>2. Quiet(p)
    BY <1>1, <1>2, <1>4, <1>6 DEF Quiet, SameCall, Typed, Anchoring, TruthInv
  <2>3. Typed'
    BY <1>1, <1>4, <1>6 DEF Typed, Label
  <2>4. ItemOK(p)'
    BY <2>1 DEF ItemOK, WithItem, Fresh, Unsettled, Naming
  <2> QED  BY <1>1, <1>4, <2>1, <2>2, <2>3, <2>4, MoveKeeps
<1> QED
  BY <1>5, <1>6 DEF Rewind

\* The anchor is in the log, and it is the hash of what the file says.
LEMMA AnchorKeeps ==
    ASSUME NEW p \in Runners, TruthInv, IInv, Anchor(p)
    PROVE  TruthInv'
<1> USE DEF disk, locals, history, env, Goto
<1>1. Typed /\ pc[p] = "anchor" /\ pc[p] \in WithItem /\ LogIsSequence
  BY DEF TruthInv, Anchor, WithItem, Naming, IInv
<1>2. PICK g \in Guard : /\ item[p] = g /\ ItemIsOK(p, g) /\ g.trace \in TraceId /\ g.trace \in made
                         /\ g.mem \in Trace /\ TraceOK(g.trace)
  BY <1>1, ItemKnown
<1> DEFINE x == g.trace
<1>3. NamingOK(g)
  BY <1>1, <1>2 DEF ItemIsOK, Naming
<1>4. Onward(p) \in Label \ ({"idle", "select"} \cup WithItem)
  BY <1>1 DEF IInv, PhaseKnown, Settling, Onward, AfterReserve, Label, WithItem, Fresh, Unsettled, Naming
<1>5. /\ pc' = [pc EXCEPT ![p] = Onward(p)] /\ log' = Append(log, AnchorEntry(item[p].trace))
      /\ UNCHANGED <<made, file, out, worker, item, held, call, picked, mine, phase, aborted, stranded>>
  BY DEF Anchor
<1>6. pc'[p] = Onward(p)
  BY <1>1, <1>5 DEF Typed
<1>7. /\ \A t, b : AnchorBody(t, b)' <=> AnchorBody(t, b) \/ (t = x /\ b = file[x])
      /\ \A t : Transitioned(t)' <=> Transitioned(t)
  <2>1. /\ AnchorEntry(item[p].trace).kind = "anchor" /\ AnchorEntry(item[p].trace).trace = x
        /\ AnchorEntry(item[p].trace).body = file[x]
    BY <1>2 DEF AnchorEntry
  <2>2. \A t : AnchorEntry(item[p].trace) # TransitionEntry(t)
    BY DEF AnchorEntry, TransitionEntry
  <2> QED  BY <1>1, <1>5, <2>1, <2>2, LogStep
<1>8. Typed'
  BY <1>1, <1>4, <1>5 DEF Typed
<1>9. Touches(p, x)
  <2>1. \A q \in Runners \ {p} : SameCall(q)
    BY <1>1, <1>5 DEF SameCall, Typed
  <2> QED  BY <1>5, <1>7, <2>1 DEF Touches, Finished, TruthInv
<1>10. ItemOK(p)'
  BY <1>4, <1>6 DEF ItemOK
<1>11. TraceOK(x)'
  <2>1. /\ file[x] = NamingAnchor(g.mem) /\ NamingAnchor(g.mem).out = g.mem.out
    BY <1>2, <1>3 DEF NamingOK, NamingAnchor, Trace
  <2>2. \A b : AnchorBody(x, b)' => b = file[x]
    BY <1>2, <1>7 DEF ItemIsOK
  <2>3. x \notin aborted => out[x] = file[x].out
    BY <1>3, <2>1 DEF NamingOK, MemTells
  <2>4. \E b : AnchorBody(x, b)'
    BY <1>7
  <2>5. EarlierFinished(x)' <=> EarlierFinished(x)
    BY <1>5 DEF EarlierFinished, Finished
  <2> QED  BY <1>2, <1>5, <1>7, <2>2, <2>3, <2>4, <2>5 DEF TraceOK, Finished, Plain
<1>12. pc'[p] \notin {"idle", "select"}
  BY <1>4, <1>6
<1> HIDE DEF x
<1>13. x = item[p].trace /\ x \in TraceId
  BY <1>2 DEF x
<1> QED
  BY <1>1, <1>5, <1>8, <1>9, <1>10, <1>11, <1>12, <1>13, ItemTouchKeeps

----------------------------------------------------------------------------
(* Reservation *)

\* A run directory is made under a name that nobody has used.
LEMMA ReserveAttemptKeeps ==
    ASSUME NEW p \in Runners, TruthInv, pc[p] \in {"reserve", "start"},
           NEW w, w \in picked[p], NEW n, NEW next \in Fresh,
           ReserveAttempt(p, w, n, next), next = "start" => n = w.attempt,
           UNCHANGED <<log, file, out, worker, call, picked, held, phase, aborted, stranded>>
    PROVE  TruthInv'
<1> USE DEF Goto
<1>1. Typed /\ AtWork(p) /\ PicksTyped
  BY DEF TruthInv
<1>2. PICK k \in n .. MaxAttempts :
          /\ PassedOver(w.step, n, k)
          /\ <<w.step, k>> \in TraceId \ made
          /\ made' = made \cup {<<w.step, k>>}
          /\ mine' = [mine EXCEPT ![p] = @ \cup {<<w.step, k>>}]
          /\ item' = [item EXCEPT ![p] = Reserved(<<w.step, k>>, w)]
          /\ pc' = [pc EXCEPT ![p] = next]
  BY DEF ReserveAttempt
<1> DEFINE t == <<w.step, k>>
           g == Reserved(t, w)
<1>3. /\ t \in TraceId /\ t \notin made /\ StepOf(t) = w.step /\ PickOK(p, w)
      /\ TraceOK(t)
  BY <1>1, <1>2 DEF StepOf, AtWork, PicksOK, TruthInv
<1>4. g \in Guard /\ g.trace = t /\ g.got = "none" /\ Untold(g.mem)
      /\ g.mem.retried = w.retried /\ g.mem.superseded = w.superseded
  <2>1. /\ w.rejected \in BOOLEAN /\ w.retried \in SUBSET TraceId /\ w.superseded \in SUBSET TraceId
    BY <1>1 DEF PicksTyped
  <2>2. StartedTrace(w.retried, w.superseded) \in Trace /\ Untold(StartedTrace(w.retried, w.superseded))
    BY <2>1 DEF StartedTrace, Trace, Untold, Artifacts
  <2>3. g = [trace |-> t, mem |-> StartedTrace(w.retried, w.superseded), got |-> "none",
             rejected |-> w.rejected]
    BY DEF Reserved
  <2>4. StartedTrace(w.retried, w.superseded).retried = w.retried
        /\ StartedTrace(w.retried, w.superseded).superseded = w.superseded
    BY DEF StartedTrace
  <2> HIDE DEF t
  <2> QED  BY <1>3, <2>1, <2>2, <2>3, <2>4 DEF Guard
<1>5. /\ pc'[p] = next /\ item'[p] = g /\ mine'[p] = mine[p] \cup {t}
      /\ \A q \in Runners \ {p} : SameCall(q)
  BY <1>1, <1>2 DEF Typed, SameCall
<1> HIDE DEF t, g
<1>6. Typed'
  BY <1>1, <1>2, <1>3, <1>4 DEF Typed, Label, WithItem, t, g
<1>7. PicksTyped'
  BY <1>1 DEF PicksTyped
<1>8. /\ \A u, b : AnchorBody(u, b)' <=> AnchorBody(u, b)
      /\ \A u : Transitioned(u)' <=> Transitioned(u)
      /\ \A u : Finished(u)' <=> Finished(u)
  BY DEF AnchorBody, Transitioned, TransitionEntry, Finished
<1>9. \A u : Same(u)
  BY <1>8 DEF Same
<1>10. /\ file[t] = NoTrace /\ worker[t] = "none" /\ t \notin aborted
       /\ (\A b : ~AnchorBody(t, b)) /\ ~Transitioned(t)
  BY <1>3 DEF TraceOK
<1>11. /\ mine[p] \subseteq made /\ made \subseteq made' /\ t \in made' /\ t \notin mine[p]
       /\ call[p].supersede \subseteq made
  BY <1>1, <1>2, <1>3 DEF AtWork, CallOK, t
<1>12. Confined(p)
  BY <1>3, <1>5, <1>8, <1>9, <1>11 DEF Confined, TruthInv
<1>13. \A u \in TraceId : ~Anchoring(p, u)
  BY DEF Anchoring
<1>14. \A u \in TraceId : TraceOK(u)'
  BY <1>9, <1>12, <1>13, OtherTraces
<1>15. HeldOK(p)'
  <2> SUFFICES ASSUME NEW h \in Guard, Holds(p, h)' PROVE GuardOK(p, h)'
    BY DEF HeldOK
  <2>1. GuardOK(p, h)
    BY <1>1 DEF AtWork, HeldOK, Holds
  <2>2. h.trace \in mine'[p]
    BY <1>5, <2>1 DEF GuardOK
  <2>3. \A u \in mine'[p] : worker'[u] = "none" \/ (u \in mine[p] /\ worker'[u] = worker[u])
    BY <1>5, <1>10
  <2> QED  BY <1>8, <1>9, <2>1, <2>2, <2>3, GuardKept
<1>16. HeldApart(p)'
  BY <1>1 DEF AtWork, HeldApart, StepOf
<1>17. PicksOK(p)'
  BY <1>1, <1>5, <1>10 DEF AtWork, PicksOK, PickOK, Plain, StepOf
<1>18. ItemOK(p)'
  <2> SUFFICES ASSUME NEW h \in Guard, item'[p] = h PROVE ItemIsOK(p, h)'
    BY <1>4, <1>5 DEF ItemOK
  <2>1. h = g /\ h.trace = t
    BY <1>4, <1>5
  <2>2. next = "start" /\ Plain(h.mem) => EarlierFinished(t)'
    <3> SUFFICES ASSUME next = "start", Plain(h.mem), NEW j \in 1 .. t[2] - 1
                 PROVE  Finished(<<t[1], j>>)
      BY <1>8 DEF EarlierFinished
    <3>1. n = 1
      BY <1>3, <1>4, <2>1 DEF Plain, PickOK
    <3>2. t[1] = w.step /\ t[2] = k
      BY DEF t
    <3> QED  BY <1>2, <3>1, <3>2 DEF PassedOver, Passable
  <2>3. FreshOK(p, h)'
    BY <1>3, <1>4, <1>5, <1>8, <1>10, <2>1, <2>2 DEF FreshOK, StepOf
  <2>4. \A i \in DOMAIN held'[p] : StepOf(held'[p][i].trace) # StepOf(h.trace)
    BY <1>3, <2>1 DEF PickOK
  <2> QED
    BY <1>4, <1>5, <1>8, <1>10, <2>1, <2>3, <2>4 DEF ItemIsOK, Untold, Fresh, Unsettled, Naming, StepOf
<1>19. CallOK(p)'
  BY <1>1, <1>3, <1>5, <1>11 DEF AtWork, CallOK, Fresh
<1>20. \A u, v \in mine'[p] : SameStep(u, v) => worker'[u] = "none" \/ worker'[v] = "none"
  BY <1>1, <1>5, <1>10 DEF AtWork
<1>21. AtWork(p)'
  BY <1>15, <1>16, <1>17, <1>18, <1>19, <1>20 DEF AtWork, SameStep, StepOf
<1> QED
  BY <1>6, <1>7, <1>12, <1>14, <1>21, ConfinedKeeps

\* Reservation adds a new trace identity that nobody else knows.
LEMMA ReserveKeeps ==
    ASSUME NEW p \in Runners, TruthInv, Reserve(p) \/ ReserveRefused(p) \/ StartRefused(p)
    PROVE  TruthInv'
<1> USE DEF env, history
<1>1. CASE Reserve(p)
  <2>1. PICK w \in picked[p] : ReserveAttempt(p, w, w.attempt, "start")
    BY <1>1 DEF Reserve, NextPick
  <2> QED  BY <1>1, <2>1, ReserveAttemptKeeps DEF Reserve, Fresh
<1>2. CASE ReserveRefused(p) \/ StartRefused(p)
  <2>1. pc[p] \in {"reserve", "start"}
    BY <1>2 DEF ReserveRefused, StartRefused
  <2>2. PICK w \in picked[p] : RecordReservationFailure(p, w)
    BY <1>2 DEF ReserveRefused, StartRefused, NextPick
  <2>3. UNCHANGED <<aborted, stranded>>
    BY <2>2 DEF RecordReservationFailure
  <2>4. CASE /\ ReserveAttempt(p, w, w.attempt + 1, "startFailed")
             /\ UNCHANGED <<log, file, out, worker, call, base, rounds, picked, held, view, phase>>
    BY <2>1, <2>3, <2>4, ReserveAttemptKeeps DEF Fresh
  <2>5. CASE Goto(p, "abort") /\ UNCHANGED <<disk, locals>>
    BY <2>1, <2>3, <2>5, GiveUpKeeps DEF Naming
  <2>6. CASE Return(p) /\ UNCHANGED disk
    BY <2>1, <2>3, <2>6, ReturnKeeps DEF Naming, disk, TruthInv
  <2> QED  BY <2>2, <2>4, <2>5, <2>6 DEF RecordReservationFailure
<1> QED  BY <1>1, <1>2

\* The first trace of a reserved step, and what it says
LEMMA InitialTrace ==
    ASSUME NEW p \in Runners, TruthInv, pc[p] \in Fresh, WriteInitialTrace(p),
           NEW g \in Guard, item[p] = g
    PROVE  /\ g.trace \in TraceId /\ g.trace \in made /\ g.trace \in mine[p]
           /\ FreshOK(p, g) /\ \A b : ~AnchorBody(g.trace, b)
           /\ file'[g.trace] = g.mem /\ out'[g.trace] = "initial"
           /\ \A t \in TraceId \ {g.trace} : file'[t] = file[t] /\ out'[t] = out[t]
           /\ file' \in [TraceId -> Trace \cup {NoTrace}] /\ out' \in [TraceId -> Artifacts]
           /\ picked'[p] = Unwritten(p) /\ DOMAIN picked' = Runners
           /\ \A q \in Runners \ {p} : picked'[q] = picked[q]
           /\ UNCHANGED <<log, made, worker>>
           /\ \A t, b : AnchorBody(t, b)' <=> AnchorBody(t, b)
           /\ \A t : Transitioned(t)' <=> Transitioned(t)
<1>1. Typed /\ g.mem \in Trace
  BY DEF TruthInv, Guard
<1>2. /\ ItemIsOK(p, g) /\ g.trace \in TraceId /\ g.trace \in made
  BY ItemKnown DEF WithItem
<1>3. /\ file' = [file EXCEPT ![g.trace] = g.mem] /\ out' = [out EXCEPT ![g.trace] = "initial"]
      /\ picked' = [picked EXCEPT ![p] = Unwritten(p)] /\ UNCHANGED <<log, made, worker>>
  BY DEF WriteInitialTrace
<1>4. FreshOK(p, g) /\ (\A b : ~AnchorBody(g.trace, b)) /\ g.trace \in mine[p]
  BY <1>2 DEF ItemIsOK
<1>5. (\A t, b : AnchorBody(t, b)' <=> AnchorBody(t, b)) /\ \A t : Transitioned(t)' <=> Transitioned(t)
  BY <1>3 DEF AnchorBody, Transitioned, TransitionEntry
<1> QED  BY <1>1, <1>2, <1>3, <1>4, <1>5 DEF Typed, Artifacts

\* A trace whose start could not be recorded keeps its initial record: no worker runs for it.
LEMMA StartFailedKeeps ==
    ASSUME NEW p \in Runners, TruthInv, StartFailed(p)
    PROVE  TruthInv'
<1> USE DEF env, history, disk, locals
<1>1. Typed /\ pc[p] = "startFailed" /\ pc[p] \in WithItem /\ pc[p] \in Fresh
  BY DEF TruthInv, StartFailed, WithItem, Fresh
<1>2. CASE Goto(p, "abort") /\ UNCHANGED <<disk, picked, phase>>
  BY <1>1, <1>2, GiveUpKeeps DEF StartFailed, Naming
<1>3. CASE /\ WriteInitialTrace(p) /\ phase' = [phase EXCEPT ![p] = "reserve"]
           /\ Goto(p, "fail")
  <2>1. PICK g \in Guard : item[p] = g
    BY <1>1, ItemKnown
  <2> DEFINE x == g.trace
  <2>2. /\ x \in TraceId /\ x \in made /\ x \in mine[p]
        /\ FreshOK(p, g) /\ \A b : ~AnchorBody(x, b)
        /\ file'[x] = g.mem /\ out'[x] = "initial"
        /\ \A t \in TraceId \ {x} : file'[t] = file[t] /\ out'[t] = out[t]
        /\ file' \in [TraceId -> Trace \cup {NoTrace}] /\ out' \in [TraceId -> Artifacts]
        /\ picked'[p] = Unwritten(p) /\ DOMAIN picked' = Runners
        /\ \A q \in Runners \ {p} : picked'[q] = picked[q]
        /\ UNCHANGED <<log, made, worker>>
        /\ \A t, b : AnchorBody(t, b)' <=> AnchorBody(t, b)
        /\ \A t : Transitioned(t)' <=> Transitioned(t)
    BY <1>1, <1>3, <2>1, InitialTrace
  <2>3. /\ pc' = [pc EXCEPT ![p] = "fail"]
        /\ UNCHANGED <<call, held, item, mine, aborted, stranded>>
    BY <1>3 DEF StartFailed, Goto
  <2>4. pc'[p] = "fail"
    BY <1>1, <2>3 DEF Typed
  <2>5. Typed'
    BY <1>1, <1>3, <2>2, <2>3 DEF Typed, Label, WithItem, Unsettled
  <2>6. Touches(p, x)
    <3>1. \A q \in Runners \ {p} : SameCall(q)
      BY <1>1, <1>3, <2>2, <2>3 DEF SameCall, Typed
    <3>2. ~Finished(x)
      BY <2>2 DEF FreshOK, Finished, NoTrace
    <3> QED  BY <2>2, <2>3, <3>1, <3>2 DEF Touches, TruthInv
  <2>7. UnsettledOK(p, g)'
    BY <2>2, <2>4 DEF UnsettledOK, FreshOK, Untold, MemTells, Guard
  <2>8. TraceOK(x)'
    BY <2>2, <2>7, UnsettledTells
  <2>9. ItemOK(p)'
    <3> SUFFICES ASSUME NEW f \in Guard, item'[p] = f PROVE ItemIsOK(p, f)'
      BY <2>1, <2>3 DEF ItemOK
    <3>1. f = g
      BY <2>1, <2>3
    <3>2. \A i \in DOMAIN held[p] : StepOf(held[p][i].trace) # StepOf(x)
      BY <1>1, <2>1 DEF TruthInv, AtWork, ItemOK, ItemIsOK
    <3> QED
      BY <2>2, <2>3, <2>4, <2>7, <3>1, <3>2 DEF ItemIsOK, FreshOK, Untold, StepOf, Fresh, Naming
  <2>10. picked'[p] \subseteq picked[p]
    BY <2>2 DEF Unwritten
  <2> HIDE DEF x
  <2>11. x = item[p].trace
    BY <2>1 DEF x
  <2> QED
    BY <1>1, <2>2, <2>3, <2>4, <2>5, <2>6, <2>8, <2>9, <2>10, <2>11, ItemTouchKeeps
<1> QED
  BY <1>2, <1>3 DEF StartFailed

\* A reserved step joins those that wait for a worker.
LEMMA StartKeeps ==
    ASSUME NEW p \in Runners, TruthInv, Start(p)
    PROVE  TruthInv'
<1> USE DEF env, history, disk, locals, Goto
<1>1. Typed /\ AtWork(p) /\ pc[p] = "start" /\ pc[p] \in WithItem /\ pc[p] \in Fresh
  BY DEF TruthInv, Start, WithItem, Fresh
<1>2. PICK g \in Guard : item[p] = g
  BY <1>1, ItemKnown
<1> DEFINE x == g.trace
           h == held[p]
<1>3. /\ x \in TraceId /\ x \in made /\ x \in mine[p]
      /\ FreshOK(p, g) /\ \A b : ~AnchorBody(x, b)
      /\ file'[x] = g.mem /\ out'[x] = "initial"
      /\ \A t \in TraceId \ {x} : file'[t] = file[t] /\ out'[t] = out[t]
      /\ file' \in [TraceId -> Trace \cup {NoTrace}] /\ out' \in [TraceId -> Artifacts]
      /\ picked'[p] = Unwritten(p) /\ DOMAIN picked' = Runners
      /\ \A q \in Runners \ {p} : picked'[q] = picked[q]
      /\ UNCHANGED <<log, made, worker>>
      /\ \A t, b : AnchorBody(t, b)' <=> AnchorBody(t, b)
      /\ \A t : Transitioned(t)' <=> Transitioned(t)
  <2>1. WriteInitialTrace(p)
    BY DEF Start
  <2> QED  BY <1>1, <1>2, <2>1, InitialTrace
<1>4. /\ pc' = [pc EXCEPT ![p] = AfterReserve(Unwritten(p))]
      /\ held' = [held EXCEPT ![p] = Append(h, g)]
      /\ item' = [item EXCEPT ![p] = NoItem]
      /\ UNCHANGED <<call, mine, phase, aborted, stranded>>
  BY <1>2 DEF Start
<1>5. /\ pc'[p] \in {"dispatch", "reserve"} /\ held'[p] = Append(h, g)
      /\ \A q \in Runners \ {p} : SameCall(q)
  BY <1>1, <1>3, <1>4 DEF Typed, AfterReserve, SameCall
<1>6. /\ h \in Seq(Guard) /\ Append(h, g) \in Seq(Guard)
      /\ DOMAIN h = 1 .. Len(h) /\ Len(h) \in Nat
      /\ \A i \in DOMAIN held'[p] : \/ i \in DOMAIN h /\ held'[p][i] = h[i]
                                    \/ i = Len(h) + 1 /\ held'[p][i] = g
  BY <1>1, <1>5 DEF Typed
<1>7. Typed'
  BY <1>1, <1>3, <1>4, <1>6 DEF Typed, Label, AfterReserve
<1>8. PicksTyped'
  BY <1>3 DEF PicksTyped, Unwritten, TruthInv
<1>9. Touches(p, x)
  <2>1. ~Finished(x)
    BY <1>3 DEF FreshOK, Finished, NoTrace
  <2> QED  BY <1>3, <1>4, <1>5, <2>1 DEF Touches, TruthInv
<1>10. PICK w \in picked[p] : w.step = StepOf(x)
  BY <1>3 DEF FreshOK
<1>11. /\ \A t \in mine[p] : StepOf(t) = StepOf(x) => worker[t] = "none"
       /\ \A i \in DOMAIN h : StepOf(h[i].trace) # StepOf(x)
  BY <1>1, <1>10 DEF AtWork, PicksOK, PickOK
<1>12. GuardOK(p, g)'
  <2>1. WorkerFits(g)'
    BY <1>3 DEF WorkerFits, FreshOK
  <2>2. Plain(g.mem) => EarlierFinished(x)'
    <3> SUFFICES ASSUME Plain(g.mem), NEW j \in 1 .. x[2] - 1 PROVE Finished(<<x[1], j>>)'
      BY DEF EarlierFinished
    <3>1. <<x[1], j>> \in TraceId
      BY <1>3, EarlierTrace
    <3>2. <<x[1], j>> # x
      <4>1. x[2] \in Int /\ j < x[2]
        BY <1>3 DEF TraceId
      <4> QED  BY <4>1
    <3>3. Finished(<<x[1], j>>)
      BY <1>1, <1>3 DEF FreshOK, EarlierFinished
    <3> QED  BY <1>3, <3>1, <3>2, <3>3 DEF Finished
  <2>3. \A u \in mine'[p] : SameStep(x, u) => worker'[u] = "none"
    BY <1>3, <1>4, <1>11 DEF SameStep
  <2>4. g.mem \in Trace
    BY DEF Guard
  <2> QED
    BY <1>3, <1>4, <2>1, <2>2, <2>3, <2>4 DEF GuardOK, FreshOK, Untold
<1>13. HeldOK(p)'
  <2> SUFFICES ASSUME NEW f \in Guard, Holds(p, f)'
               PROVE  (Holds(p, f) /\ StepOf(f.trace) # StepOf(x)) \/ GuardOK(p, f)'
    BY <1>3, <1>9, TouchHeld
  <2>1. PICK i \in DOMAIN held'[p] : held'[p][i] = f
    BY DEF Holds
  <2>2. CASE i \in DOMAIN h /\ held'[p][i] = h[i]
    BY <1>11, <2>1, <2>2 DEF Holds
  <2>3. CASE held'[p][i] = g
    BY <1>12, <2>1, <2>3
  <2> QED  BY <1>6, <2>2, <2>3
<1>14. HeldApart(p)'
  <2> SUFFICES ASSUME NEW i \in DOMAIN held'[p], NEW j \in DOMAIN held'[p], i # j
               PROVE  held'[p][i].trace[1] # held'[p][j].trace[1]
    BY DEF HeldApart, StepOf
  <2>1. CASE i \in DOMAIN h /\ j \in DOMAIN h
    <3>1. i # Len(h) + 1 /\ j # Len(h) + 1
      BY <1>6, <2>1
    <3> QED  BY <1>1, <1>6, <2>1, <3>1 DEF AtWork, HeldApart, StepOf
  <2>2. CASE i \notin DOMAIN h /\ j \in DOMAIN h
    <3>1. held'[p][i] = g /\ held'[p][j] = h[j]
      BY <1>6, <2>2
    <3> QED  BY <1>11, <2>2, <3>1 DEF StepOf
  <2>3. CASE i \in DOMAIN h /\ j \notin DOMAIN h
    <3>1. held'[p][j] = g /\ held'[p][i] = h[i]
      BY <1>6, <2>3
    <3> QED  BY <1>11, <2>3, <3>1 DEF StepOf
  <2> QED  BY <1>6, <2>1, <2>2, <2>3
<1>15. PicksOK(p)'
  <2> SUFFICES ASSUME NEW v, v \in picked'[p] PROVE PickOK(p, v)'
    BY DEF PicksOK
  <2>1. v \in picked[p] /\ v.step # StepOf(x)
    BY <1>2, <1>3 DEF Unwritten
  <2>2. PickOK(p, v)
    BY <1>1, <2>1 DEF AtWork, PicksOK
  <2>3. \A i \in DOMAIN held'[p] : held'[p][i].trace[1] # v.step
    BY <1>6, <2>1, <2>2 DEF PickOK, StepOf
  <2> QED  BY <1>3, <1>4, <2>2, <2>3 DEF PickOK, Plain, StepOf
<1>16. ItemOK(p)'
  BY <1>5 DEF ItemOK, WithItem, Fresh, Unsettled, Naming
<1>17. CallOK(p)'
  <2>1. \A i \in DOMAIN held'[p] : held'[p][i].got \in Answers \cup {"none"}
    BY <1>1, <1>3, <1>6 DEF AtWork, CallOK, FreshOK
  <2> QED  BY <1>1, <1>3, <1>4, <1>5, <2>1 DEF AtWork, CallOK
<1>18. \A t, u \in mine'[p] : SameStep(t, u) => worker'[t] = "none" \/ worker'[u] = "none"
  BY <1>1, <1>3, <1>4 DEF AtWork
<1>19. AtWork(p)'
  BY <1>13, <1>14, <1>15, <1>16, <1>17, <1>18 DEF AtWork, SameStep, StepOf
<1>20. TraceOK(x)'
  BY <1>3, <1>12, GuardTells
<1>21. Owns(p, x) /\ \A t \in TraceId \ {x} : ~Anchoring(p, t)
  BY <1>1, <1>2 DEF Owns, Anchoring
<1> HIDE DEF x
<1> QED
  BY <1>3, <1>7, <1>8, <1>9, <1>19, <1>20, <1>21, TouchKeeps

\* As long as anchors and transitions are the same, the rest of the log is no business of any trace.
LEMMA AsideKeeps ==
    ASSUME TruthInv,
           UNCHANGED <<made, file, out, worker, pc, call, picked, held, item, phase, mine, aborted, stranded>>,
           \A t, b : AnchorBody(t, b)' <=> AnchorBody(t, b),
           \A t : Transitioned(t)' <=> Transitioned(t)
    PROVE  TruthInv'
<1>0. PICK p \in Runners : TRUE
  BY DispatchAssumption
<1>2. UNCHANGED <<made, file, out, worker, pc, call, picked, held, item, phase, mine, aborted, stranded>>
  OBVIOUS
<1>3. /\ \A t, b : AnchorBody(t, b)' <=> AnchorBody(t, b)
      /\ \A t : Transitioned(t)' <=> Transitioned(t)
  OBVIOUS
<1>4. \A t : Same(t)
  BY <1>2, <1>3 DEF Same
<1>5. \A t : Finished(t)' <=> Finished(t)
  BY <1>2 DEF Finished
<1>6. \A q \in Runners : SameCall(q)
  BY <1>2 DEF SameCall
<1>7. \A q \in Runners : Confined(q)
  BY <1>2, <1>3, <1>4, <1>5, <1>6 DEF Confined, TruthInv, AtWork, CallOK
<1>8. Typed' /\ PicksTyped'
  BY <1>2 DEF TruthInv, Typed, PicksTyped
<1>9. \A t \in TraceId : TraceOK(t)'
  <2> SUFFICES ASSUME NEW t \in TraceId PROVE TraceOK(t)'
    OBVIOUS
  <2>1. TraceOK(t)
    BY DEF TruthInv
  <2>2. EarlierFinished(t)' <=> EarlierFinished(t)
    BY <1>5 DEF EarlierFinished
  <2>3. \A q \in Runners : Anchoring(q, t)' <=> Anchoring(q, t)
    BY <1>2 DEF Anchoring
  <2> QED  BY <1>2, <1>3, <1>5, <2>1, <2>2, <2>3 DEF TraceOK, Finished, Plain
<1>10. AtWork(p)'
  <2>1. AtWork(p)
    BY DEF TruthInv
  <2>2. HeldOK(p)'
    <3> SUFFICES ASSUME NEW g \in Guard, Holds(p, g)' PROVE GuardOK(p, g)'
      BY DEF HeldOK
    <3>1. GuardOK(p, g)
      BY <1>2, <2>1 DEF AtWork, HeldOK, Holds
    <3> QED  BY <1>2, <1>4, <1>5, <3>1, GuardKept DEF GuardOK
  <2>3. HeldApart(p)' /\ PicksOK(p)'
    BY <1>2, <2>1 DEF AtWork, HeldApart, PicksOK, PickOK, Plain, StepOf
  <2>4. ItemOK(p)'
    <3> SUFFICES ASSUME pc[p] \in WithItem, NEW g \in Guard, item[p] = g PROVE ItemIsOK(p, g)'
      BY <1>2, <2>1 DEF AtWork, ItemOK
    <3>1. ItemIsOK(p, g)
      BY <2>1 DEF AtWork, ItemOK
    <3>2. EarlierFinished(g.trace)' <=> EarlierFinished(g.trace)
      BY <1>5 DEF EarlierFinished
    <3>3. FreshOK(p, g) => FreshOK(p, g)'
      BY <1>2, <1>3, <3>2 DEF FreshOK
    <3>4. UnsettledOK(p, g) => UnsettledOK(p, g)'
      BY <1>2, <1>3 DEF UnsettledOK, MemTells
    <3>5. NamingOK(g) => NamingOK(g)'
      BY <1>2, <1>3 DEF NamingOK, MemTells
    <3> QED  BY <1>2, <1>3, <3>1, <3>3, <3>4, <3>5 DEF ItemIsOK, StepOf
  <2>5. CallOK(p)'
    BY <1>2, <2>1 DEF AtWork, CallOK
  <2> QED  BY <1>2, <2>1, <2>2, <2>3, <2>4, <2>5 DEF AtWork, SameStep, StepOf
<1> QED
  BY <1>7, <1>8, <1>9, <1>10, ConfinedKeeps

\* Another writer's edit of a cell is no anchor and no transition.
LEMMA EditKeeps ==
    ASSUME TruthInv, LogIsSequence, Edit
    PROVE  TruthInv'
<1>1. PICK c, v : log' = Append(log, EditEntry(c, v))
  BY DEF Edit
<1>2. UNCHANGED <<made, file, out, worker, pc, call, picked, held, item, phase, mine, aborted, stranded>>
  BY DEF Edit, locals, history
<1>3. /\ \A t, b : AnchorBody(t, b)' <=> AnchorBody(t, b)
      /\ \A t : Transitioned(t)' <=> Transitioned(t)
  <2>1. EditEntry(c, v).kind = "edit"
    BY DEF EditEntry
  <2>2. \A t : EditEntry(c, v) # TransitionEntry(t)
    BY DEF EditEntry, TransitionEntry
  <2> QED  BY <1>1, <2>1, <2>2, LogStep
<1> QED  BY <1>2, <1>3, AsideKeeps

\* A killed call holds nothing; a trace it left naming an absent anchor is stranded.
LEMMA CrashKeeps ==
    ASSUME NEW p \in Runners, TruthInv, Crash(p)
    PROVE  TruthInv'
<1>1. Return(p) /\ UNCHANGED <<log, made, file, out, worker, aborted>>
  BY DEF Crash, disk
<1>2. stranded' = stranded \cup (IF pc[p] \in Naming THEN {item[p].trace} ELSE {})
  BY DEF Crash, Naming
<1>3. pc[p] \in Naming => item[p].trace \in made
  BY ItemKnown DEF WithItem
<1>4. stranded \subseteq stranded' /\ stranded' \subseteq made
  BY <1>2, <1>3 DEF TruthInv
<1> QED
  BY <1>1, <1>2, <1>4, ReturnKeeps

\* Every step of every call keeps the invariant.
LEMMA StepKeeps ==
    ASSUME NEW p \in Runners, TruthInv, IInv, Step(p)
    PROVE  TruthInv'
<1>1. LogIsSequence
  BY DEF IInv
<1>2. SelectNothing(p) => TruthInv'
  BY ReturnKeeps DEF SelectNothing, disk, history, TruthInv, Naming
<1>3. FinishWriteFails(p) => TruthInv'
  BY GiveUpKeeps DEF FinishWriteFails, Naming
<1>4. Apply(p) => TruthInv'
  BY <1>1, ApplyKeeps, EvidenceKeeps, TransitionKeeps, JudgeKeeps DEF Apply
<1>5. Settle(p) => TruthInv'
  BY <1>3, FinishKeeps, FinishFailsKeeps, DropKeeps, AnchorKeeps, AnchorFailsKeeps, RewindKeeps,
     AbortKeeps DEF Settle
<1> QED
  BY <1>2, <1>4, <1>5, SelectKeeps, ReserveKeeps, StartKeeps, StartFailedKeeps, ThreadStepsKeep,
     JoinKeeps, EndRoundKeeps DEF Step

\* The invariant holds, whatever calls, kills, faults, supersessions and edits there are.
THEOREM TruthInvHolds == Spec => []TruthInv
<1>1. Init => TruthInv
  <2> SUFFICES ASSUME Init PROVE TruthInv
    OBVIOUS
  <2>1. log = <<>> /\ (\A t, b : ~AnchorBody(t, b)) /\ \A t : ~Transitioned(t)
    BY DEF Init, AnchorBody, Transitioned
  <2>2. Typed /\ PicksTyped
    BY DEF Init, Typed, PicksTyped, Artifacts, Label, NoCall
  <2>3. \A t \in TraceId : TraceOK(t)
    BY <2>1 DEF Init, TraceOK, Finished, NoTrace
  <2>4. ASSUME NEW p \in Runners PROVE AtWork(p)
    <3>1. DOMAIN held[p] = {} /\ held[p] = <<>> /\ pc[p] = "idle" /\ mine[p] = {} /\ picked[p] = {}
      BY DEF Init
    <3>2. call[p] = NoCall
      BY DEF Init
    <3>3. HeldOK(p) /\ HeldApart(p) /\ PicksOK(p)
      BY <3>1 DEF HeldOK, Holds, HeldApart, PicksOK
    <3>4. ItemOK(p)
      BY <3>1 DEF ItemOK, WithItem, Fresh, Unsettled, Naming
    <3>5. CallOK(p)
      BY <3>1, <3>2 DEF CallOK, NoCall
    <3> QED  BY <3>1, <3>3, <3>4, <3>5 DEF AtWork
  <2> QED  BY <2>1, <2>2, <2>3, <2>4 DEF TruthInv, Init
<1>2. IInv /\ TruthInv /\ [Next]_vars => TruthInv'
  <2> SUFFICES ASSUME IInv, TruthInv, [Next]_vars PROVE TruthInv'
    OBVIOUS
  <2>1. ASSUME NEW p \in Runners, Begin(p) \/ Step(p) \/ Crash(p) PROVE TruthInv'
    BY <2>1, BeginKeeps, StepKeeps, CrashKeeps
  <2>2. CASE Edit
    BY <2>2, EditKeeps DEF IInv
  <2>3. CASE UNCHANGED vars
    <3>1. UNCHANGED <<made, file, out, worker, pc, call, picked, held, item, phase, mine, aborted, stranded>>
      BY <2>3 DEF vars, disk, locals, history
    <3>2. (\A t, b : AnchorBody(t, b)' <=> AnchorBody(t, b)) /\ \A t : Transitioned(t)' <=> Transitioned(t)
      BY <2>3 DEF vars, disk, AnchorBody, Transitioned, TransitionEntry
    <3> QED  BY <3>1, <3>2, AsideKeeps
  <2> QED  BY <2>1, <2>2, <2>3 DEF Next
<1> QED
  BY <1>1, <1>2, IInvHolds, PTL DEF Spec

---------------------------------------------------------------------------
(* What traces claim.                                                      *)

\* No trace, in its file or in the memory of its call, claims a transition that the log
\* does not hold.
Claims(t, m) == m.applied = TRUE => Transitioned(t)
ItemClaims(p) == pc[p] \in WithItem => Claims(item[p].trace, item[p].mem)
ClaimInv == /\ \A t \in TraceId : file[t] # NoTrace => Claims(t, file[t])
            /\ \A p \in Runners : ItemClaims(p)

\* A step that writes no trace, and keeps the item or takes one that claims nothing
LEMMA SilentClaims ==
    ASSUME NEW p \in Runners, ClaimInv, file' = file,
           \A t : Transitioned(t) => Transitioned(t)',
           \/ pc'[p] \notin WithItem
           \/ pc[p] \in WithItem /\ item'[p] = item[p]
           \/ item'[p].mem.applied = FALSE
    PROVE  (\A t \in TraceId : file[t] # NoTrace => Claims(t, file[t]))' /\ ItemClaims(p)'
<1>1. (\A t \in TraceId : file[t] # NoTrace => Claims(t, file[t]))'
  BY DEF ClaimInv, Claims
<1>2. ItemClaims(p)'
  BY DEF ClaimInv, ItemClaims, Claims
<1> QED  BY <1>1, <1>2

\* A step that writes the trace of its item
LEMMA WrittenClaims ==
    ASSUME NEW p \in Runners, Typed, ClaimInv, pc[p] \in WithItem, NEW g, item[p] = g, g.trace \in TraceId,
           \A t : Transitioned(t) => Transitioned(t)',
           NEW m, file' = [file EXCEPT ![g.trace] = m], m.applied \in {g.mem.applied, FALSE},
           \/ pc'[p] \notin WithItem
           \/ item'[p].trace = g.trace /\ item'[p].mem.applied \in {g.mem.applied, FALSE}
    PROVE  (\A t \in TraceId : file[t] # NoTrace => Claims(t, file[t]))' /\ ItemClaims(p)'
<1>1. Claims(g.trace, g.mem)
  BY DEF ClaimInv, ItemClaims
<1>2. ASSUME NEW t \in TraceId, file'[t] # NoTrace, file'[t].applied = TRUE PROVE Transitioned(t)'
  <2>1. CASE t = g.trace
    BY <1>1, <1>2, <2>1 DEF Claims, Typed
  <2>2. CASE t # g.trace
    <3>1. file'[t] = file[t]
      BY <2>2 DEF Typed
    <3> QED  BY <1>2, <3>1 DEF ClaimInv, Claims
  <2> QED  BY <2>1, <2>2
<1>3. ItemClaims(p)'
  BY <1>1 DEF ItemClaims, Claims
<1> QED  BY <1>2, <1>3 DEF Claims

\* The claims of a call's own step
LEMMA StepClaims ==
    ASSUME NEW p \in Runners, TruthInv, IInv, ClaimInv, Step(p)
    PROVE  ClaimInv'
<1> DEFINE Goal == (\A t \in TraceId : file[t] # NoTrace => Claims(t, file[t]))' /\ ItemClaims(p)'
<1> USE DEF disk, locals, env, history, Goto
<1>1. Typed /\ AtWork(p) /\ LogIsSequence /\ LocalsAreFunctions /\ PhaseKnown(p)
  BY DEF TruthInv, IInv
<1>2. Shape(p)
  BY <1>1, StepShape
<1>3. \A t : Transitioned(t) => Transitioned(t)'
  <2>1. CASE log' = log
    BY <2>1 DEF Transitioned, TransitionEntry
  <2>2. ASSUME NEW e, log' = Append(log, e) PROVE \A t : Transitioned(t) => Transitioned(t)'
    BY <1>1, <2>2, LogStep
  <2> QED  BY <1>2, <2>1, <2>2 DEF Shape, LogGrows
<1>4. pc[p] \in Label /\ DOMAIN pc = Runners /\ DOMAIN item = Runners
  BY <1>1 DEF Typed
<1>5. ASSUME SelectNothing(p) \/ Select(p) \/ Join(p) \/ EndRound(p) PROVE Goal
  <2>1. file' = file /\ pc'[p] \notin WithItem
    BY <1>4, <1>5 DEF SelectNothing, Select, Join, EndRound, Return, WithItem, Fresh, Unsettled, Naming
  <2> QED  BY <1>3, <2>1, SilentClaims
<1>6. ASSUME Reserve(p) \/ ReserveRefused(p) \/ StartRefused(p) PROVE Goal
  <2>1. file' = file
    BY <1>6 DEF Reserve, ReserveRefused, StartRefused, RecordReservationFailure
  <2>2. ASSUME NEW w, NEW n, NEW next, ReserveAttempt(p, w, n, next) PROVE item'[p].mem.applied = FALSE
    BY <1>4, <2>2 DEF ReserveAttempt, Reserved, StartedTrace
  <2>3. pc'[p] \notin WithItem \/ item'[p].mem.applied = FALSE
    BY <1>4, <1>6, <2>2 DEF Reserve, ReserveRefused, StartRefused, RecordReservationFailure, Return,
                            WithItem, Fresh, Unsettled, Naming
  <2> QED  BY <1>3, <2>1, <2>3, SilentClaims
<1>7. ASSUME Start(p) \/ StartFailed(p) PROVE Goal
  <2>1. pc[p] \in WithItem
    BY <1>7 DEF Start, StartFailed, WithItem, Fresh
  <2>2. PICK g \in Guard : item[p] = g /\ g.trace \in TraceId
    BY <2>1, ItemKnown
  <2>3. CASE file' = file
    <3>1. pc'[p] \notin WithItem \/ item'[p] = item[p]
      BY <1>4, <1>7 DEF Start, StartFailed, AfterReserve, WithItem, Fresh, Unsettled, Naming
    <3> QED  BY <1>3, <2>1, <2>3, <3>1, SilentClaims
  <2>4. CASE file' = [file EXCEPT ![g.trace] = g.mem]
    <3>1. pc'[p] \notin WithItem \/ item'[p] = g
      BY <1>4, <1>7, <2>2 DEF Start, StartFailed, AfterReserve, WithItem, Fresh, Unsettled, Naming
    <3> QED  BY <1>1, <1>3, <2>1, <2>2, <2>4, <3>1, WrittenClaims
  <2>5. file' = file \/ file' = [file EXCEPT ![g.trace] = g.mem]
    BY <1>7, <2>2 DEF Start, StartFailed, WriteInitialTrace
  <2> QED  BY <2>3, <2>4, <2>5
<1>8. ASSUME \E i \in 1 .. Cardinality(Steps) : Thread(p, i) PROVE Goal
  <2>1. UNCHANGED <<pc, item>>
    BY <1>8 DEF Thread, Reject, Mark, SpawnFails, Spawn, Exit, ExitLost
  <2>2. CASE file' = file
    BY <1>3, <2>1, <2>2, SilentClaims
  <2>3. CASE \E t : file' = [file EXCEPT ![t].invoked = TRUE]
    <3>1. PICK x : file' = [file EXCEPT ![x].invoked = TRUE]
      BY <2>3
    <3>2. ASSUME NEW t \in TraceId, file'[t] # NoTrace, file'[t].applied = TRUE PROVE Transitioned(t)'
      <4>1. file[t] \in Trace \cup {NoTrace} /\ DOMAIN file = TraceId
        BY <1>1 DEF Typed
      <4>2. CASE file[t] = NoTrace
        <5>1. NoTrace = [s \in {"state"} |-> "none"]
          BY DEF NoTrace
        <5>2. [NoTrace EXCEPT !.invoked = TRUE] = NoTrace
          BY <5>1
        <5>3. file'[t] = NoTrace
          BY <3>1, <4>1, <4>2, <5>2
        <5> QED  BY <3>2, <5>3
      <4>3. CASE file[t] \in Trace /\ file[t] # NoTrace
        <5>1. file'[t].applied = file[t].applied
          BY <3>1, <4>1, <4>3 DEF Trace
        <5> QED  BY <1>3, <3>2, <4>3, <5>1 DEF ClaimInv, Claims
      <4> QED  BY <4>1, <4>2, <4>3
    <3>3. ItemClaims(p)'
      BY <1>3, <2>1 DEF ClaimInv, ItemClaims, Claims
    <3> QED  BY <3>2, <3>3 DEF Claims
  <2>4. file' = file \/ \E t : file' = [file EXCEPT ![t].invoked = TRUE]
    BY <1>8 DEF Thread, Reject, Mark, SpawnFails, Spawn, Exit, ExitLost
  <2> QED  BY <2>2, <2>3, <2>4
<1>9. ASSUME TakeHeld(p) \/ (Abort(p) /\ held[p] # <<>>) PROVE Goal
  <2>1. held[p] # <<>> /\ file' = file
    BY <1>9 DEF TakeHeld, Abort
  <2>2. PICK g : g = Head(held[p])
    OBVIOUS
  <2>3. g \in Guard /\ 1 \in DOMAIN held[p] /\ held[p][1] = g
    <3> DEFINE h == held[p]
    <3>1. h \in Seq(Guard) /\ h # <<>> /\ g = Head(h)
      BY <1>1, <2>1, <2>2 DEF Typed
    <3> HIDE DEF h
    <3>2. Head(h) \in Guard /\ 1 \in DOMAIN h /\ h[1] = Head(h)
      BY <3>1, TailOfGuards
    <3> QED  BY <3>1, <3>2 DEF h
  <2>4. g.mem \in Trace /\ g.mem.applied = FALSE
    BY <1>1, <2>3 DEF AtWork, HeldOK, Holds, GuardOK, Untold, Guard
  <2>5. Learned(g).applied = FALSE
    BY <2>4 DEF Learned, Executed, Trace
  <2>6. [g EXCEPT !.mem = Learned(g)].mem = Learned(g)
    BY <2>3 DEF Guard
  <2>7. item'[p] = g \/ item'[p] = [g EXCEPT !.mem = Learned(g)]
    BY <1>4, <1>9, <2>1, <2>2 DEF TakeHeld, Abort
  <2>8. item'[p].mem.applied = FALSE
    BY <2>4, <2>5, <2>6, <2>7
  <2> QED  BY <1>3, <2>1, <2>8, SilentClaims
<1>10. ASSUME \/ AppendEvidence(p) \/ Judge(p) \/ StepFails(p) \/ FinishReplayFails(p)
              \/ Anchor(p) \/ AnchorFails(p)
       PROVE  Goal
  <2>1. file' = file /\ item' = item /\ pc[p] \in WithItem
    BY <1>10 DEF AppendEvidence, Judge, StepFails, FinishReplayFails, Anchor, AnchorFails, WithItem,
                 Unsettled, Naming
  <2> QED  BY <1>3, <2>1, SilentClaims
<1>11. ASSUME FinishWriteFails(p) \/ (Abort(p) /\ held[p] = <<>>) PROVE Goal
  <2>1. file' = file /\ pc'[p] \notin WithItem
    BY <1>4, <1>11 DEF FinishWriteFails, Abort, Return, WithItem, Fresh, Unsettled, Naming
  <2> QED  BY <1>3, <2>1, SilentClaims
<1>12. ASSUME AppendTransition(p) PROVE Goal
  <2>1. pc[p] \in WithItem /\ file' = file
    BY <1>12 DEF AppendTransition, WithItem, Unsettled
  <2>2. PICK g \in Guard : item[p] = g /\ g.trace \in TraceId
    BY <2>1, ItemKnown
  <2>3. item'[p].trace = g.trace
    BY <1>4, <1>12, <2>2 DEF AppendTransition, SetMem, Guard
  <2>4. Transitioned(g.trace)'
    BY <1>1, <1>12, <2>2, LogStep DEF AppendTransition
  <2>5. ItemClaims(p)'
    BY <2>3, <2>4 DEF ItemClaims, Claims
  <2> QED  BY <1>3, <2>1, <2>5 DEF ClaimInv, Claims
<1>13. ASSUME Finish(p) \/ Drop(p) \/ Rewind(p) PROVE Goal
  <2>1. pc[p] \in WithItem
    BY <1>13 DEF Finish, Drop, Rewind, WithItem, Unsettled, Naming
  <2>2. PICK g \in Guard : item[p] = g /\ g.trace \in TraceId /\ g.mem \in Trace
    BY <2>1, ItemKnown
  <2>3. ASSUME NEW m \in {SettledTrace(g.mem), DroppedTrace(g.mem), g.mem}
        PROVE  /\ m \in Trace /\ m.applied \in {g.mem.applied, FALSE}
               /\ NamingAnchor(m).applied = m.applied
    BY <2>2, <2>3 DEF SettledTrace, DroppedTrace, NamingAnchor, Trace
  <2>4. PICK m \in {SettledTrace(g.mem), DroppedTrace(g.mem), g.mem} :
           /\ \/ file' = file \/ file' = [file EXCEPT ![g.trace] = m]
              \/ file' = [file EXCEPT ![g.trace] = NamingAnchor(m)]
           /\ item' = item \/ SetMem(p, m)
    BY <1>13, <2>2 DEF Finish, Drop, Rewind, WriteTrace
  <2>5. item'[p].trace = g.trace /\ item'[p].mem.applied \in {g.mem.applied, FALSE}
    BY <1>4, <2>2, <2>3, <2>4 DEF SetMem, Guard
  <2>6. CASE file' = file
    <3>1. Claims(g.trace, g.mem)
      BY <2>1, <2>2 DEF ClaimInv, ItemClaims
    <3>2. ItemClaims(p)'
      BY <1>3, <2>5, <3>1 DEF ItemClaims, Claims
    <3> QED  BY <1>3, <2>6, <3>2 DEF ClaimInv, Claims
  <2>7. CASE file' = [file EXCEPT ![g.trace] = m]
    BY <1>1, <1>3, <2>1, <2>2, <2>3, <2>5, <2>7, WrittenClaims
  <2>8. CASE file' = [file EXCEPT ![g.trace] = NamingAnchor(m)]
    BY <1>1, <1>3, <2>1, <2>2, <2>3, <2>5, <2>8, WrittenClaims
  <2> QED  BY <2>4, <2>6, <2>7, <2>8
<1>14. Apply(p) => Goal
  BY <1>9, <1>10, <1>12 DEF Apply, ApplyRejected, ApplyExecuted, ApplyReplayFails, ApplyUnspawned, ApplyLost
<1>15. Settle(p) => Goal
  BY <1>9, <1>10, <1>11, <1>13 DEF Settle
<1>16. Goal
  BY <1>5, <1>6, <1>7, <1>8, <1>14, <1>15 DEF Step
<1>17. ASSUME NEW q \in Runners PROVE ItemClaims(q)'
  <2>1. CASE q = p
    BY <1>16, <2>1
  <2>2. CASE q # p
    <3>1. pc'[q] = pc[q] /\ item'[q] = item[q]
      BY <1>2, <2>2 DEF Shape, OthersKeep
    <3> QED  BY <1>3, <3>1 DEF ClaimInv, ItemClaims, Claims
  <2> QED  BY <2>1, <2>2
<1> QED  BY <1>16, <1>17 DEF ClaimInv

\* No trace claims too much, also none of a call that gave up on the way.
THEOREM ClaimInvHolds == Spec => []ClaimInv
<1>1. Init => ClaimInv
  BY DEF Init, ClaimInv, ItemClaims, WithItem, Fresh, Unsettled, Naming
<1>2. IInv /\ TruthInv /\ ClaimInv /\ [Next]_vars => ClaimInv'
  <2> SUFFICES ASSUME IInv, TruthInv, ClaimInv, [Next]_vars PROVE ClaimInv'
    OBVIOUS
  <2>1. ASSUME NEW p \in Runners, Begin(p) \/ Crash(p) PROVE ClaimInv'
    <3>1. file' = file /\ log' = log
      BY <2>1 DEF Begin, Crash, disk
    <3>2. pc'[p] \notin WithItem /\ \A q \in Runners \ {p} : pc'[q] = pc[q] /\ item'[q] = item[q]
      BY <2>1 DEF Begin, Crash, Return, Goto, TruthInv, Typed, WithItem, Fresh, Unsettled, Naming
    <3>3. \A t : Transitioned(t)' <=> Transitioned(t)
      BY <3>1 DEF Transitioned, TransitionEntry
    <3>4. ASSUME NEW q \in Runners PROVE ItemClaims(q)'
      BY <3>2, <3>3 DEF ClaimInv, ItemClaims, Claims
    <3> QED  BY <3>1, <3>3, <3>4 DEF ClaimInv, Claims
  <2>2. CASE Edit
    <3>1. UNCHANGED <<file, pc, item>>
      BY <2>2 DEF Edit, locals
    <3>2. PICK e : log' = Append(log, e)
      BY <2>2 DEF Edit
    <3>3. \A t : Transitioned(t) => Transitioned(t)'
      BY <3>2, LogStep DEF IInv
    <3> QED  BY <3>1, <3>3 DEF ClaimInv, ItemClaims, Claims
  <2>3. CASE UNCHANGED vars
    <3>1. UNCHANGED <<file, pc, item>> /\ \A t : Transitioned(t)' <=> Transitioned(t)
      BY <2>3 DEF vars, disk, locals, Transitioned, TransitionEntry
    <3> QED  BY <3>1 DEF ClaimInv, ItemClaims, Claims
  <2> QED  BY <2>1, <2>2, <2>3, StepClaims DEF Next
<1> QED
  BY <1>1, <1>2, IInvHolds, TruthInvHolds, PTL DEF Spec

\* What a later call reads of a dispatch is what happened, for every plan, any number of
\* runners, and any number of kills, faults, retries, supersessions and edits: anchors
\* verify (verify_recorded_trace_anchors), traces tell of the worker and the transition
\* (mark_trace_worker_invoked, TraceGuard::finish and its drop), and no trace names an
\* anchor that is not there (write_and_anchor_trace).
THEOREM TracesAreTrueHolds == Spec => []TracesAreTrue
<1>1. TruthInv /\ ClaimInv => TracesAreTrue
  <2> SUFFICES ASSUME TruthInv, ClaimInv PROVE TracesAreTrue
    OBVIOUS
  <2>1. \A t \in TraceId : TraceOK(t)
    BY DEF TruthInv
  <2>2. AnchoredTracesVerify
    <3> SUFFICES ASSUME NEW i \in 1 .. Len(log), log[i].kind = "anchor", log[i].trace \notin aborted
                 PROVE  AnchorHolds(log[i])
      BY DEF AnchoredTracesVerify
    <3>1. AnchorBody(log[i].trace, log[i].body)
      BY DEF AnchorBody
    <3>2. log[i].trace \in TraceId
      BY <3>1 DEF TruthInv
    <3> QED  BY <2>1, <3>1, <3>2 DEF TraceOK, AnchorHolds
  <2>3. TracesTellWhatHappened
    <3>1. ASSUME NEW t \in TraceId \ aborted
          PROVE  /\ Finished(t) => (file[t].applied <=> Transitioned(t))
                 /\ Finished(t) => (file[t].invoked <=> worker[t] # "none")
                 /\ worker[t] # "none" => file[t].invoked
      <4>1. TraceOK(t)
        BY <2>1
      <4>2. Finished(t) \/ worker[t] # "none" => file[t].applied \in BOOLEAN /\ file[t].invoked \in BOOLEAN
        BY <4>1 DEF TruthInv, Typed, Trace, TraceOK, Finished, NoTrace
      <4>3. /\ Finished(t) => (file[t].applied = TRUE <=> Transitioned(t))
            /\ Finished(t) => (file[t].invoked = TRUE <=> worker[t] # "none")
            /\ worker[t] # "none" => file[t].invoked = TRUE
        BY <4>1 DEF TraceOK
      <4> QED  BY <4>2, <4>3, Zenon
    <3>2. ASSUME NEW t \in TraceId, Finished(t), file[t].applied PROVE Transitioned(t)
      <4>1. file[t] # NoTrace
        BY <3>2 DEF Finished, NoTrace
      <4>2. file[t].applied = TRUE
        BY <3>2, <4>1 DEF TruthInv, Typed, Trace
      <4> QED  BY <4>1, <4>2 DEF ClaimInv, Claims
    <3> QED  BY <3>1, <3>2, Zenon DEF TracesTellWhatHappened, Transitioned
  <2>4. NoPhantomAnchor
    <3> SUFFICES ASSUME NEW t \in TraceId, file[t] # NoTrace, file[t].anchor
                 PROVE  \/ \E i \in 1 .. Len(log) : log[i].kind = "anchor" /\ log[i].trace = t
                        \/ \E p \in Runners : Anchoring(p, t)
                        \/ t \in stranded
      BY DEF NoPhantomAnchor
    <3>1. file[t].anchor = TRUE
      BY DEF TruthInv, Typed, Trace
    <3>2. (\E b : AnchorBody(t, b)) => \E i \in 1 .. Len(log) : log[i].kind = "anchor" /\ log[i].trace = t
      BY DEF AnchorBody
    <3> QED  BY <2>1, <3>1, <3>2 DEF TraceOK
  <2> QED  BY <2>2, <2>3, <2>4 DEF TracesAreTrue
<1> QED
  BY <1>1, TruthInvHolds, ClaimInvHolds, PTL

\* Two workers run for one step only if one of the dispatches was authorized past an earlier
\* trace: the later of the two found every earlier attempt finished
\* (reserve_trace_identity_from_attempt), and no worker of a finished trace runs.
THEOREM PlainDispatchIsAloneHolds == Spec => []PlainDispatchIsAlone
<1>1. TruthInv => PlainDispatchIsAlone
  <2> SUFFICES ASSUME TruthInv, NEW t \in TraceId, NEW u \in TraceId, SameStep(t, u), Live(t), Live(u)
               PROVE  \E v \in {t, u} : file[v].retried # {} \/ file[v].superseded # {}
    BY DEF PlainDispatchIsAlone
  <2>1. /\ t[1] \in Steps /\ t[2] \in Nat /\ t[2] >= 1 /\ t = <<t[1], t[2]>>
        /\ u[1] \in Steps /\ u[2] \in Nat /\ u[2] >= 1 /\ u = <<u[1], u[2]>>
    <3>1. MaxAttempts \in Nat
      BY DispatchAssumption
    <3>2. /\ t[1] \in Steps /\ t[2] \in 1 .. MaxAttempts /\ t = <<t[1], t[2]>>
          /\ u[1] \in Steps /\ u[2] \in 1 .. MaxAttempts /\ u = <<u[1], u[2]>>
      BY DEF TraceId
    <3> QED  BY <3>1, <3>2
  <2>2. t[1] = u[1] /\ t[2] # u[2]
    BY <2>1 DEF SameStep, StepOf
  <2>3. \A v \in TraceId : TraceOK(v)
    BY DEF TruthInv
  <2>4. CASE t[2] < u[2]
    <3>1. t[2] \in 1 .. u[2] - 1
      BY <2>1, <2>4
    <3>2. ~EarlierFinished(u)
      BY <2>1, <2>2, <2>3, <3>1 DEF EarlierFinished, TraceOK, Live
    <3> QED  BY <2>3, <3>2 DEF TraceOK, Plain, Live
  <2>5. CASE u[2] < t[2]
    <3>1. u[2] \in 1 .. t[2] - 1
      BY <2>1, <2>5
    <3>2. ~EarlierFinished(t)
      BY <2>1, <2>2, <2>3, <3>1 DEF EarlierFinished, TraceOK, Live
    <3> QED  BY <2>3, <3>2 DEF TraceOK, Plain, Live
  <2> QED  BY <2>1, <2>2, <2>4, <2>5
<1> QED
  BY <1>1, TruthInvHolds, PTL

\* Over the rounds of a call, traces stay true and no step is started again: operate's retry
\* set is empty, and its own earlier attempts, failed or still started, stand in the way of
\* another one (select_steps).
THEOREM RoundsAreTrueHolds == Spec => []RoundsAreTrue
<1>1. TruthInv => NoRepeatWithinACall
  BY DEF TruthInv, AtWork, NoRepeatWithinACall
<1>2. TracesAreTrue /\ NoRepeatWithinACall => RoundsAreTrue
  BY DEF RoundsAreTrue
<1> QED
  BY <1>1, <1>2, TruthInvHolds, TracesAreTrueHolds, PTL
=============================================================================
