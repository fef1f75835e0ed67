---------------------------- MODULE RunDispatch ----------------------------
(***************************************************************************)
(* Dispatch of an accepted execution plan (src/native_cli/ops/run.rs):     *)
(* `run --step`, `run --frontier` and `operate`.  A call replays the case  *)
(* space, reads the traces under runs/, selects steps, reserves a run      *)
(* directory for each, starts their workers, and applies the results one   *)
(* by one: evidence, transition, trace, anchor of the trace in the log.    *)
(* Several calls run at once on one store, and any of them may be killed.  *)
(*                                                                         *)
(* The case store is the one CaseStore models, seen from outside: an       *)
(* append either extends exactly the revision it was built on or changes   *)
(* nothing, and a replay returns the whole log or fails.  A revision is    *)
(* the length of the log and a case space is what the log says at a        *)
(* revision.  A trace is named by its step and its attempt; its content    *)
(* hash is the trace itself, and the hashes of worker report and streams   *)
(* are which version of these files they were taken from.                  *)
(***************************************************************************)
EXTENDS Integers, Sequences, FiniteSets

CONSTANTS Runners,      \* processes that call run or operate
          Steps,        \* the steps of the plan
          Plan,         \* the steps in plan order
          Cells,        \* work cells
          WorkCell,     \* the work cell of each step
          Capability,   \* the capability cell that the dispatch gate names
          Modes,        \* which of "step", "frontier", "operate" are called
          MayRetry,     \* calls may pass --retry-step
          MaySupersede, \* calls may pass --supersede-trace
          Rejectable,   \* steps whose worker binding may fail inspection
          MaxParallel,  \* --max-parallel
          MaxRounds,    \* --max-rounds
          MaxAttempts,  \* bound: attempts of a step
          MaxCalls,     \* bound: calls made
          MaxCrashes,   \* bound: calls killed
          MaxFaults,    \* bound: store or file operations that fail
          MaxEdits      \* bound: changes that others make to the case space

ASSUME DispatchAssumption ==
    /\ Runners # {}
    /\ Plan \in Seq(Steps)
    /\ \A s \in Steps : \E i \in 1 .. Len(Plan) : Plan[i] = s
    /\ \A i, j \in 1 .. Len(Plan) : Plan[i] = Plan[j] => i = j
    /\ WorkCell \in [Steps -> Cells]
    /\ Capability \notin Cells
    /\ Modes \subseteq {"step", "frontier", "operate"}
    /\ {MayRetry, MaySupersede} \subseteq BOOLEAN
    /\ Rejectable \subseteq Steps
    /\ {MaxParallel, MaxRounds, MaxAttempts} \subseteq Nat \ {0}
    /\ {MaxCalls, MaxCrashes, MaxFaults, MaxEdits} \subseteq Nat

VARIABLES
    \* the store
    log,      \* the morphism log, as far as dispatch reads or writes it
    made,     \* run directories that exist
    file,     \* execution.trace.json of each run directory
    out,      \* worker.report.json, stdout and stderr of each run directory
    worker,   \* the worker process of each trace
    \* one call of each runner
    pc, call,
    base,     \* the revision that selection and dispatch work on
    rounds,   \* rounds used by an operate call
    picked,   \* selected steps whose trace is not written yet
    held,     \* reserved steps whose result is not applied yet
    item,     \* the reserved step in progress
    view,     \* the revision that the next append builds on
    phase,    \* what the item in progress is part of
    \* the environment
    calls, crashes, faults, edits,
    \* history
    mine,     \* the traces that the call has reserved
    aborted,  \* traces settled because their call gave up, see Abort
    stranded  \* traces left while they name an anchor that is not in the log

disk == <<log, made, file, out, worker>>
locals == <<call, base, rounds, picked, held, item, view, phase, mine>>
env == <<calls, crashes, faults, edits>>
history == <<aborted, stranded>>
vars == <<disk, pc, locals, env, history>>

----------------------------------------------------------------------------
(* Traces and the case space *)

TraceId == Steps \X (1 .. MaxAttempts)
StepOf(t) == t[1]

Artifacts == {"none", "initial", "worker"}
Trace == [state : {"started", "completed", "failed"},
          applied : BOOLEAN,           \* transition_applied
          invoked : BOOLEAN,           \* metadata.worker_invoked
          out : Artifacts,             \* the three recorded content hashes
          anchor : BOOLEAN,            \* it names an anchor entry
          retried : SUBSET TraceId,    \* metadata.retried_trace_ids
          superseded : SUBSET TraceId] \* metadata.superseded_trace_ids
NoTrace == [state |-> "none"]

\* TraceGuard::start
StartedTrace(retried, superseded) ==
    [state |-> "started", applied |-> FALSE, invoked |-> FALSE, out |-> "initial",
     anchor |-> FALSE, retried |-> retried, superseded |-> superseded]

Started(t) == file[t].state = "started"
Finished(t) == file[t].state \in {"completed", "failed"}
TracesOf(s) == {t \in TraceId : StepOf(t) = s /\ file[t] # NoTrace}
FailedTraces(s) == {t \in TracesOf(s) : file[t].state = "failed"}

EvidenceEntry(t) == [kind |-> "evidence", trace |-> t]
TransitionEntry(t) == [kind |-> "transition", trace |-> t]
AnchorEntry(t) == [kind |-> "anchor", trace |-> t, body |-> file[t]]
EditEntry(c, v) == [kind |-> "edit", cell |-> c, to |-> v]

\* "ready": active and on the frontier; "blocked": active, not on the frontier;
\* "resolved": no longer active.  Of the capability cell, "ready" means that it
\* still grants the dispatch.
CellState == {"ready", "blocked", "resolved"}
Decides(e, c) == \/ e.kind = "transition" /\ WorkCell[StepOf(e.trace)] = c
                 \/ e.kind = "edit" /\ e.cell = c
CellIn(l, c, n) ==
    LET at == {i \in 1 .. n : Decides(l[i], c)}
        last == CHOOSE i \in at : \A j \in at : j <= i
    IN  CASE at = {} -> "ready"
          [] at # {} /\ l[last].kind = "transition" -> "resolved"
          [] at # {} /\ l[last].kind = "edit" -> l[last].to
CellAt(c, n) == CellIn(log, c, n)

GateHolds(n) == CellAt(Capability, n) = "ready"

\* step_case_eligibility_reasons is empty
CaseEligible(s, n) == CellAt(WorkCell[s], n) = "ready"

\* Variant: the revision that the entry was built on is not compared.
CanAppendAnywhere(n) == GateHolds(n)

\* append_validated_morphism: the entry extends the revision it was built on,
\* and the gate that it records holds there.
CanAppend(n) == n = Len(log) /\ GateHolds(n)

\* verify_recorded_trace_anchors on the log of a revision
AnchorHolds(e) == file[e.trace] = e.body /\ out[e.trace] = e.body.out
AnchorsVerify(n) == \A i \in 1 .. n : log[i].kind = "anchor" => AnchorHolds(log[i])

----------------------------------------------------------------------------
(* Calls *)

NoCall == [mode |-> "none", retry |-> {}, supersede |-> {}]
NoItem == [trace |-> <<>>]
OneAtATime(p) == call[p].mode = "step"

Init ==
    /\ log = <<>>
    /\ made = {}
    /\ file = [t \in TraceId |-> NoTrace]
    /\ out = [t \in TraceId |-> "none"]
    /\ worker = [t \in TraceId |-> "none"]
    /\ pc = [p \in Runners |-> "idle"]
    /\ call = [p \in Runners |-> NoCall]
    /\ base = [p \in Runners |-> 0]
    /\ rounds = [p \in Runners |-> 0]
    /\ picked = [p \in Runners |-> {}]
    /\ held = [p \in Runners |-> <<>>]
    /\ item = [p \in Runners |-> NoItem]
    /\ view = [p \in Runners |-> 0]
    /\ phase = [p \in Runners |-> "none"]
    /\ mine = [p \in Runners |-> {}]
    /\ aborted = {}
    /\ stranded = {}
    /\ calls = 0 /\ crashes = 0 /\ faults = 0 /\ edits = 0

\* The call ends, with a report or with an error.
Return(p) ==
    /\ pc' = [pc EXCEPT ![p] = "idle"]
    /\ call' = [call EXCEPT ![p] = NoCall]
    /\ base' = [base EXCEPT ![p] = 0]
    /\ rounds' = [rounds EXCEPT ![p] = 0]
    /\ picked' = [picked EXCEPT ![p] = {}]
    /\ held' = [held EXCEPT ![p] = <<>>]
    /\ item' = [item EXCEPT ![p] = NoItem]
    /\ view' = [view EXCEPT ![p] = 0]
    /\ phase' = [phase EXCEPT ![p] = "none"]
    /\ mine' = [mine EXCEPT ![p] = {}]

Goto(p, l) == pc' = [pc EXCEPT ![p] = l]

\* A replay that meets another writer's append, a lock that is not released in
\* time, a file-system call that fails.
Fault == faults < MaxFaults /\ faults' = faults + 1
NoFault == UNCHANGED faults

\* The caller names the current revision; the operator may retry steps that
\* failed and declare started traces dead, rightly or wrongly.  operate has no
\* --retry-step.
Begin(p) ==
    /\ pc[p] = "idle"
    /\ calls < MaxCalls
    /\ \E mode \in Modes,
          retry \in SUBSET {s \in Steps : MayRetry /\ FailedTraces(s) # {}},
          supersede \in SUBSET {t \in TraceId : MaySupersede /\ Started(t)} :
          /\ mode = "operate" => retry = {}
          /\ mode = "step" => Cardinality(retry) <= 1
          /\ call' = [call EXCEPT ![p] = [mode |-> mode, retry |-> retry,
                                          supersede |-> supersede]]
    /\ base' = [base EXCEPT ![p] = Len(log)]
    /\ Goto(p, "select")
    /\ calls' = calls + 1
    /\ UNCHANGED <<disk, rounds, picked, held, item, view, phase, mine,
                   crashes, faults, edits, history>>

----------------------------------------------------------------------------
(* Selection *)

\* decide_superseded_traces refuses a name that is not a started trace's.
AssertionsStand(p) == \A t \in call[p].supersede : Started(t)
InProgress(p, s) == \E t \in TracesOf(s) : Started(t) /\ t \notin call[p].supersede
AlreadyExecuted(s) == \E t \in TracesOf(s) : file[t].applied
RetryRequired(p, s) == FailedTraces(s) # {} /\ s \notin call[p].retry

\* Variant: a failed attempt does not stand in the way.
SelectableRetrying(p, s) ==
    ~InProgress(p, s) /\ ~AlreadyExecuted(s) /\ CaseEligible(s, base[p])

\* select_steps
Selectable(p, s) ==
    /\ ~InProgress(p, s)
    /\ ~AlreadyExecuted(s)
    /\ ~RetryRequired(p, s)
    /\ CaseEligible(s, base[p])

Before(s, u) == \E i, j \in 1 .. Len(Plan) : i < j /\ Plan[i] = s /\ Plan[j] = u

\* limit_one_step_per_work_cell: a step that will be rejected takes no place.
OnePerCell(chosen, rejected) ==
    {s \in chosen : \/ s \in rejected
                    \/ \A u \in chosen \ rejected :
                          Before(u, s) => WorkCell[u] # WorkCell[s]}

\* run --step takes the first selectable step; a frontier round takes them all,
\* none if the gate fails.
Round(p, rejected) ==
    LET chosen == {s \in Steps : Selectable(p, s)}
    IN  IF OneAtATime(p) THEN {s \in chosen : \A u \in chosen \ {s} : Before(s, u)}
        ELSE IF GateHolds(base[p]) THEN OnePerCell(chosen, rejected)
        ELSE {}

\* frontier_binding_rejections
Rejections(p) ==
    IF OneAtATime(p) THEN {{}} ELSE SUBSET {s \in Rejectable : Selectable(p, s)}

RoundBudgetLeft(p) == call[p].mode = "operate" => rounds[p] < MaxRounds

Pick(p, s, rejected) ==
    [step |-> s,
     attempt |-> Cardinality(TracesOf(s)) + 1,
     retried |-> FailedTraces(s),
     superseded |-> {t \in call[p].supersede : StepOf(t) = s},
     rejected |-> s \in rejected]

Select(p) ==
    /\ pc[p] = "select"
    /\ AnchorsVerify(base[p])
    /\ AssertionsStand(p)
    /\ RoundBudgetLeft(p)
    /\ \E rejected \in Rejections(p) :
          /\ Round(p, rejected) # {}
          /\ picked' = [picked EXCEPT ![p] = {Pick(p, s, rejected) : s \in Round(p, rejected)}]
    /\ Goto(p, "reserve")
    /\ UNCHANGED <<disk, call, base, rounds, held, item, view, phase, mine, env, history>>

\* An integrity mismatch, a refused assertion, a halt.
SelectNothing(p) ==
    /\ pc[p] = "select"
    /\ \/ ~AnchorsVerify(base[p])
       \/ ~AssertionsStand(p)
       \/ ~RoundBudgetLeft(p)
       \/ Round(p, {}) = {}
    /\ Return(p)
    /\ UNCHANGED <<disk, env, history>>

----------------------------------------------------------------------------
(* Reservation of run directories *)

\* Variant: any run directory that has a trace is passed over.
PassableUnlessEmpty(t) == file[t] # NoTrace

\* reserve_trace_identity_from_attempt passes over an attempt that has ended.
Passable(t) == Finished(t)

\* The attempts n .. k - 1 of a step are taken and are passed over.
PassedOver(s, n, k) == \A j \in n .. k - 1 : <<s, j>> \in made /\ Passable(<<s, j>>)
Refuses(s, n) ==
    \E k \in n .. MaxAttempts :
        PassedOver(s, n, k) /\ <<s, k>> \in made /\ ~Passable(<<s, k>>)

Reserved(t, w) == [trace |-> t,
                   mem |-> StartedTrace(w.retried, w.superseded),
                   got |-> "none",
                   rejected |-> w.rejected]

\* Run directories are reserved in plan order.
NextPick(p) == {w \in picked[p] : \A v \in picked[p] \ {w} : Before(w.step, v.step)}

ReserveAttempt(p, w, n, next) ==
    \E k \in n .. MaxAttempts :
        LET t == <<w.step, k>>
        IN  /\ PassedOver(w.step, n, k)
            /\ t \in TraceId \ made
            /\ made' = made \cup {t}
            /\ mine' = [mine EXCEPT ![p] = @ \cup {t}]
            /\ item' = [item EXCEPT ![p] = Reserved(t, w)]
            /\ Goto(p, next)

\* create_dir of the next attempt's run directory
Reserve(p) ==
    /\ pc[p] = "reserve"
    /\ \E w \in NextPick(p) : ReserveAttempt(p, w, w.attempt, "start")
    /\ UNCHANGED <<log, file, out, worker, call, base, rounds, picked, held, view,
                   phase, env, history>>

\* A round records the failure under the attempt after it
\* (record_reservation_failure, reserve_failure_trace_identity) and gives up if
\* that is refused too or fails on the same file system; run --step ends.
RecordReservationFailure(p, w) ==
    /\ \/ /\ ~OneAtATime(p)
          /\ ReserveAttempt(p, w, w.attempt + 1, "startFailed")
          /\ UNCHANGED <<log, file, out, worker, call, base, rounds, picked, held,
                         view, phase>>
       \/ /\ ~OneAtATime(p)
          /\ Refuses(w.step, w.attempt + 1) \/ faults' # faults
          /\ Goto(p, "abort")
          /\ UNCHANGED <<disk, locals>>
       \/ /\ OneAtATime(p)
          /\ Return(p)
          /\ UNCHANGED disk
    /\ UNCHANGED <<calls, crashes, edits, history>>

\* Another dispatch holds the attempt, or create_dir fails.
ReserveRefused(p) ==
    /\ pc[p] = "reserve"
    /\ \E w \in NextPick(p) :
          /\ \/ Refuses(w.step, w.attempt) /\ NoFault
             \/ Fault
          /\ RecordReservationFailure(p, w)

\* The picks that remain once the item has its trace
Unwritten(p) == {w \in picked[p] : w.step # StepOf(item[p].trace)}

WriteInitialTrace(p) ==
    LET t == item[p].trace
    IN  /\ file' = [file EXCEPT ![t] = item[p].mem]
        /\ out' = [out EXCEPT ![t] = "initial"]
        /\ picked' = [picked EXCEPT ![p] = Unwritten(p)]
        /\ UNCHANGED <<log, made, worker>>

AfterReserve(rest) == IF rest = {} THEN "dispatch" ELSE "reserve"

\* TraceGuard::start
Start(p) ==
    /\ pc[p] = "start"
    /\ WriteInitialTrace(p)
    /\ held' = [held EXCEPT ![p] = Append(@, item[p])]
    /\ item' = [item EXCEPT ![p] = NoItem]
    /\ Goto(p, AfterReserve(Unwritten(p)))
    /\ UNCHANGED <<call, base, rounds, view, phase, mine, env, history>>

\* TraceGuard::start fails: the run directory stays behind without a trace.
StartRefused(p) ==
    /\ pc[p] = "start"
    /\ Fault
    /\ \E w \in NextPick(p) : RecordReservationFailure(p, w)

\* record_reservation_failure, up to finish_reserved_step_failure; if the trace
\* cannot be written, the error ends the call.
StartFailed(p) ==
    /\ pc[p] = "startFailed"
    /\ \/ /\ WriteInitialTrace(p)
          /\ phase' = [phase EXCEPT ![p] = "reserve"]
          /\ Goto(p, "fail")
          /\ NoFault
       \/ /\ Fault
          /\ Goto(p, "abort")
          /\ UNCHANGED <<disk, picked, phase>>
    /\ UNCHANGED <<call, base, rounds, held, item, view, mine, calls, crashes, edits, history>>

----------------------------------------------------------------------------
(* The dispatch threads: dispatch_step_worker *)

Answers == {"ok", "failed", "rejected", "unspawned", "lost"}
Chunk(i) == (i - 1) \div MaxParallel

\* The threads of a chunk run at once; the next chunk waits for all of them.
Running(p, i, got) ==
    /\ pc[p] = "dispatch"
    /\ i \in DOMAIN held[p]
    /\ held[p][i].got = got
    /\ \A j \in DOMAIN held[p] : Chunk(j) < Chunk(i) => held[p][j].got \in Answers

Got(p, i, got) == held' = [held EXCEPT ![p][i].got = got]

\* The gate, the binding's hash, capabilities or identity are refused.
Reject(p, i) ==
    /\ Running(p, i, "none")
    /\ \/ held[p][i].rejected
       \/ StepOf(held[p][i].trace) \in Rejectable
       \/ ~GateHolds(base[p])
    /\ Got(p, i, "rejected")
    /\ UNCHANGED <<disk, pc, call, base, rounds, picked, item, view, phase, mine,
                   env, history>>

\* Variant: the trace file does not learn that a process is about to exist.
MarkInMemory(p, i) ==
    /\ Running(p, i, "none")
    /\ ~held[p][i].rejected
    /\ GateHolds(base[p])
    /\ Got(p, i, "marked")
    /\ UNCHANGED <<disk, pc, call, base, rounds, picked, item, view, phase, mine, env, history>>

\* mark_trace_worker_invoked
Mark(p, i) ==
    LET t == held[p][i].trace
    IN  /\ Running(p, i, "none")
        /\ ~held[p][i].rejected
        /\ GateHolds(base[p])
        /\ file' = [file EXCEPT ![t].invoked = TRUE]
        /\ Got(p, i, "marked")
        /\ UNCHANGED <<log, made, out, worker, pc, call, base, rounds, picked, item,
                       view, phase, mine, env, history>>

\* Something before the spawn fails, or the spawn itself.
SpawnFails(p, i) ==
    /\ \/ Running(p, i, "none") /\ ~held[p][i].rejected /\ GateHolds(base[p])
       \/ Running(p, i, "marked")
    /\ Fault
    /\ Got(p, i, "unspawned")
    /\ UNCHANGED <<disk, pc, call, base, rounds, picked, item, view, phase, mine,
                   calls, crashes, edits, history>>

Spawn(p, i) ==
    /\ Running(p, i, "marked")
    /\ worker' = [worker EXCEPT ![held[p][i].trace] = "running"]
    /\ Got(p, i, "running")
    /\ UNCHANGED <<log, made, file, out, pc, call, base, rounds, picked, item, view,
                   phase, mine, env, history>>

\* The worker exits or is killed at its timeout; streams and report are written.
Exit(p, i) ==
    LET t == held[p][i].trace
    IN  /\ Running(p, i, "running")
        /\ worker' = [worker EXCEPT ![t] = "done"]
        /\ out' = [out EXCEPT ![t] = "worker"]
        /\ \E got \in {"ok", "failed"} : Got(p, i, got)
        /\ UNCHANGED <<log, made, file, pc, call, base, rounds, picked, item, view,
                       phase, mine, env, history>>

\* The outcome of a worker that did run cannot be collected.
ExitLost(p, i) ==
    LET t == held[p][i].trace
    IN  /\ Running(p, i, "running")
        /\ Fault
        /\ worker' = [worker EXCEPT ![t] = "done"]
        /\ \E v \in {"initial", "worker"} : out' = [out EXCEPT ![t] = v]
        /\ Got(p, i, "lost")
        /\ UNCHANGED <<log, made, file, pc, call, base, rounds, picked, item, view,
                       phase, mine, calls, crashes, edits, history>>

\* Variant: every step is expected to have a worker report.
JoinReports(p) ==
    /\ pc[p] = "dispatch"
    /\ \A i \in DOMAIN held[p] : held[p][i].got \in {"ok", "failed"}
    /\ Goto(p, "apply")
    /\ UNCHANGED <<disk, locals, env, history>>

Join(p) ==
    /\ pc[p] = "dispatch"
    /\ \A i \in DOMAIN held[p] : held[p][i].got \in Answers
    /\ Goto(p, "apply")
    /\ UNCHANGED <<disk, locals, env, history>>

----------------------------------------------------------------------------
(* Application of the results, in plan order: apply_step_result *)

\* run --step applies to the case space that its call began with; a round
\* replays it for every step.
ApplicationView(p) == IF OneAtATime(p) THEN base[p] ELSE Len(log)

\* Variant: a worker's result is recorded without the hashes of its files.
ExecutedWithOldHashes(m) == [m EXCEPT !.invoked = TRUE]

\* The trace in memory learns what the worker left in the run directory.
Executed(m) == [m EXCEPT !.invoked = TRUE, !.out = "worker"]

HasReport(got) == got \in {"ok", "failed"}
Learned(i) == IF HasReport(i.got) THEN Executed(i.mem) ELSE i.mem
SetMem(p, m) == item' = [item EXCEPT ![p].mem = m]

\* An error after the worker's dispatch: a round records it and goes on, a
\* single step gives up and its TraceGuard is dropped.
OnStepError(p) == Goto(p, IF OneAtATime(p) THEN "drop" ELSE "fail")

TakeHeld(p) ==
    LET i == Head(held[p])
    IN  /\ pc[p] = "apply"
        /\ held[p] # <<>>
        /\ held' = [held EXCEPT ![p] = Tail(@)]
        /\ item' = [item EXCEPT ![p] = [i EXCEPT !.mem = Learned(i)]]
        /\ phase' = [phase EXCEPT ![p] = "apply"]
        /\ UNCHANGED <<disk, call, base, rounds, picked, mine>>

ApplyRejected(p) ==
    /\ TakeHeld(p)
    /\ Head(held[p]).got = "rejected"
    /\ Goto(p, "refused")
    /\ UNCHANGED <<view, env, history>>

ApplyExecuted(p) ==
    /\ TakeHeld(p)
    /\ HasReport(Head(held[p]).got)
    /\ view' = [view EXCEPT ![p] = ApplicationView(p)]
    /\ Goto(p, "evidence")
    /\ UNCHANGED <<env, history>>

ApplyReplayFails(p) ==
    /\ TakeHeld(p)
    /\ ~OneAtATime(p)
    /\ Head(held[p]).got \in {"ok", "failed", "rejected"}
    /\ Fault
    /\ Goto(p, "fail")
    /\ UNCHANGED <<view, calls, crashes, edits, history>>

ApplyUnspawned(p) ==
    /\ TakeHeld(p)
    /\ Head(held[p]).got = "unspawned"
    /\ OnStepError(p)
    /\ UNCHANGED <<view, env, history>>

\* TraceGuard::abandon: the trace stays started, and the call ends.
ApplyLost(p) ==
    /\ TakeHeld(p)
    /\ Head(held[p]).got = "lost"
    /\ Goto(p, "abort")
    /\ UNCHANGED <<view, env, history>>

AppendEvidence(p) ==
    /\ pc[p] = "evidence"
    /\ CanAppend(view[p])
    /\ log' = Append(log, EvidenceEntry(item[p].trace))
    /\ Goto(p, "judge")
    /\ UNCHANGED <<made, file, out, worker, locals, env, history>>

\* The case space after the evidence decides: the worker must have succeeded,
\* the step must still be eligible, its success conditions hold, no new hard
\* obstruction appear, and the plan must authorize the transition.
Judge(p) ==
    /\ pc[p] = "judge"
    /\ view' = [view EXCEPT ![p] = Len(log)]
    /\ \/ /\ item[p].got = "ok"
          /\ CaseEligible(StepOf(item[p].trace), Len(log))
          /\ Goto(p, "transition")
       \/ Goto(p, "final")
    /\ UNCHANGED <<disk, call, base, rounds, picked, held, item, phase, mine, env, history>>

AppendTransition(p) ==
    /\ pc[p] = "transition"
    /\ CanAppend(view[p])
    /\ log' = Append(log, TransitionEntry(item[p].trace))
    /\ SetMem(p, [item[p].mem EXCEPT !.applied = TRUE])
    /\ Goto(p, "final")
    /\ UNCHANGED <<made, file, out, worker, call, base, rounds, picked, held, view,
                   phase, mine, env, history>>

\* An append is refused, or a replay fails.
StepFails(p) ==
    /\ \/ pc[p] \in {"evidence", "transition"} /\ ~CanAppend(view[p]) /\ NoFault
       \/ pc[p] \in {"evidence", "transition", "judge"} /\ Fault
    /\ OnStepError(p)
    /\ UNCHANGED <<disk, locals, calls, crashes, edits, history>>

----------------------------------------------------------------------------
(* TraceGuard::finish, its Drop, and write_and_anchor_trace *)

SettledTrace(m) == [m EXCEPT !.state = IF m.applied THEN "completed" ELSE "failed"]
DroppedTrace(m) == [m EXCEPT !.state = "failed", !.applied = FALSE]
NamingAnchor(m) == [m EXCEPT !.anchor = TRUE]

\* Where the call goes on once the item is settled.
Onward(p) ==
    CASE phase[p] = "reserve" -> AfterReserve(picked[p])
      [] phase[p] = "apply" -> "apply"
      [] phase[p] = "drop" -> "abort"

WriteTrace(p, m) == file' = [file EXCEPT ![item[p].trace] = m]

\* finish writes the trace against the case space of its caller's replay; when
\* the gate no longer holds there, the trace stays without an anchor.
Finish(p) ==
    LET m == SettledTrace(item[p].mem)
        n == IF pc[p] = "refused" THEN ApplicationView(p) ELSE Len(log)
    IN  /\ pc[p] \in {"fail", "final", "refused"}
        /\ view' = [view EXCEPT ![p] = n]
        /\ SetMem(p, m)
        /\ \/ /\ GateHolds(n)
              /\ WriteTrace(p, NamingAnchor(m))
              /\ Goto(p, "anchor")
           \/ /\ ~GateHolds(n)
              /\ WriteTrace(p, m)
              /\ Goto(p, Onward(p))
        /\ UNCHANGED <<log, made, out, worker, call, base, rounds, picked, held, phase,
                       mine, env, history>>

\* That replay fails: the guard is dropped, and with the error the call gives up.
FinishReplayFails(p) ==
    /\ pc[p] \in {"fail", "final"}
    /\ Fault
    /\ aborted' = aborted \cup {item[p].trace}
    /\ Goto(p, "drop")
    /\ UNCHANGED <<disk, locals, calls, crashes, edits, stranded>>

\* The trace cannot be written: it stays started, and the error ends the call.
FinishWriteFails(p) ==
    /\ pc[p] \in {"fail", "final", "refused"}
    /\ Fault
    /\ Goto(p, "abort")
    /\ UNCHANGED <<disk, locals, calls, crashes, edits, history>>

\* TraceGuard::drop of an unfinished guard
Drop(p) ==
    LET m == DroppedTrace(item[p].mem)
    IN  /\ pc[p] = "drop"
        /\ phase' = [phase EXCEPT ![p] = "drop"]
        /\ view' = [view EXCEPT ![p] = Len(log)]
        /\ SetMem(p, m)
        /\ \/ /\ WriteTrace(p, NamingAnchor(m))
              /\ Goto(p, "anchor")
              /\ NoFault
           \/ /\ WriteTrace(p, m) \/ UNCHANGED file
              /\ Goto(p, "abort")
              /\ Fault
        /\ UNCHANGED <<log, made, out, worker, call, base, rounds, picked, held, mine,
                       calls, crashes, edits, history>>

Anchor(p) ==
    /\ pc[p] = "anchor"
    /\ CanAppend(view[p])
    /\ log' = Append(log, AnchorEntry(item[p].trace))
    /\ Goto(p, Onward(p))
    /\ UNCHANGED <<made, file, out, worker, locals, env, history>>

AnchorFails(p) ==
    /\ pc[p] = "anchor"
    /\ \/ ~CanAppend(view[p]) /\ NoFault
       \/ Fault
    /\ Goto(p, "rewind")
    /\ UNCHANGED <<disk, locals, calls, crashes, edits, history>>

\* The trace no longer names the anchor, if it can be written; the append's
\* error ends the call.
Rewind(p) ==
    /\ pc[p] = "rewind"
    /\ \/ /\ WriteTrace(p, item[p].mem)
          /\ NoFault
          /\ UNCHANGED stranded
       \/ /\ UNCHANGED file
          /\ Fault
          /\ stranded' = stranded \cup {item[p].trace}
    /\ Goto(p, "abort")
    /\ UNCHANGED <<log, made, out, worker, locals, calls, crashes, edits, aborted>>

\* The error leaves execute_selected_steps: the guards of the remaining
\* reserved steps are dropped one after the other, and the call ends.
Abort(p) ==
    /\ pc[p] = "abort"
    /\ \/ /\ held[p] # <<>>
          /\ item' = [item EXCEPT ![p] = Head(held[p])]
          /\ held' = [held EXCEPT ![p] = Tail(@)]
          /\ aborted' = aborted \cup {Head(held[p]).trace}
          /\ Goto(p, "drop")
          /\ UNCHANGED <<disk, call, base, rounds, picked, view, phase, mine, env, stranded>>
       \/ /\ held[p] = <<>>
          /\ Return(p)
          /\ UNCHANGED <<disk, env, history>>

\* The end of the round: operate replays and selects again.
EndRound(p) ==
    /\ pc[p] = "apply"
    /\ held[p] = <<>>
    /\ \/ /\ call[p].mode = "operate"
          /\ rounds' = [rounds EXCEPT ![p] = @ + 1]
          /\ base' = [base EXCEPT ![p] = Len(log)]
          /\ item' = [item EXCEPT ![p] = NoItem]
          /\ view' = [view EXCEPT ![p] = 0]
          /\ phase' = [phase EXCEPT ![p] = "none"]
          /\ Goto(p, "select")
          /\ UNCHANGED <<call, picked, held, mine, faults>>
       \/ call[p].mode # "operate" /\ Return(p) /\ NoFault
       \/ call[p].mode = "operate" /\ Return(p) /\ Fault
    /\ UNCHANGED <<disk, calls, crashes, edits, history>>

----------------------------------------------------------------------------
(* The environment *)

\* The dispatcher is killed; a worker that it started goes on.
Crash(p) ==
    /\ pc[p] # "idle"
    /\ crashes < MaxCrashes
    /\ crashes' = crashes + 1
    /\ Return(p)
    /\ stranded' = stranded \cup (IF pc[p] \in {"anchor", "rewind"} THEN {item[p].trace} ELSE {})
    /\ UNCHANGED <<disk, calls, faults, edits, aborted>>

\* Another command changes a work cell or the capability.
Edit ==
    /\ edits < MaxEdits
    /\ \E c \in Cells \cup {Capability}, v \in CellState :
          /\ v # CellAt(c, Len(log))
          /\ log' = Append(log, EditEntry(c, v))
    /\ edits' = edits + 1
    /\ UNCHANGED <<made, file, out, worker, pc, locals, calls, crashes, faults, history>>

Thread(p, i) ==
    \/ Reject(p, i) \/ Mark(p, i) \/ SpawnFails(p, i)
    \/ Spawn(p, i) \/ Exit(p, i) \/ ExitLost(p, i)

Apply(p) ==
    \/ ApplyRejected(p) \/ ApplyExecuted(p) \/ ApplyReplayFails(p)
    \/ ApplyUnspawned(p) \/ ApplyLost(p)
    \/ AppendEvidence(p) \/ Judge(p) \/ AppendTransition(p) \/ StepFails(p)

Settle(p) ==
    \/ Finish(p) \/ FinishReplayFails(p) \/ FinishWriteFails(p) \/ Drop(p)
    \/ Anchor(p) \/ AnchorFails(p) \/ Rewind(p) \/ Abort(p)

Step(p) ==
    \/ Select(p) \/ SelectNothing(p)
    \/ Reserve(p) \/ ReserveRefused(p) \/ Start(p) \/ StartRefused(p) \/ StartFailed(p)
    \/ \E i \in 1 .. Cardinality(Steps) : Thread(p, i)
    \/ Join(p)
    \/ Apply(p)
    \/ Settle(p)
    \/ EndRound(p)

Next ==
    \/ \E p \in Runners : Begin(p) \/ Step(p) \/ Crash(p)
    \/ Edit

Spec == Init /\ [][Next]_vars

\* A call that has begun is scheduled, and a worker ends at the latest at its timeout.
FairSpec == Spec /\ \A p \in Runners : WF_vars(Step(p))

----------------------------------------------------------------------------
(* Properties *)

\* Every file and every field of a call has its type.
TypeOK ==
    /\ made \subseteq TraceId
    /\ file \in [TraceId -> Trace \cup {NoTrace}]
    /\ out \in [TraceId -> Artifacts]
    /\ worker \in [TraceId -> {"none", "running", "done"}]
    /\ \A i \in 1 .. Len(log) :
          /\ log[i].kind \in {"evidence", "transition", "anchor", "edit"}
          /\ log[i].kind # "edit" => log[i].trace \in made
    /\ base \in [Runners -> 0 .. Len(log)]
    /\ view \in [Runners -> 0 .. Len(log)]
    /\ mine \in [Runners -> SUBSET made]
    /\ aborted \cup stranded \subseteq made

\* A transition resolves a work cell that is active and on the frontier in the
\* very revision it extends, whatever other calls, supersessions and edits did
\* since its step was selected (append_validated_morphism in apply_step_result).
TransitionsApplyToReadyCells ==
    \A i \in 1 .. Len(log) :
        log[i].kind = "transition" => CaseEligible(StepOf(log[i].trace), i - 1)

\* Every anchor in the log agrees with the run directory it names, so that
\* verify_recorded_trace_anchors accepts it; calls that gave up are set apart.
AnchoredTracesVerify ==
    \A i \in 1 .. Len(log) :
        (log[i].kind = "anchor" /\ log[i].trace \notin aborted) => AnchorHolds(log[i])

\* The same without exception: "The in-memory trace is corrected on every path
\* that returns" (dispatch_step_worker).
EveryAnchoredTraceVerifies ==
    \A i \in 1 .. Len(log) : log[i].kind = "anchor" => AnchorHolds(log[i])

\* No finished trace claims a transition that the log does not hold, that of a
\* call that gave up included, so that a step whose result was not applied is
\* never taken for executed.  Where no call gave up, a finished trace says exactly
\* whether its transition is in the log and whether its worker ran; an unfinished
\* one never hides a worker (mark_trace_worker_invoked).
TracesTellWhatHappened ==
    \A t \in TraceId :
        LET applied == \E i \in 1 .. Len(log) : log[i] = TransitionEntry(t)
            ran == worker[t] # "none"
        IN  /\ Finished(t) /\ file[t].applied => applied
            /\ t \notin aborted =>
                  /\ Finished(t) => (file[t].applied <=> applied) /\ (file[t].invoked <=> ran)
                  /\ ran => file[t].invoked

\* A trace that names its anchor has it in the log, unless its writer is just
\* appending it, is about to take the name back, or was killed or could not
\* write the file there (write_and_anchor_trace).
Anchoring(p, t) == pc[p] \in {"anchor", "rewind"} /\ item[p].trace = t
NoPhantomAnchor ==
    \A t \in TraceId :
        (file[t] # NoTrace /\ file[t].anchor) =>
            \/ \E i \in 1 .. Len(log) : log[i].kind = "anchor" /\ log[i].trace = t
            \/ \E p \in Runners : Anchoring(p, t)
            \/ t \in stranded

\* What a later call reads of a dispatch is what happened: its anchor verifies,
\* its trace tells of the worker and the transition, and names no anchor that
\* the log does not hold.
TracesAreTrue == AnchoredTracesVerify /\ TracesTellWhatHappened /\ NoPhantomAnchor

\* Two workers run for one step only if one of the two dispatches was
\* authorized past an earlier trace, by retry or supersession.
Live(t) == worker[t] = "running"
SameStep(t, u) == t # u /\ StepOf(t) = StepOf(u)
PlainDispatchIsAlone ==
    \A t, u \in TraceId :
        (SameStep(t, u) /\ Live(t) /\ Live(u)) =>
            \E v \in {t, u} : file[v].retried # {} \/ file[v].superseded # {}

\* "For either run mode, one accepted step has at most one live dispatch", but
\* for a trace that an operator declared dead.
OneLiveDispatch ==
    \A t, u \in TraceId :
        (SameStep(t, u) /\ Live(t) /\ Live(u)) =>
            t \in file[u].superseded \/ u \in file[t].superseded

\* One call starts at most one worker for a step: operate repeats rounds, never
\* a step (operate's empty retry set, and the failed traces of its own rounds).
NoRepeatWithinACall ==
    \A p \in Runners : \A t, u \in mine[p] :
        SameStep(t, u) => worker[t] = "none" \/ worker[u] = "none"

\* Over the rounds of a call, traces stay true and no step is started again.
RoundsAreTrue == TracesAreTrue /\ NoRepeatWithinACall

\* A call returns, whatever rounds it repeats and whichever appends, replays,
\* spawns and writes of it fail.
CallsReturn == \A p \in Runners : pc[p] # "idle" ~> pc[p] = "idle"

=============================================================================
