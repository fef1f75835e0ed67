----------------------------- MODULE CaseStore -----------------------------
(***************************************************************************)
(* The durable store of one case space (src/native_store.rs and            *)
(* src/native_store/support.rs): a case directory that holds the lock file *)
(* `.lock`, the hash-chained morphism log, the head file that anchors the  *)
(* log's tail, and the periodic snapshots.  Several processes (CLI         *)
(* invocations, MCP hosts) work on the directory at once; the lock file is *)
(* the only thing that serializes them.  Every file-system call that       *)
(* another process can observe is a step of its own.                       *)
(*                                                                         *)
(* Data is abstracted to what the store's checks tell apart.  An entry's   *)
(* hash, entry id and morphism id are one number, the number of the        *)
(* operation that built it, so hashes are collision free.  The state that  *)
(* a log folds to is the log itself: a snapshot is the sequence of entries *)
(* it materializes, and a checksum comparison is equality of sequences.    *)
(***************************************************************************)
EXTENDS Integers, Sequences, FiniteSets

CONSTANTS Procs,             \* processes that use the store
          Revs,              \* revision ids a caller may choose
          NoRev,             \* the absent source revision of a genesis entry
          Operations,        \* the operations the processes perform
          SNAPSHOT_INTERVAL, \* 32 in the code
          MaxOps,            \* bound: operations started
          MaxSeq,            \* bound: length of the log
          MaxCrashes,        \* bound: processes killed
          MaxIoFailures,     \* bound: file-system calls that fail
          MaxDisplacements   \* bound: live locks an operator removes

AllOperations == {"import", "append", "rebuild", "adopt", "read"}

ASSUME ConstantsAssumption ==
    /\ NoRev \notin Revs
    /\ Operations \subseteq AllOperations
    /\ SNAPSHOT_INTERVAL \in Nat \ {0}
    /\ {MaxOps, MaxSeq, MaxCrashes, MaxIoFailures, MaxDisplacements} \subseteq Nat

VARIABLES
    \* the case directory
    dir,        \* the directory exists
    lockTok,    \* token of the process that created `.lock`; 0: no lock file
    lockFull,   \* the token has been written into the lock file
    log,        \* morphism_log.jsonl
    head,       \* morphism_log.head.json
    snaps,      \* snapshots/<revision>.case.space.json
    \* one operation of each process
    pc, op, tok,
    owns,       \* last answer of lock_file_matches to this process
    entry,      \* the entry an import or append wants to write
    view,       \* the entries the operation read
    before,     \* length and tail of the log before this append
    plan,       \* what a rebuild will write
    result,     \* what the last operation of the process returned
    \* the environment
    started, crashes, ioFailures, displacements,
    \* history
    acked,      \* hashes whose append or import returned success
    published,  \* hashes the head file has ever named
    floor       \* acked when the process started its operation

disk == <<dir, lockTok, lockFull, log, head, snaps>>
files == <<log, head, snaps>>
locals == <<op, tok, entry, view, before, plan, floor>>
env == <<started, crashes, ioFailures, displacements>>
history == <<acked, published>>
vars == <<disk, pc, owns, result, locals, env, history>>

----------------------------------------------------------------------------
(* Files *)

Hash == 0 .. MaxOps
Entry == [h : Hash, rev : Revs \cup {NoRev}, seq : Nat, prev : Hash, src : Revs \cup {NoRev}]
NoEntry == [h |-> 0, rev |-> NoRev, seq |-> 0, prev |-> 0, src |-> NoRev]

\* A log line is an entry.  "noNewline": a crash cut the delimiter off the last
\* line; "torn": the file ends in bytes that are not a line of JSON.
TailState == {"absent", "clean", "noNewline", "torn"}
LogFile == [entries : Seq(Entry), tail : TailState]
NoLog == [entries |-> <<>>, tail |-> "absent"]

FileState == {"absent", "torn", "whole"}
HeadFile == [state : FileState, at : Entry]
SnapFile == [state : FileState, of : Seq(Entry)]
NoHead == [state |-> "absent", at |-> NoEntry]
TornHead == [state |-> "torn", at |-> NoEntry]
NoSnap == [state |-> "absent", of |-> <<>>]
TornSnap == [state |-> "torn", of |-> <<>>]
HeadOf(e) == [state |-> "whole", at |-> e]
SnapOf(es) == [state |-> "whole", of |-> es]

Last(es) == es[Len(es)]
Prefix(es, n) == SubSeq(es, 1, n)

\* parse_log_entries followed by validate_log_entries
ValidLog(es) ==
    /\ es # <<>>
    /\ \A i \in 1 .. Len(es) :
          /\ es[i].seq = i
          /\ es[i].prev = IF i = 1 THEN 0 ELSE es[i - 1].h
          /\ es[i].src = IF i = 1 THEN NoRev ELSE es[i - 1].rev
          /\ \A j \in 1 .. Len(es) : es[i].h = es[j].h => i = j
Readable(l) == l.tail \in {"clean", "noNewline"} /\ ValidLog(l.entries)

snapshot_required(seq) == seq = 1 \/ seq % SNAPSHOT_INTERVAL = 0

\* Variant: any head is taken for the head of the tail.
HeadIsTailUnchecked(h, es) == h.state = "whole" /\ es # <<>>

\* require_log_head: the head names the tail entry.
HeadIsTail(h, es) == h = HeadOf(Last(es))

\* require_head_lags_log: the head names the entry just before the tail.
HeadLagsLog(h, es) ==
    /\ Len(es) >= 2
    /\ h = HeadOf(es[Len(es) - 1])

\* read_verified_snapshot, and the comparison with the fold
SnapAgrees(s, es) == s = SnapOf(es)

\* replay_case_space: only the newest existing snapshot is read and verified.
ReplaySucceeds(es, ss) ==
    LET present == {i \in 1 .. Len(es) : ss[es[i].rev].state # "absent"}
    IN  \A i \in present :
          (\A j \in present : j <= i) => SnapAgrees(ss[es[i].rev], Prefix(es, i))

\* rebuild_case_space_inner's first fold: every existing snapshot agrees.
AllSnapsAgree(es, ss) ==
    \A i \in 1 .. Len(es) :
        ss[es[i].rev].state # "absent" => SnapAgrees(ss[es[i].rev], Prefix(es, i))
MissingSnaps(es, ss) ==
    {i \in 1 .. Len(es) : snapshot_required(i) /\ ss[es[i].rev].state = "absent"}

\* append_json_line: an entry written behind a tail that has no newline joins
\* the last line, which no longer parses.
AppendLine(l, e) ==
    IF l.tail = "clean" THEN [entries |-> Append(l.entries, e), tail |-> "clean"]
                        ELSE [l EXCEPT !.tail = "torn"]

\* set_len: the file gets its earlier length back.  A file that has become
\* shorter in the meantime is extended with zero bytes.
Truncated(l, b) ==
    IF Len(l.entries) >= b.len THEN [entries |-> Prefix(l.entries, b.len), tail |-> b.tail]
                               ELSE [l EXCEPT !.tail = "torn"]

----------------------------------------------------------------------------
(* Control *)

Locking == {"acquire", "lockWrite", "readBack"}
Holding == {"readLog", "readHead", "readSnaps", "validate", "importCheck",
            "snapCheck", "snapWrite", "logInit", "logCheck", "logWrite", "logVerify",
            "headCheck", "headWrite", "headCreate", "rebuildCheck", "rebuildWrite",
            "truncate", "dropSnap", "inspect", "rmFiles"}
Releasing == {"rmDir", "unlock", "unlink"}
PC == {"idle", "mkdir"} \cup Locking \cup Holding \cup Releasing

Results == {"none", "ok", "missing", "existing", "lockUnavailable", "io",
            "integrity", "stale", "sequence", "invalid", "crashed"}

Live(p) == pc[p] # "idle"
InCriticalSection(p) == pc[p] \in Holding /\ op[p] # "read"
LockIsMine(p) == lockTok = tok[p] /\ lockFull
Scheduled(p) == snapshot_required(entry[p].seq)

Goto(p, l) == pc' = [pc EXCEPT ![p] = l]
Return(p, r, l) == /\ result' = [result EXCEPT ![p] = r]
                   /\ Goto(p, l)
IoFails == /\ ioFailures < MaxIoFailures
           /\ ioFailures' = ioFailures + 1
NoIoFailure == UNCHANGED ioFailures
EnvButIo == <<started, crashes, displacements>>

\* still_owned: go on when the lock file holds this process's token, otherwise
\* (another token, no file, an unreadable file) take the error path.
StillOwned(p, next, onError) ==
    /\ \/ LockIsMine(p) /\ owns' = [owns EXCEPT ![p] = "yes"] /\ NoIoFailure
          /\ Goto(p, next) /\ UNCHANGED result
       \/ ~LockIsMine(p) /\ owns' = [owns EXCEPT ![p] = "no"] /\ NoIoFailure
          /\ Return(p, "lockUnavailable", onError)
       \/ IoFails /\ owns' = [owns EXCEPT ![p] = "unknown"]
          /\ Return(p, "io", onError)
    /\ UNCHANGED <<disk, locals, EnvButIo, history>>

----------------------------------------------------------------------------
(* An operation starts *)

Begin(p, o, e, l) ==
    /\ pc[p] = "idle"
    /\ o \in Operations
    /\ started < MaxOps
    /\ started' = started + 1
    /\ op' = [op EXCEPT ![p] = o]
    /\ tok' = [tok EXCEPT ![p] = started + 1]
    /\ entry' = [entry EXCEPT ![p] = e]
    /\ owns' = [owns EXCEPT ![p] = "unknown"]
    /\ view' = [view EXCEPT ![p] = <<>>]
    /\ before' = [before EXCEPT ![p] = [len |-> 0, tail |-> "absent"]]
    /\ plan' = [plan EXCEPT ![p] = [missing |-> {}, head |-> "keep"]]
    /\ floor' = [floor EXCEPT ![p] = acked]
    /\ UNCHANGED <<disk, crashes, ioFailures, displacements, history>>
    /\ Return(p, "none", l)

StartImport(p, r) ==
    Begin(p, "import",
          [h |-> started + 1, rev |-> r, seq |-> 1, prev |-> 0, src |-> NoRev], "mkdir")

\* The caller built its entry on the case space it read earlier: what the head
\* named when it read.  append_morphism_with_authority then tests is_dir.
StartAppend(p, r) ==
    /\ head.state = "whole" /\ head.at.seq < MaxSeq
    /\ dir
    /\ Begin(p, "append",
             [h |-> started + 1, rev |-> r, seq |-> head.at.seq + 1,
              prev |-> head.at.h, src |-> head.at.rev], "acquire")

StartRebuild(p) == dir /\ Begin(p, "rebuild", NoEntry, "acquire")
StartAdopt(p) == dir /\ Begin(p, "adopt", NoEntry, "acquire")
StartRead(p) == Begin(p, "read", NoEntry, "readLog")

\* Variant: an existing directory is imported into again.
MkdirAnyway(p) ==
    /\ pc[p] = "mkdir"
    /\ dir' = TRUE
    /\ Goto(p, "acquire")
    /\ UNCHANGED <<lockTok, lockFull, files, owns, result, locals, env, history>>

\* import_case_space: create_dir, before the lock is taken.
Mkdir(p) ==
    /\ pc[p] = "mkdir"
    /\ \/ /\ ~dir
          /\ dir' = TRUE
          /\ Goto(p, "acquire")
          /\ UNCHANGED <<result, ioFailures>>
       \/ /\ dir
          /\ Return(p, "existing", "idle")
          /\ UNCHANGED <<dir, ioFailures>>
       \/ IoFails /\ Return(p, "io", "idle") /\ UNCHANGED dir
    /\ UNCHANGED <<lockTok, lockFull, files, owns, locals, EnvButIo, history>>

----------------------------------------------------------------------------
(* CaseLockGuard::acquire, still_owned, and Drop *)

AfterLock(p) == IF op[p] = "import" THEN "importCheck" ELSE "readLog"

\* Variant: a waiter takes a lock file that exists for abandoned.
AcquireStealing(p) ==
    /\ pc[p] = "acquire" /\ dir
    /\ lockTok' = tok[p] /\ lockFull' = FALSE
    /\ Goto(p, "lockWrite")
    /\ UNCHANGED <<dir, files, owns, result, locals, env, history>>

\* Variant: no deadline; a waiter waits until the lock is free.
AcquireWithoutDeadline(p) ==
    /\ pc[p] = "acquire" /\ dir /\ lockTok = 0
    /\ lockTok' = tok[p] /\ lockFull' = FALSE
    /\ Goto(p, "lockWrite")
    /\ UNCHANGED <<dir, files, owns, result, locals, env, history>>

\* One iteration of the loop: the deadline test, then create_new.  A waiter that
\* finds the file leaves it alone and comes back (no state change), or gives up
\* when the deadline has passed.
Acquire(p) ==
    /\ pc[p] = "acquire"
    /\ \/ /\ dir /\ lockTok = 0
          /\ lockTok' = tok[p] /\ lockFull' = FALSE
          /\ Goto(p, "lockWrite")
          /\ UNCHANGED <<result, ioFailures>>
       \/ /\ dir /\ lockTok # 0          \* AlreadyExists until the deadline
          /\ Return(p, "lockUnavailable", "idle")
          /\ UNCHANGED <<lockTok, lockFull, ioFailures>>
       \/ /\ ~dir                        \* create_new fails: no such directory
          /\ Return(p, "io", "idle")
          /\ UNCHANGED <<lockTok, lockFull, ioFailures>>
       \/ IoFails /\ Return(p, "io", "idle") /\ UNCHANGED <<lockTok, lockFull>>
    /\ UNCHANGED <<dir, files, owns, locals, EnvButIo, history>>

\* The token goes through the open file handle: if the path no longer names the
\* file this process created, the bytes go to an unlinked file.  A failed write
\* removes whatever the path names now.
LockWrite(p) ==
    /\ pc[p] = "lockWrite"
    /\ \/ /\ lockFull' = (lockFull \/ lockTok = tok[p])
          /\ Goto(p, "readBack")
          /\ UNCHANGED <<lockTok, result, ioFailures>>
       \/ /\ IoFails
          /\ lockTok' = 0 /\ lockFull' = FALSE
          /\ Return(p, "io", "idle")
    /\ UNCHANGED <<dir, files, owns, locals, EnvButIo, history>>

ReadBack(p) ==
    /\ pc[p] = "readBack"
    /\ \/ /\ LockIsMine(p)
          /\ owns' = [owns EXCEPT ![p] = "yes"]
          /\ Goto(p, AfterLock(p))
          /\ UNCHANGED <<result, ioFailures>>
       \/ /\ lockTok # 0 /\ ~LockIsMine(p)
          /\ owns' = [owns EXCEPT ![p] = "no"]
          /\ Return(p, "lockUnavailable", "idle")
          /\ UNCHANGED ioFailures
       \/ /\ lockTok = 0
          /\ owns' = [owns EXCEPT ![p] = "no"]
          /\ Goto(p, "acquire")
          /\ UNCHANGED <<result, ioFailures>>
       \/ IoFails /\ Return(p, "io", "unlock") /\ UNCHANGED owns
    /\ UNCHANGED <<disk, locals, EnvButIo, history>>

\* remove_lock_if_owned compares ...
Unlock(p) ==
    /\ pc[p] = "unlock"
    /\ \/ /\ LockIsMine(p)
          /\ owns' = [owns EXCEPT ![p] = "yes"]
          /\ Goto(p, "unlink")
          /\ UNCHANGED ioFailures
       \/ /\ ~LockIsMine(p)
          /\ owns' = [owns EXCEPT ![p] = "no"]
          /\ Goto(p, "idle")
          /\ UNCHANGED ioFailures
       \/ IoFails /\ Goto(p, "idle") /\ UNCHANGED owns
    /\ UNCHANGED <<disk, result, locals, EnvButIo, history>>

\* ... and then removes whatever the path names.
Unlink(p) ==
    /\ pc[p] = "unlink"
    /\ \/ lockTok' = 0 /\ lockFull' = FALSE /\ UNCHANGED ioFailures
       \/ IoFails /\ UNCHANGED <<lockTok, lockFull>>
    /\ Goto(p, "idle")
    /\ UNCHANGED <<dir, files, owns, result, locals, EnvButIo, history>>

----------------------------------------------------------------------------
(* Reading: under the lock for writers, without any lock for readers *)

Exit(p) == IF op[p] = "read" THEN "idle" ELSE "unlock"

ReadLog(p) ==
    /\ pc[p] = "readLog"
    /\ \/ /\ Readable(log)
          /\ view' = [view EXCEPT ![p] = log.entries]
          /\ Goto(p, "readHead")
          /\ UNCHANGED <<result, ioFailures>>
       \/ /\ ~Readable(log)
          /\ Return(p, IF log.tail = "absent" THEN "missing" ELSE "integrity", Exit(p))
          /\ UNCHANGED <<view, ioFailures>>
       \/ IoFails /\ Return(p, "io", Exit(p)) /\ UNCHANGED view
    /\ UNCHANGED <<disk, owns, op, tok, entry, before, plan, floor, EnvButIo, history>>

\* Everyone but an adopting rebuild requires the head to name the tail it read.
HeadPlan(p) ==
    IF HeadIsTail(head, view[p]) THEN "keep"
    ELSE IF head.state = "absent" THEN "create"
    ELSE IF HeadLagsLog(head, view[p]) THEN "repair" ELSE "refuse"

ReadHead(p) ==
    /\ pc[p] = "readHead"
    /\ LET accepted == \/ HeadPlan(p) = "keep"
                       \/ op[p] = "adopt" /\ HeadPlan(p) # "refuse"
       IN  \/ /\ accepted
              /\ plan' = [plan EXCEPT ![p].head = HeadPlan(p)]
              /\ Goto(p, "readSnaps")
              /\ UNCHANGED <<result, ioFailures>>
           \/ /\ ~accepted
              /\ Return(p, "integrity", Exit(p))
              /\ UNCHANGED <<plan, ioFailures>>
           \/ IoFails /\ Return(p, "io", Exit(p)) /\ UNCHANGED plan
    /\ UNCHANGED <<disk, owns, op, tok, entry, view, before, floor, EnvButIo, history>>

AfterPlan(p, missing) ==
    IF missing # {} THEN "rebuildCheck"
    ELSE IF plan[p].head = "keep" THEN "unlock" ELSE "headCheck"

\* replay_case_space for readers and appends; the first fold of a rebuild, which
\* reads every snapshot and collects the scheduled ones that are missing.
ReadSnaps(p) ==
    /\ pc[p] = "readSnaps"
    /\ LET missing == MissingSnaps(view[p], snaps)
           after == AfterPlan(p, missing)
           agrees == IF op[p] \in {"rebuild", "adopt"} THEN AllSnapsAgree(view[p], snaps)
                                                       ELSE ReplaySucceeds(view[p], snaps)
       IN  \/ /\ agrees /\ op[p] \in {"rebuild", "adopt"}
              /\ plan' = [plan EXCEPT ![p].missing = missing]
              /\ Return(p, IF after = "unlock" THEN "ok" ELSE "none", after)
              /\ UNCHANGED ioFailures
           \/ /\ agrees /\ op[p] = "append"
              /\ Goto(p, "validate")
              /\ UNCHANGED <<plan, result, ioFailures>>
           \/ /\ agrees /\ op[p] = "read"
              /\ Return(p, "ok", "idle")
              /\ UNCHANGED <<plan, ioFailures>>
           \/ ~agrees /\ Return(p, "integrity", Exit(p)) /\ UNCHANGED <<plan, ioFailures>>
           \/ IoFails /\ Return(p, "io", Exit(p)) /\ UNCHANGED plan
    /\ UNCHANGED <<disk, owns, op, tok, entry, view, before, floor, EnvButIo, history>>

----------------------------------------------------------------------------
(* append_morphism_with_authority *)

\* Variant: the base of the entry is not compared with the log.
AppendVerdictWithoutBase(p) ==
    IF \E i \in 1 .. Len(view[p]) : view[p][i].rev = entry[p].rev THEN "invalid" ELSE "accept"

\* validate_append in the order of its checks: the caller's base revision, then
\* sequence and previous hash, then identities.  What the abstraction hides (the
\* operation gate, the reducer, the contract of the resulting case space) may
\* refuse any entry.
AppendVerdict(p) ==
    LET e == entry[p]
        es == view[p]
        stored == snaps[e.rev].state # "absent"
    IN  IF e.src # Last(es).rev THEN "stale"
        ELSE IF e.seq # Len(es) + 1 \/ e.prev # Last(es).h THEN "sequence"
        ELSE IF \E i \in 1 .. Len(es) : es[i].rev = e.rev THEN "invalid"
        ELSE IF Scheduled(p) /\ stored THEN "invalid"
        ELSE IF stored /\ ~SnapAgrees(snaps[e.rev], Append(es, e)) THEN "integrity"
        ELSE "accept"

ValidateAppend(p) ==
    /\ pc[p] = "validate"
    /\ \/ /\ AppendVerdict(p) = "accept"
          /\ Goto(p, IF Scheduled(p) THEN "snapCheck" ELSE "logCheck")
          /\ UNCHANGED result
       \/ /\ AppendVerdict(p) # "accept"
          /\ Return(p, AppendVerdict(p), "unlock")
       \/ Return(p, "invalid", "unlock")
    /\ UNCHANGED <<disk, owns, locals, env, history>>

OnSnapError(p) == IF op[p] = "import" THEN "rmFiles" ELSE "unlock"
OnLogError(p) == IF op[p] = "import" THEN "rmFiles"
                 ELSE IF Scheduled(p) THEN "dropSnap" ELSE "unlock"
OnHeadError(p) == CASE op[p] = "import" -> "rmFiles"
                    [] op[p] = "append" -> "truncate"
                    [] OTHER            -> "unlock"

\* write_json_create_new_owned for the new revision's snapshot
SnapCheck(p) ==
    pc[p] = "snapCheck" /\ StillOwned(p, "snapWrite", OnSnapError(p))

SnapWrite(p) ==
    /\ pc[p] = "snapWrite"
    /\ \/ /\ snaps[entry[p].rev].state = "absent"
          /\ snaps' = [snaps EXCEPT ![entry[p].rev] = SnapOf(Append(view[p], entry[p]))]
          /\ Goto(p, IF op[p] = "import" THEN "logInit" ELSE "logCheck")
          /\ UNCHANGED <<result, ioFailures>>
       \/ /\ snaps[entry[p].rev].state # "absent"
          /\ Return(p, "invalid", OnSnapError(p))
          /\ UNCHANGED <<snaps, ioFailures>>
       \/ IoFails /\ Return(p, "io", OnSnapError(p)) /\ UNCHANGED snaps
    /\ UNCHANGED <<dir, lockTok, lockFull, log, head, owns, locals, EnvButIo, history>>

LogCheck(p) ==
    pc[p] = "logCheck" /\ StillOwned(p, "logWrite", OnLogError(p))

\* append_json_line.  When the write fails the file is cut back to its previous
\* length; when that fails too, the torn line stays.
LogWrite(p) ==
    /\ pc[p] = "logWrite"
    /\ before' = [before EXCEPT ![p] = [len |-> Len(log.entries), tail |-> log.tail]]
    /\ \/ /\ log' = AppendLine(log, entry[p])
          /\ Goto(p, IF op[p] = "import" THEN "headCheck" ELSE "logVerify")
          /\ UNCHANGED <<result, ioFailures>>
       \/ /\ IoFails
          /\ log' \in {log, [log EXCEPT !.tail = "torn"]}
          /\ Return(p, "io", OnLogError(p))
    /\ UNCHANGED <<dir, lockTok, lockFull, head, snaps, owns,
                   op, tok, entry, view, plan, floor, EnvButIo, history>>

\* append_verified_log_entry reads its line back: the byte before it must be a
\* newline, and nothing but the entry may follow.  Otherwise the line is cut off
\* again, unless the disk fails that too.
LogVerify(p) ==
    /\ pc[p] = "logVerify"
    /\ LET verified == /\ before[p].tail = "clean" /\ log.tail = "clean"
                       /\ Len(log.entries) = before[p].len + 1
                       /\ Last(log.entries) = entry[p]
       IN  \/ /\ verified
              /\ Goto(p, "headCheck")
              /\ UNCHANGED <<log, result, ioFailures>>
           \/ /\ ~verified
              /\ log' = Truncated(log, before[p])
              /\ Return(p, IF before[p].tail = "clean" THEN "integrity" ELSE "io", OnLogError(p))
              /\ UNCHANGED ioFailures
           \/ /\ IoFails
              /\ \/ log' = Truncated(log, before[p]) /\ Return(p, "io", OnLogError(p))
                 \/ UNCHANGED log /\ Return(p, "integrity", OnLogError(p))
    /\ UNCHANGED <<dir, lockTok, lockFull, head, snaps, owns, locals, EnvButIo, history>>

\* write_log_head_owned and, for a missing head, write_log_head_create_new
NewHeadEntry(p) == IF op[p] = "adopt" THEN Last(view[p]) ELSE entry[p]

HeadCheck(p) ==
    /\ pc[p] = "headCheck"
    /\ StillOwned(p, IF plan[p].head = "create" THEN "headCreate" ELSE "headWrite",
                  OnHeadError(p))

\* An unscheduled append answers from memory; an import or a scheduled append
\* inspects the store first.
AfterHead(p) == IF op[p] = "import" \/ (op[p] = "append" /\ Scheduled(p))
                THEN "inspect" ELSE "unlock"
Succeed(p) ==
    /\ Return(p, "ok", "unlock")
    /\ acked' = IF op[p] \in {"import", "append"} THEN acked \cup {entry[p].h} ELSE acked

\* A temporary file is renamed over the head: all or nothing.
HeadWrite(p) ==
    /\ pc[p] = "headWrite"
    /\ \/ /\ head' = HeadOf(NewHeadEntry(p))
          /\ published' = published \cup {NewHeadEntry(p).h}
          /\ IF AfterHead(p) = "inspect" THEN Goto(p, "inspect") /\ UNCHANGED <<result, acked>>
                                         ELSE Succeed(p)
          /\ UNCHANGED ioFailures
       \/ /\ IoFails
          /\ Return(p, "io", OnHeadError(p))
          /\ UNCHANGED <<head, published, acked>>
    /\ UNCHANGED <<dir, lockTok, lockFull, log, snaps, owns, locals, EnvButIo>>

HeadCreate(p) ==
    /\ pc[p] = "headCreate"
    /\ \/ /\ head.state = "absent"
          /\ head' = HeadOf(NewHeadEntry(p))
          /\ published' = published \cup {NewHeadEntry(p).h}
          /\ Succeed(p)
          /\ UNCHANGED ioFailures
       \/ /\ head.state # "absent"
          /\ Return(p, "integrity", "unlock")
          /\ UNCHANGED <<head, history, ioFailures>>
       \/ IoFails /\ Return(p, "io", "unlock") /\ UNCHANGED <<head, history>>
    /\ UNCHANGED <<dir, lockTok, lockFull, log, snaps, owns, locals, EnvButIo>>

\* truncate_after_failed_append: no ownership check of its own.  When it fails
\* the error is returned without removing the snapshot.
Truncate(p) ==
    /\ pc[p] = "truncate"
    /\ \/ /\ log' = Truncated(log, before[p])
          /\ Goto(p, OnLogError(p))
          /\ UNCHANGED <<result, ioFailures>>
       \/ IoFails /\ Return(p, "integrity", "unlock") /\ UNCHANGED log
    /\ UNCHANGED <<dir, lockTok, lockFull, head, snaps, owns, locals, EnvButIo, history>>

\* remove_snapshot_after_failed_append
DropSnap(p) ==
    /\ pc[p] = "dropSnap"
    /\ \/ /\ snaps' = [snaps EXCEPT ![entry[p].rev] = NoSnap]
          /\ UNCHANGED <<result, ioFailures>>
       \/ IoFails /\ result' = [result EXCEPT ![p] = "integrity"] /\ UNCHANGED snaps
    /\ Goto(p, "unlock")
    /\ UNCHANGED <<dir, lockTok, lockFull, log, head, owns, locals, EnvButIo, history>>

\* inspect_case_space at the end of an import or a scheduled append
InspectSucceeds == /\ Readable(log)
                   /\ HeadIsTail(head, log.entries)
                   /\ ReplaySucceeds(log.entries, snaps)
Inspect(p) ==
    /\ pc[p] = "inspect"
    /\ \/ InspectSucceeds /\ Succeed(p) /\ UNCHANGED ioFailures
       \/ ~InspectSucceeds /\ Return(p, "integrity", "unlock") /\ UNCHANGED <<acked, ioFailures>>
       \/ IoFails /\ Return(p, "io", "unlock") /\ UNCHANGED acked
    /\ UNCHANGED <<disk, owns, locals, EnvButIo, published>>

----------------------------------------------------------------------------
(* import_case_space: write_new_case_space and its rollback *)

ImportCheck(p) ==
    pc[p] = "importCheck" /\ StillOwned(p, "snapCheck", "rmFiles")

\* fs::write(log, ""): the entry line follows in LogWrite.
LogInit(p) ==
    /\ pc[p] = "logInit"
    /\ \/ /\ log' = [entries |-> <<>>, tail |-> "clean"]
          /\ Goto(p, "logWrite")
          /\ UNCHANGED <<result, ioFailures>>
       \/ IoFails /\ Return(p, "io", "rmFiles") /\ UNCHANGED log
    /\ UNCHANGED <<dir, lockTok, lockFull, head, snaps, owns, locals, EnvButIo, history>>

\* remove_dir_all: the files (the lock file among them) ...
RmFiles(p) ==
    /\ pc[p] = "rmFiles"
    /\ \/ /\ lockTok' = 0 /\ lockFull' = FALSE
          /\ log' = NoLog /\ head' = NoHead /\ snaps' = [r \in Revs |-> NoSnap]
          /\ Goto(p, "rmDir")
          /\ UNCHANGED ioFailures
       \/ IoFails /\ Goto(p, "unlock") /\ UNCHANGED <<lockTok, lockFull, files>>
    /\ UNCHANGED <<dir, owns, result, locals, EnvButIo, history>>

\* ... and then the directory, if no other process has put a lock file into it.
RmDir(p) ==
    /\ pc[p] = "rmDir"
    /\ dir' = (lockTok # 0)
    /\ Goto(p, "unlock")
    /\ UNCHANGED <<lockTok, lockFull, files, owns, result, locals, env, history>>

----------------------------------------------------------------------------
(* rebuild_case_space_inner: the missing scheduled snapshots, oldest first *)

NextMissing(p) == CHOOSE i \in plan[p].missing : \A j \in plan[p].missing : i <= j

RebuildCheck(p) ==
    pc[p] = "rebuildCheck" /\ StillOwned(p, "rebuildWrite", "unlock")

RebuildWrite(p) ==
    /\ pc[p] = "rebuildWrite"
    /\ LET i == NextMissing(p)
           rest == plan[p].missing \ {i}
           rev == view[p][i].rev
           after == AfterPlan(p, rest)
       IN  \/ /\ snaps[rev].state = "absent"
              /\ snaps' = [snaps EXCEPT ![rev] = SnapOf(Prefix(view[p], i))]
              /\ plan' = [plan EXCEPT ![p].missing = rest]
              /\ Return(p, IF after = "unlock" THEN "ok" ELSE "none", after)
              /\ UNCHANGED ioFailures
           \/ /\ snaps[rev].state # "absent"
              /\ Return(p, "io", "unlock")
              /\ UNCHANGED <<snaps, plan, ioFailures>>
           \/ IoFails /\ Return(p, "io", "unlock") /\ UNCHANGED <<snaps, plan>>
    /\ UNCHANGED <<dir, lockTok, lockFull, log, head, owns,
                   op, tok, entry, view, before, floor, EnvButIo, history>>

----------------------------------------------------------------------------
(* The environment *)

Crashes(p) ==
    /\ Live(p)
    /\ crashes < MaxCrashes
    /\ crashes' = crashes + 1
    /\ Return(p, "crashed", "idle")
    /\ UNCHANGED <<dir, lockTok, lockFull, owns, locals,
                   started, ioFailures, displacements, history>>

\* A process is killed between two file-system calls; its lock file stays.
Crash(p) == Crashes(p) /\ UNCHANGED files

\* Or inside a write that is not atomic, which leaves part of its bytes.
CrashInWrite(p) ==
    /\ Crashes(p)
    /\ \/ /\ pc[p] = "snapWrite" /\ snaps[entry[p].rev].state = "absent"
          /\ snaps' = [snaps EXCEPT ![entry[p].rev] = TornSnap]
          /\ UNCHANGED <<log, head>>
       \/ /\ pc[p] = "rebuildWrite"
          /\ LET rev == view[p][NextMissing(p)].rev
             IN  snaps[rev].state = "absent" /\ snaps' = [snaps EXCEPT ![rev] = TornSnap]
          /\ UNCHANGED <<log, head>>
       \/ /\ pc[p] = "logWrite"
          /\ log' \in {[log EXCEPT !.tail = "torn"],
                      [AppendLine(log, entry[p]) EXCEPT
                          !.tail = IF @ = "clean" THEN "noNewline" ELSE @]}
          /\ UNCHANGED <<head, snaps>>
       \/ /\ pc[p] = "headCreate" /\ head.state = "absent"
          /\ head' = TornHead
          /\ UNCHANGED <<log, snaps>>

\* The operator removes a lock file.  Its creator is gone: the recovery that the
\* refusal message asks for.
OperatorClearsStaleLock ==
    /\ lockTok # 0
    /\ \A p \in Procs : Live(p) => tok[p] # lockTok
    /\ lockTok' = 0 /\ lockFull' = FALSE
    /\ UNCHANGED <<dir, files, pc, owns, result, locals, env, history>>

\* Its creator is alive: the operator's assertion was wrong.
OperatorDisplaces ==
    /\ lockTok # 0
    /\ \E p \in Procs : Live(p) /\ tok[p] = lockTok
    /\ displacements < MaxDisplacements
    /\ displacements' = displacements + 1
    /\ lockTok' = 0 /\ lockFull' = FALSE
    /\ UNCHANGED <<dir, files, pc, owns, result, locals,
                   started, crashes, ioFailures, history>>

----------------------------------------------------------------------------
Init ==
    /\ dir = FALSE /\ lockTok = 0 /\ lockFull = FALSE
    /\ log = NoLog /\ head = NoHead /\ snaps = [r \in Revs |-> NoSnap]
    /\ pc = [p \in Procs |-> "idle"]
    /\ op = [p \in Procs |-> "read"]
    /\ tok = [p \in Procs |-> 0]
    /\ owns = [p \in Procs |-> "unknown"]
    /\ entry = [p \in Procs |-> NoEntry]
    /\ view = [p \in Procs |-> <<>>]
    /\ before = [p \in Procs |-> [len |-> 0, tail |-> "absent"]]
    /\ plan = [p \in Procs |-> [missing |-> {}, head |-> "keep"]]
    /\ result = [p \in Procs |-> "none"]
    /\ started = 0 /\ crashes = 0 /\ ioFailures = 0 /\ displacements = 0
    /\ acked = {} /\ published = {}
    /\ floor = [p \in Procs |-> {}]

Start(p) == \/ \E r \in Revs : StartImport(p, r) \/ StartAppend(p, r)
            \/ StartRebuild(p) \/ StartAdopt(p) \/ StartRead(p)
LockStep(p) == Mkdir(p) \/ Acquire(p) \/ LockWrite(p) \/ ReadBack(p)
               \/ Unlock(p) \/ Unlink(p)
ReadStep(p) == ReadLog(p) \/ ReadHead(p) \/ ReadSnaps(p) \/ Inspect(p)
WriteStep(p) == \/ ValidateAppend(p) \/ SnapCheck(p) \/ SnapWrite(p)
                \/ LogCheck(p) \/ LogWrite(p) \/ LogVerify(p)
                \/ HeadCheck(p) \/ HeadWrite(p) \/ HeadCreate(p)
                \/ Truncate(p) \/ DropSnap(p)
ImportStep(p) == ImportCheck(p) \/ LogInit(p) \/ RmFiles(p) \/ RmDir(p)
RebuildStep(p) == RebuildCheck(p) \/ RebuildWrite(p)

\* What a running process does by itself
Step(p) == LockStep(p) \/ ReadStep(p) \/ WriteStep(p) \/ ImportStep(p) \/ RebuildStep(p)

Next == \/ \E p \in Procs : Start(p) \/ Step(p) \/ Crash(p) \/ CrashInWrite(p)
        \/ OperatorClearsStaleLock
        \/ OperatorDisplaces

Spec == Init /\ [][Next]_vars

\* A process that has started an operation keeps being scheduled.
FairSpec == Spec /\ \A p \in Procs : WF_vars(Step(p))

----------------------------------------------------------------------------
(* Properties *)

\* Every variable has its type; in particular the head is never written from an
\* entry that is not there, and a plan only names entries of the log.
TypeOK ==
    /\ dir \in BOOLEAN /\ lockTok \in 0 .. MaxOps /\ lockFull \in BOOLEAN
    /\ log \in LogFile /\ head \in HeadFile /\ snaps \in [Revs -> SnapFile]
    /\ pc \in [Procs -> PC] /\ op \in [Procs -> AllOperations]
    /\ tok \in [Procs -> 0 .. MaxOps]
    /\ owns \in [Procs -> {"yes", "no", "unknown"}]
    /\ entry \in [Procs -> Entry] /\ view \in [Procs -> Seq(Entry)]
    /\ before \in [Procs -> [len : Nat, tail : TailState]]
    /\ plan \in [Procs -> [missing : SUBSET Nat, head : {"keep", "create", "repair"}]]
    /\ result \in [Procs -> Results]
    /\ started \in 0 .. MaxOps /\ crashes \in 0 .. MaxCrashes
    /\ ioFailures \in 0 .. MaxIoFailures /\ displacements \in 0 .. MaxDisplacements
    /\ acked \subseteq Hash /\ published \subseteq Hash
    /\ floor \in [Procs -> SUBSET Hash]

\* The operator never removed the lock of a live process.
Undisplaced == displacements = 0

\* Two processes are never between acquiring and releasing the case lock at
\* once, whatever crashes, failing calls and removals of stale lock files
\* happen, as long as no live lock is removed (ADR 0017: "the tool never breaks
\* a live lock").
MutualExclusion ==
    Undisplaced =>
        \A p, q \in Procs : InCriticalSection(p) /\ InCriticalSection(q) => p = q

\* A crash leaves the head at the log's tail or one entry behind it and never
\* further (the comment on require_head_lags_log), so an adopting rebuild can
\* always repair it.  A head that is missing goes with an unfinished import.
HeadLagsByAtMostOne ==
    Undisplaced =>
        CASE head.state = "whole"  ->
                \E i \in {Len(log.entries) - 1, Len(log.entries)} :
                    i >= 1 /\ log.entries[i] = head.at
          [] head.state = "absent" -> Len(log.entries) <= 1
          [] OTHER                 -> TRUE

\* The lines of the log always form one hash chain without gaps, forks or
\* repeated entries: concurrent appenders never break it.
ChainIntact ==
    Undisplaced /\ log.entries # <<>> => ValidLog(log.entries)

\* An append or import that returned success is in the log for good: no
\* rollback, crash, rebuild or competing writer removes it.
AcknowledgedEntriesStay ==
    Undisplaced => \A h \in acked : \E i \in 1 .. Len(log.entries) : log.entries[i].h = h

\* A snapshot file of a logged revision is whole and agrees with the log, or is
\* torn; an orphan left by a crash is never taken for the snapshot of another
\* entry that reuses its revision id.
LoggedSnapshotsAgree ==
    Undisplaced =>
        \A i \in 1 .. Len(log.entries) :
            LET s == snaps[log.entries[i].rev]
            IN  s.state = "whole" => s = SnapOf(Prefix(log.entries, i))

\* The three files of a case tell one history, between any two file-system calls
\* and after any crash: one chain, a head at its tail or one entry behind, and
\* snapshots that are what their prefix of the chain folds to.
HistoryIsSound == ChainIntact /\ HeadLagsByAtMostOne /\ LoggedSnapshotsAgree

\* A reader takes no lock; what it returns is nevertheless a state some writer
\* published, never an append that may still be rolled back, and it contains
\* everything acknowledged before the read began.
ReadsAreCommitted ==
    Undisplaced =>
        \A p \in Procs :
            op[p] = "read" /\ result[p] = "ok" =>
                /\ Last(view[p]).h \in published
                /\ floor[p] \subseteq {view[p][i].h : i \in 1 .. Len(view[p])}

\* A proposer that lost the race is told so ("re-read current_revision_id and
\* retry"): once the source revision agrees, a wrong sequence or previous hash
\* does not happen in an undamaged store (the comment in validate_append).
LostRaceIsReportedStale ==
    Undisplaced => \A p \in Procs : result[p] # "sequence"

\* What the store tells its callers is true whatever others write meanwhile:
\* history_entries and replay return published states, and append_morphism calls
\* a lost race a lost race.
AnswersAreTrue == ReadsAreCommitted /\ LostRaceIsReportedStale

\* Every operation that has started returns or its process dies: no wait for the
\* lock is unbounded, also when the lock's holder is dead.
OperationsEnd == \A p \in Procs : Live(p) ~> ~Live(p)

----------------------------------------------------------------------------
(* What the repository says of the store and the code does not do *)

\* What the head covers.
CommittedLog == IF head.state # "whole" THEN <<>>
                ELSE SelectSeq(log.entries, LAMBDA e : e.seq <= head.at.seq)

\* "a displaced holder must never write any of the three" (snapshot, log, head;
\* the comment in append_morphism_with_authority): an append whose last ownership
\* check answered no never takes back an entry that the head already covers.
DisplacedHolderNeverWrites ==
    [][\A p \in Procs :
          op[p] = "append" /\ pc[p] # pc'[p] /\ owns[p] = "no" => CommittedLog' = CommittedLog]_vars

\* "Everything past the create_dir is rolled back on failure" (the comment in
\* import_case_space): a refused import that made the directory removes it.
RefusedImportIsRolledBack ==
    [][\A p \in Procs :
          /\ op[p] = "import" /\ pc[p] \notin {"idle", "mkdir"} /\ pc'[p] = "idle"
          /\ result'[p] \notin {"ok", "crashed"}
          => ~dir']_vars

============================================================================
