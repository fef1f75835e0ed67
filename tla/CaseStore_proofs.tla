-------------------------- MODULE CaseStore_proofs --------------------------
(***************************************************************************)
(* Proofs about CaseStore for every set of processes, every snapshot       *)
(* interval and every bound.                                               *)
(***************************************************************************)
EXTENDS CaseStore, TLAPS, SequenceTheorems, WellFoundedInduction

----------------------------------------------------------------------------
(* Mutual exclusion *)

\* The lock file of the process is in place: it has created it and not yet given
\* it up.
HasLock(p) == \/ pc[p] \in {"lockWrite", "readBack", "unlink"}
              \/ InCriticalSection(p)

\* The variables that mutual exclusion is about, and their types
LockTypes ==
    /\ lockTok \in Nat /\ started \in Nat
    /\ displacements \in Nat
    /\ pc \in [Procs -> PC] /\ op \in [Procs -> AllOperations]
    /\ tok \in [Procs -> Nat]
    /\ \A p \in Procs : pc[p] # "idle" => tok[p] \in 1 .. started
    /\ lockTok <= started

\* No two running operations have the same token.
TokensDiffer ==
    \A p, q \in Procs : Live(p) /\ Live(q) /\ tok[p] = tok[q] => p = q

\* Whoever has created the lock file and not given it up is named in it.
LockNamesHolder ==
    Undisplaced => \A p \in Procs : HasLock(p) => lockTok = tok[p]

\* The inductive invariant behind MutualExclusion
LockInv == LockTypes /\ TokensDiffer /\ LockNamesHolder

\* The invariant holds before any process has started.
LEMMA LockInit == Init => LockInv
<1> SUFFICES ASSUME Init PROVE LockInv
  OBVIOUS
<1>1. LockTypes
  BY DEF Init, LockTypes, PC, AllOperations
<1>2. \A p \in Procs : pc[p] = "idle"
  BY DEF Init
<1>3. TokensDiffer
  BY <1>2 DEF TokensDiffer, Live
<1>4. LockNamesHolder
  BY <1>2 DEF LockNamesHolder, HasLock, InCriticalSection, Holding
<1> QED BY <1>1, <1>3, <1>4 DEF LockInv

\* What mutual exclusion depends on, apart from the control state
lockVars == <<lockTok, tok, op, started, displacements>>

\* A step that moves one process and leaves the lock file alone preserves the
\* invariant, if the process does not thereby come to count as a holder.
LEMMA LockQuietStep ==
  ASSUME LockInv, NEW p \in Procs, NEW l \in PC, pc[p] # "idle",
         pc' = [pc EXCEPT ![p] = l], UNCHANGED lockVars,
         \/ l \notin Holding \cup {"lockWrite", "readBack", "unlink"}
         \/ HasLock(p)
         \/ pc[p] \in Holding /\ l \in Holding
  PROVE  LockInv'
<1>1. LockTypes'
  BY DEF LockInv, LockTypes, lockVars
<1>2. \A q \in Procs : /\ Live(q)' => Live(q)
                       /\ HasLock(q)' => HasLock(q)
  BY DEF LockInv, LockTypes, lockVars, Live, HasLock, InCriticalSection, Holding
<1>3. TokensDiffer'
  BY <1>2 DEF LockInv, TokensDiffer, lockVars
<1>4. LockNamesHolder'
  BY <1>2 DEF LockInv, LockNamesHolder, Undisplaced, lockVars
<1> QED BY <1>1, <1>3, <1>4 DEF LockInv

\* A process removes the lock file of its own token and stops counting as a
\* holder.
LEMMA LockRemoval ==
  ASSUME LockInv, NEW p \in Procs, NEW l \in {"idle", "rmDir"},
         HasLock(p), lockTok' = 0, pc' = [pc EXCEPT ![p] = l],
         UNCHANGED <<tok, op, started, displacements>>
  PROVE  LockInv'
<1> USE DEF LockInv
<1>0. pc[p] # "idle"
  BY DEF HasLock, InCriticalSection, Holding
<1>1. LockTypes'
  BY <1>0 DEF LockTypes, PC, Releasing
<1>2. TokensDiffer'
  BY <1>0 DEF LockTypes, TokensDiffer, Live
<1>3. LockNamesHolder'
  <2> SUFFICES ASSUME Undisplaced, NEW q \in Procs, HasLock(q)' PROVE FALSE
    BY DEF LockNamesHolder, Undisplaced
  <2>1. q # p
    BY DEF LockTypes, HasLock, InCriticalSection, Holding
  <2>2. HasLock(q) /\ Live(q) /\ Live(p)
    BY <1>0, <2>1 DEF LockTypes, HasLock, InCriticalSection, Holding, Live
  <2>3. tok[q] = tok[p]
    BY <2>2 DEF LockNamesHolder
  <2> QED BY <2>1, <2>2, <2>3 DEF TokensDiffer
<1> QED BY <1>1, <1>2, <1>3

\* A new operation gets a token that nobody has had before.
LEMMA LockBegin ==
  ASSUME LockInv, NEW p \in Procs, NEW o, NEW e, NEW l \in {"mkdir", "acquire", "readLog"},
         l = "readLog" => o = "read", Begin(p, o, e, l)
  PROVE  LockInv'
<1> USE DEF LockInv
<1>1. /\ pc' = [pc EXCEPT ![p] = l] /\ pc[p] = "idle"
      /\ tok' = [tok EXCEPT ![p] = started + 1] /\ started' = started + 1
      /\ op' = [op EXCEPT ![p] = o] /\ o \in AllOperations
      /\ lockTok' = lockTok /\ displacements' = displacements
  BY ConstantsAssumption DEF Begin, Return, Goto, disk
<1>2. LockTypes'
  BY <1>1 DEF LockTypes, PC, Locking, Holding
<1>3. TokensDiffer'
  BY <1>1 DEF LockTypes, TokensDiffer, Live
<1>4. LockNamesHolder'
  BY <1>1 DEF LockTypes, LockNamesHolder, Undisplaced, HasLock, InCriticalSection, Holding
<1> QED BY <1>2, <1>3, <1>4

\* Every way to start an operation is a Begin.
LEMMA LockStart ==
  ASSUME LockInv, NEW p \in Procs, Start(p)
  PROVE  LockInv'
<1>1. ASSUME NEW r \in Revs, StartImport(p, r) PROVE LockInv'
  BY <1>1, LockBegin DEF StartImport
<1>2. ASSUME NEW r \in Revs, StartAppend(p, r) PROVE LockInv'
  BY <1>2, LockBegin DEF StartAppend
<1>3. CASE StartRebuild(p)
  BY <1>3, LockBegin DEF StartRebuild
<1>4. CASE StartAdopt(p)
  BY <1>4, LockBegin DEF StartAdopt
<1>5. CASE StartRead(p)
  BY <1>5, LockBegin DEF StartRead
<1> QED BY <1>1, <1>2, <1>3, <1>4, <1>5 DEF Start

\* An ownership check changes no lock file, whatever it answers.
LEMMA LockStillOwned ==
  ASSUME LockInv, NEW p \in Procs, NEW l \in Holding, NEW m \in Holding \cup {"unlock"},
         pc[p] \in Holding, StillOwned(p, l, m)
  PROVE  LockInv'
<1>1. UNCHANGED lockVars
  BY DEF StillOwned, lockVars, disk, locals, EnvButIo
<1>2. \/ pc' = [pc EXCEPT ![p] = l]
      \/ pc' = [pc EXCEPT ![p] = m]
  BY DEF StillOwned, Goto, Return
<1>3. pc[p] # "idle" /\ l \in PC /\ m \in PC
  BY DEF Holding, PC, Releasing
<1>4. m \in Holding \/ m \notin Holding \cup {"lockWrite", "readBack", "unlink"}
  BY DEF Holding
<1> QED BY <1>1, <1>2, <1>3, <1>4, LockQuietStep

\* Taking, checking and giving up the lock file preserve the invariant: only an
\* absent file is created, and a process unlinks only after it has compared.
LEMMA LockLockStep ==
  ASSUME LockInv, NEW p \in Procs, LockStep(p)
  PROVE  LockInv'
<1> USE DEF EnvButIo, lockVars, locals, disk, Goto, Return
<1>1. CASE Mkdir(p)
  <2>1. PICK l \in {"acquire", "idle"} : pc' = [pc EXCEPT ![p] = l]
    BY <1>1 DEF Mkdir
  <2>2. UNCHANGED lockVars /\ pc[p] # "idle"
    BY <1>1 DEF Mkdir
  <2> QED BY <2>1, <2>2, LockQuietStep DEF PC, Locking, Holding
<1>2. CASE Acquire(p)
  <2>1. CASE lockTok' = lockTok
    <3>1. pc' = [pc EXCEPT ![p] = "idle"] \/ (lockTok' = tok[p] /\ lockTok = 0)
      BY <1>2, <2>1 DEF Acquire
    <3>2. tok[p] # 0
      BY <1>2 DEF Acquire, LockInv, LockTypes
    <3>3. UNCHANGED lockVars /\ pc[p] # "idle"
      BY <1>2, <2>1 DEF Acquire
    <3> QED BY <2>1, <3>1, <3>2, <3>3, LockQuietStep DEF PC, Holding, LockInv, LockTypes
  <2>2. CASE lockTok' # lockTok
    <3>1. /\ lockTok = 0 /\ lockTok' = tok[p] /\ pc[p] = "acquire"
          /\ pc' = [pc EXCEPT ![p] = "lockWrite"]
          /\ UNCHANGED <<tok, op, started, displacements>>
      BY <1>2, <2>2 DEF Acquire
    <3>2. LockTypes'
      BY <3>1 DEF LockInv, LockTypes, PC, Locking
    <3>3. TokensDiffer'
      BY <3>1 DEF LockInv, LockTypes, TokensDiffer, Live
    <3>4. LockNamesHolder'
      <4> SUFFICES ASSUME Undisplaced, NEW q \in Procs, HasLock(q)' PROVE q = p
        BY <3>1 DEF LockNamesHolder, Undisplaced
      <4>1. q # p => HasLock(q)
        BY <3>1 DEF LockInv, LockTypes, HasLock, InCriticalSection
      <4>2. HasLock(q) => tok[q] \in 1 .. started
        BY DEF LockInv, LockTypes, HasLock, InCriticalSection, Holding
      <4> QED BY <3>1, <4>1, <4>2 DEF LockInv, LockTypes, LockNamesHolder
    <3> QED BY <3>2, <3>3, <3>4 DEF LockInv
  <2> QED BY <2>1, <2>2
<1>3. CASE LockWrite(p)
  <2>1. HasLock(p)
    BY <1>3 DEF LockWrite, HasLock
  <2>2. CASE lockTok' = 0 /\ pc' = [pc EXCEPT ![p] = "idle"]
    BY <1>3, <2>1, <2>2, LockRemoval DEF LockWrite
  <2>3. CASE UNCHANGED lockTok /\ pc' = [pc EXCEPT ![p] = "readBack"]
    BY <1>3, <2>1, <2>3, LockQuietStep DEF LockWrite, PC, Locking
  <2> QED BY <1>3, <2>2, <2>3 DEF LockWrite
<1>4. CASE ReadBack(p)
  <2>1. HasLock(p) /\ pc[p] # "idle" /\ UNCHANGED lockVars
    BY <1>4 DEF ReadBack, HasLock
  <2>2. PICK l \in {AfterLock(p), "idle", "acquire", "unlock"} : pc' = [pc EXCEPT ![p] = l]
    BY <1>4 DEF ReadBack
  <2>3. l \in PC
    BY <2>2 DEF AfterLock, PC, Holding, Locking, Releasing
  <2> QED BY <2>1, <2>2, <2>3, LockQuietStep
<1>5. CASE Unlock(p)
  <2>1. pc[p] # "idle" /\ UNCHANGED lockVars
    BY <1>5 DEF Unlock
  <2>2. CASE pc' = [pc EXCEPT ![p] = "idle"]
    BY <2>1, <2>2, LockQuietStep DEF PC, Holding
  <2>3. CASE pc' = [pc EXCEPT ![p] = "unlink"] /\ lockTok = tok[p]
    <3>1. LockTypes' /\ TokensDiffer'
      BY <2>1, <2>3 DEF LockInv, LockTypes, TokensDiffer, Live, PC, Releasing
    <3>2. LockNamesHolder'
      BY <2>1, <2>3 DEF LockInv, LockTypes, LockNamesHolder, Undisplaced, HasLock,
                        InCriticalSection
    <3> QED BY <3>1, <3>2 DEF LockInv
  <2> QED BY <1>5, <2>2, <2>3 DEF Unlock, LockIsMine
<1>6. CASE Unlink(p)
  <2>1. HasLock(p) /\ pc' = [pc EXCEPT ![p] = "idle"] /\ pc[p] # "idle"
    BY <1>6 DEF Unlink, HasLock
  <2>2. CASE lockTok' = 0
    BY <1>6, <2>1, <2>2, LockRemoval DEF Unlink
  <2>3. CASE UNCHANGED lockTok
    BY <1>6, <2>1, <2>3, LockQuietStep DEF Unlink, PC
  <2> QED BY <1>6, <2>2, <2>3 DEF Unlink
<1> QED BY <1>1, <1>2, <1>3, <1>4, <1>5, <1>6 DEF LockStep

\* A step between two points of an operation, or to its end
LEMMA LockHolderMove ==
  ASSUME LockInv, NEW p \in Procs, NEW l \in Holding \cup {"unlock", "idle"},
         pc[p] \in Holding, pc' = [pc EXCEPT ![p] = l], UNCHANGED lockVars
  PROVE  LockInv'
<1>1. pc[p] # "idle" /\ l \in PC
  BY DEF Holding, PC, Releasing
<1>2. l \in Holding \/ l \notin Holding \cup {"lockWrite", "readBack", "unlink"}
  BY DEF Holding
<1> QED BY <1>1, <1>2, LockQuietStep

\* Reading moves the process and nothing else.
LEMMA LockReadStep ==
  ASSUME LockInv, NEW p \in Procs, ReadStep(p)
  PROVE  LockInv'
<1> USE DEF EnvButIo, lockVars, locals, disk, Goto, Return
<1>1. UNCHANGED lockVars
  BY DEF ReadStep, ReadLog, ReadHead, ReadSnaps, Inspect
<1>2. pc[p] \in Holding
  BY DEF ReadStep, ReadLog, ReadHead, ReadSnaps, Inspect, Holding
<1>3. \E l \in Holding \cup {"unlock", "idle"} : pc' = [pc EXCEPT ![p] = l]
  <2>1. CASE ReadLog(p)
    BY <2>1 DEF ReadLog, Exit, Holding
  <2>2. CASE ReadHead(p)
    BY <2>2 DEF ReadHead, Exit, Holding
  <2>3. CASE ReadSnaps(p)
    BY <2>3 DEF ReadSnaps, Exit, AfterPlan, Holding
  <2>4. CASE Inspect(p)
    BY <2>4 DEF Inspect, Succeed, Holding
  <2> QED BY <2>1, <2>2, <2>3, <2>4 DEF ReadStep
<1> QED BY <1>1, <1>2, <1>3, LockHolderMove

\* Writing the log, the head and the snapshots leaves the lock file alone.
LEMMA LockWriteStep ==
  ASSUME LockInv, NEW p \in Procs, WriteStep(p)
  PROVE  LockInv'
<1> USE DEF EnvButIo, lockVars, locals, disk, env, Goto, Return
<1>1. CASE SnapCheck(p)
  BY <1>1, LockStillOwned DEF SnapCheck, OnSnapError, Holding
<1>2. CASE LogCheck(p)
  BY <1>2, LockStillOwned DEF LogCheck, OnLogError, Holding
<1>3. CASE HeadCheck(p)
  BY <1>3, LockStillOwned DEF HeadCheck, OnHeadError, Holding
<1>4. ASSUME ~SnapCheck(p), ~LogCheck(p), ~HeadCheck(p)
      PROVE  UNCHANGED lockVars /\ pc[p] \in Holding
  BY <1>4 DEF WriteStep, ValidateAppend, SnapWrite, LogWrite, LogVerify, HeadWrite, HeadCreate,
              Truncate, DropSnap, Holding
<1>5. ASSUME ~SnapCheck(p), ~LogCheck(p), ~HeadCheck(p)
      PROVE  \E l \in Holding \cup {"unlock", "idle"} : pc' = [pc EXCEPT ![p] = l]
  <2>1. CASE ValidateAppend(p)
    BY <2>1 DEF ValidateAppend, Holding
  <2>2. CASE SnapWrite(p)
    BY <2>2 DEF SnapWrite, OnSnapError, Holding
  <2>3. CASE LogWrite(p)
    BY <2>3 DEF LogWrite, OnLogError, Holding
  <2>4. CASE LogVerify(p)
    BY <2>4 DEF LogVerify, OnLogError, Holding
  <2>5. CASE HeadWrite(p)
    BY <2>5 DEF HeadWrite, Succeed, OnHeadError, Holding
  <2>6. CASE HeadCreate(p)
    BY <2>6 DEF HeadCreate, Succeed, Holding
  <2>7. CASE Truncate(p)
    BY <2>7 DEF Truncate, OnLogError, Holding
  <2>8. CASE DropSnap(p)
    BY <2>8 DEF DropSnap, Holding
  <2> QED BY <1>5, <2>1, <2>2, <2>3, <2>4, <2>5, <2>6, <2>7, <2>8 DEF WriteStep
<1> QED BY <1>1, <1>2, <1>3, <1>4, <1>5, LockHolderMove

\* Only an import reaches the rollback that removes the directory, so that it
\* holds the lock when it does.
ImportControl ==
    \A p \in Procs : pc[p] \in {"importCheck", "logInit", "rmFiles"} => op[p] = "import"

\* The rollback of an import removes the lock file that the import itself holds.
LEMMA LockImportStep ==
  ASSUME LockInv, ImportControl, NEW p \in Procs, ImportStep(p)
  PROVE  LockInv'
<1> USE DEF EnvButIo, lockVars, locals, disk, env, Goto, Return
<1>1. CASE ImportCheck(p)
  BY <1>1, LockStillOwned DEF ImportCheck, Holding
<1>2. CASE LogInit(p)
  <2>1. \E l \in Holding \cup {"unlock", "idle"} : pc' = [pc EXCEPT ![p] = l]
    BY <1>2 DEF LogInit, Holding
  <2>2. UNCHANGED lockVars /\ pc[p] \in Holding
    BY <1>2 DEF LogInit, Holding
  <2> QED BY <2>1, <2>2, LockHolderMove
<1>3. CASE RmFiles(p)
  <2>1. HasLock(p) /\ pc[p] \in Holding
    BY <1>3 DEF RmFiles, ImportControl, HasLock, InCriticalSection, Holding
  <2>2. CASE lockTok' = 0 /\ pc' = [pc EXCEPT ![p] = "rmDir"]
    BY <1>3, <2>1, <2>2, LockRemoval DEF RmFiles
  <2>3. CASE UNCHANGED lockTok /\ pc' = [pc EXCEPT ![p] = "unlock"]
    BY <1>3, <2>1, <2>3, LockHolderMove DEF RmFiles
  <2> QED BY <1>3, <2>2, <2>3 DEF RmFiles
<1>4. CASE RmDir(p)
  <2>1. UNCHANGED lockVars /\ pc[p] # "idle" /\ pc' = [pc EXCEPT ![p] = "unlock"]
    BY <1>4 DEF RmDir
  <2> QED BY <2>1, LockQuietStep DEF PC, Releasing, Holding
<1> QED BY <1>1, <1>2, <1>3, <1>4 DEF ImportStep

\* A rebuild leaves the lock file alone.
LEMMA LockRebuildStep ==
  ASSUME LockInv, NEW p \in Procs, RebuildStep(p)
  PROVE  LockInv'
<1> USE DEF EnvButIo, lockVars, locals, disk, Goto, Return
<1>1. CASE RebuildCheck(p)
  BY <1>1, LockStillOwned DEF RebuildCheck, Holding
<1>2. CASE RebuildWrite(p)
  <2>1. \E l \in Holding \cup {"unlock", "idle"} : pc' = [pc EXCEPT ![p] = l]
    BY <1>2 DEF RebuildWrite, AfterPlan, Holding
  <2>2. UNCHANGED lockVars /\ pc[p] \in Holding
    BY <1>2 DEF RebuildWrite, Holding
  <2> QED BY <2>1, <2>2, LockHolderMove
<1> QED BY <1>1, <1>2 DEF RebuildStep

\* An operator who clears a stale lock takes it from nobody; one who displaces a
\* live holder ends the hypothesis Undisplaced.
LEMMA LockEnvironmentStep ==
  ASSUME LockInv, OperatorClearsStaleLock \/ OperatorDisplaces
  PROVE  LockInv'
<1> USE DEF LockInv, EnvButIo, locals, env
<1>1. lockTok' = 0 /\ UNCHANGED <<pc, op, tok, started>>
  BY DEF OperatorClearsStaleLock, OperatorDisplaces
<1>2. displacements' \in Nat
  BY DEF LockTypes, OperatorClearsStaleLock, OperatorDisplaces
<1>3. LockTypes' /\ TokensDiffer'
  BY <1>1, <1>2 DEF LockTypes, TokensDiffer, Live
<1>4. LockNamesHolder'
  <2>1. CASE OperatorClearsStaleLock
    <3> SUFFICES ASSUME Undisplaced, NEW p \in Procs, HasLock(p) PROVE FALSE
      BY <1>1, <2>1 DEF OperatorClearsStaleLock, LockNamesHolder, Undisplaced, HasLock,
                        InCriticalSection
    <3>1. Live(p)
      BY DEF HasLock, InCriticalSection, Holding, Live
    <3> QED BY <2>1, <3>1 DEF OperatorClearsStaleLock, LockNamesHolder
  <2>2. CASE OperatorDisplaces
    BY <2>2 DEF OperatorDisplaces, LockTypes, LockNamesHolder, Undisplaced
  <2> QED BY <2>1, <2>2
<1> QED BY <1>3, <1>4

\* A process that dies leaves its lock file, and no longer counts as its holder.
LEMMA LockCrash ==
  ASSUME LockInv, NEW p \in Procs, Crashes(p)
  PROVE  LockInv'
<1>1. UNCHANGED lockVars /\ pc[p] # "idle" /\ pc' = [pc EXCEPT ![p] = "idle"]
  BY DEF Crashes, Live, lockVars, locals, Return, Goto
<1> QED BY <1>1, LockQuietStep DEF PC, Holding

\* How an operation gets to the import-only points
LEMMA ImportControlMove ==
  ASSUME ImportControl, NEW p \in Procs, op' = op,
         \A q \in Procs \ {p} : pc'[q] = pc[q],
         pc'[p] \in {"importCheck", "logInit", "rmFiles"} => op[p] = "import"
  PROVE  ImportControl'
BY DEF ImportControl

\* Only an import is ever in the rollback of an import.
LEMMA ImportControlStep ==
  ASSUME LockInv, ImportControl, [Next]_vars
  PROVE  ImportControl'
<1> USE DEF EnvButIo, locals, disk, env, Goto, Return, LockInv, LockTypes
<1>1. ASSUME NEW p \in Procs, Start(p) PROVE ImportControl'
  BY <1>1 DEF Start, StartImport, StartAppend, StartRebuild, StartAdopt, StartRead, Begin,
              ImportControl, LockInv, LockTypes
<1>2. ASSUME NEW p \in Procs, LockStep(p) PROVE ImportControl'
  <2>1. op' = op
    BY <1>2 DEF LockStep, Mkdir, Acquire, LockWrite, ReadBack, Unlock, Unlink
  <2>2. /\ \A q \in Procs \ {p} : pc'[q] = pc[q]
        /\ pc'[p] \in {"importCheck", "logInit", "rmFiles"} => op[p] = "import"
    BY <1>2 DEF LockStep, Mkdir, Acquire, LockWrite, ReadBack, AfterLock, Unlock, Unlink
  <2> QED BY <2>1, <2>2, ImportControlMove
<1>3. ASSUME NEW p \in Procs, ReadStep(p) PROVE ImportControl'
  <2>1. op' = op
    BY <1>3 DEF ReadStep, ReadLog, ReadHead, ReadSnaps, Inspect
  <2>2. /\ \A q \in Procs \ {p} : pc'[q] = pc[q]
        /\ pc'[p] \in {"importCheck", "logInit", "rmFiles"} => op[p] = "import"
    <3>1. CASE ReadLog(p)
      BY <3>1 DEF ReadLog, Exit
    <3>2. CASE ReadHead(p)
      BY <3>2 DEF ReadHead, Exit
    <3>3. CASE ReadSnaps(p)
      BY <3>3 DEF ReadSnaps, Exit, AfterPlan
    <3>4. CASE Inspect(p)
      BY <3>4 DEF Inspect, Succeed
    <3> QED BY <1>3, <3>1, <3>2, <3>3, <3>4 DEF ReadStep
  <2> QED BY <2>1, <2>2, ImportControlMove
<1>4. ASSUME NEW p \in Procs, WriteStep(p) PROVE ImportControl'
  <2>1. op' = op
    BY <1>4 DEF WriteStep, ValidateAppend, SnapCheck, SnapWrite, LogCheck, LogWrite, LogVerify,
                HeadCheck, HeadWrite, HeadCreate, Truncate, DropSnap, StillOwned
  <2>2. /\ \A q \in Procs \ {p} : pc'[q] = pc[q]
        /\ pc'[p] \in {"importCheck", "logInit", "rmFiles"} => op[p] = "import"
    <3>1. CASE ValidateAppend(p)
      BY <3>1 DEF ValidateAppend
    <3>2. CASE SnapCheck(p) \/ LogCheck(p) \/ HeadCheck(p)
      BY <3>2 DEF SnapCheck, LogCheck, HeadCheck, StillOwned, OnSnapError, OnLogError, OnHeadError
    <3>3. CASE SnapWrite(p)
      BY <3>3 DEF SnapWrite, OnSnapError
    <3>4. CASE LogWrite(p)
      BY <3>4 DEF LogWrite, OnLogError
    <3>5. CASE LogVerify(p)
      BY <3>5 DEF LogVerify, OnLogError
    <3>6. CASE HeadWrite(p) \/ HeadCreate(p)
      BY <3>6 DEF HeadWrite, HeadCreate, Succeed, OnHeadError
    <3>7. CASE Truncate(p) \/ DropSnap(p)
      BY <3>7 DEF Truncate, DropSnap, OnLogError
    <3> QED BY <1>4, <3>1, <3>2, <3>3, <3>4, <3>5, <3>6, <3>7 DEF WriteStep
  <2> QED BY <2>1, <2>2, ImportControlMove
<1>5. ASSUME NEW p \in Procs, ImportStep(p) PROVE ImportControl'
  <2>1. op' = op
    BY <1>5 DEF ImportStep, ImportCheck, LogInit, RmFiles, RmDir, StillOwned
  <2>2. /\ \A q \in Procs \ {p} : pc'[q] = pc[q]
        /\ pc'[p] \in {"importCheck", "logInit", "rmFiles"} => op[p] = "import"
    BY <1>5 DEF ImportStep, ImportCheck, LogInit, RmFiles, RmDir, StillOwned, ImportControl
  <2> QED BY <2>1, <2>2, ImportControlMove
<1>6. ASSUME NEW p \in Procs, RebuildStep(p) PROVE ImportControl'
  <2>1. op' = op
    BY <1>6 DEF RebuildStep, RebuildCheck, RebuildWrite, StillOwned
  <2>2. /\ \A q \in Procs \ {p} : pc'[q] = pc[q]
        /\ pc'[p] \in {"importCheck", "logInit", "rmFiles"} => op[p] = "import"
    BY <1>6 DEF RebuildStep, RebuildCheck, RebuildWrite, StillOwned, AfterPlan
  <2> QED BY <2>1, <2>2, ImportControlMove
<1>7. ASSUME NEW p \in Procs, Crash(p) \/ CrashInWrite(p) PROVE ImportControl'
  <2>1. op' = op /\ pc' = [pc EXCEPT ![p] = "idle"]
    BY <1>7 DEF Crash, CrashInWrite, Crashes
  <2> QED BY <2>1, ImportControlMove
<1>8. CASE OperatorClearsStaleLock \/ OperatorDisplaces \/ UNCHANGED vars
  <2>1. op' = op /\ pc' = pc
    BY <1>8 DEF OperatorClearsStaleLock, OperatorDisplaces, vars
  <2> QED BY <2>1 DEF ImportControl
<1> QED BY <1>1, <1>2, <1>3, <1>4, <1>5, <1>6, <1>7, <1>8 DEF Next, Step

\* Every step preserves the invariant.
LEMMA LockNext ==
  ASSUME LockInv, ImportControl, [Next]_vars
  PROVE  LockInv'
<1>1. ASSUME NEW p \in Procs, Start(p) PROVE LockInv'
  BY <1>1, LockStart
<1>2. ASSUME NEW p \in Procs, Step(p) PROVE LockInv'
  BY <1>2, LockLockStep, LockReadStep, LockWriteStep, LockImportStep, LockRebuildStep DEF Step
<1>3. ASSUME NEW p \in Procs, Crash(p) \/ CrashInWrite(p) PROVE LockInv'
  BY <1>3, LockCrash DEF Crash, CrashInWrite
<1>4. CASE OperatorClearsStaleLock \/ OperatorDisplaces
  BY <1>4, LockEnvironmentStep
<1>5. CASE UNCHANGED vars
  BY <1>5 DEF vars, disk, locals, env, LockInv, LockTypes, TokensDiffer, LockNamesHolder, Live,
              HasLock, InCriticalSection, Undisplaced
<1> QED BY <1>1, <1>2, <1>3, <1>4, <1>5 DEF Next

\* Two holders would both be named in the one lock file.
LEMMA LockInvImpliesMutualExclusion == LockInv => MutualExclusion
<1> SUFFICES ASSUME LockInv, Undisplaced, NEW p \in Procs, NEW q \in Procs,
                    InCriticalSection(p), InCriticalSection(q)
             PROVE  p = q
  BY DEF MutualExclusion
<1>1. HasLock(p) /\ HasLock(q) /\ Live(p) /\ Live(q)
  BY DEF HasLock, InCriticalSection, Holding, Live
<1>2. tok[p] = tok[q]
  BY <1>1 DEF LockInv, LockNamesHolder
<1> QED BY <1>1, <1>2 DEF LockInv, TokensDiffer

\* Two processes are never between acquiring and releasing the case lock at once
\* as long as no operator removes a live lock: acquire, still_owned and the
\* compare-and-delete of Drop exclude each other's writers, for any number of
\* processes, operations, crashes, failing calls and stale locks removed by hand.
THEOREM MutualExclusionHolds == Spec => []MutualExclusion
<1>1. Init => LockInv /\ ImportControl
  <2>1. Init => ImportControl
    BY DEF Init, ImportControl
  <2> QED BY <2>1, LockInit
<1>2. LockInv /\ ImportControl /\ [Next]_vars => (LockInv /\ ImportControl)'
  BY LockNext, ImportControlStep
<1>3. LockInv => MutualExclusion
  BY LockInvImpliesMutualExclusion
<1> QED BY <1>1, <1>2, <1>3, PTL DEF Spec

----------------------------------------------------------------------------
(* The history of the case *)

\* The hashes of a sequence of entries
Hashes(es) == {es[i].h : i \in 1 .. Len(es)}

\* v is what es was, or still is.
StillPrefix(v, es) == Len(v) <= Len(es) /\ \A i \in 1 .. Len(v) : v[i] = es[i]

\* Every entry has a revision of its own.
RevsDiffer(es) ==
    \A i \in 1 .. Len(es) :
        es[i].rev \in Revs /\ \A j \in 1 .. Len(es) : es[i].rev = es[j].rev => i = j

\* e continues es.
Continues(e, es) ==
    /\ e.seq = Len(es) + 1 /\ e.prev = Last(es).h /\ e.src = Last(es).rev
    /\ \A i \in 1 .. Len(es) : es[i].rev # e.rev

\* Where an operation of each kind can be
ReadPoints == {"idle", "readLog", "readHead", "readSnaps"}
LockPoints == Locking \cup {"idle", "unlock", "unlink"}
ImportPoints == LockPoints \cup {"mkdir", "importCheck", "snapCheck", "snapWrite", "logInit",
    "logWrite", "headCheck", "headWrite", "inspect", "rmFiles", "rmDir"}
AppendPoints == LockPoints \cup {"readLog", "readHead", "readSnaps", "validate", "snapCheck",
    "snapWrite", "logCheck", "logWrite", "logVerify", "headCheck", "headWrite", "truncate",
    "dropSnap", "inspect"}
RebuildPoints == LockPoints \cup {"readLog", "readHead", "readSnaps", "rebuildCheck",
    "rebuildWrite"}
AdoptPoints == RebuildPoints \cup {"headCheck", "headWrite", "headCreate"}

\* Each process is where its operation can be, and only an adopting rebuild plans
\* to replace a head.
AtItsPoint(p) ==
    /\ op[p] = "read" => pc[p] \in ReadPoints
    /\ op[p] = "import" => pc[p] \in ImportPoints
    /\ op[p] = "append" => pc[p] \in AppendPoints
    /\ op[p] = "rebuild" => pc[p] \in RebuildPoints
    /\ op[p] = "adopt" => pc[p] \in AdoptPoints
    /\ op[p] # "adopt" => plan[p].head = "keep"
OperationsKeepToTheirPoints == \A p \in Procs : AtItsPoint(p)

\* The types of what the files and the processes hold
HistoryTypes ==
    /\ dir \in BOOLEAN /\ log \in LogFile /\ head \in HeadFile /\ snaps \in [Revs -> SnapFile]
    /\ entry \in [Procs -> Entry] /\ view \in [Procs -> Seq(Entry)]
    /\ before \in [Procs -> [len : Nat, tail : TailState]]
    /\ plan \in [Procs -> [missing : SUBSET Nat, head : {"keep", "create", "repair"}]]
    /\ result \in [Procs -> Results] /\ floor \in [Procs -> SUBSET acked]
    /\ started <= MaxOps

\* The entry of an operation carries the operation's number.
EntriesAreNumbered ==
    \A p \in Procs :
        /\ op[p] \in {"import", "append"} => entry[p].h = tok[p] /\ entry[p].rev \in Revs
        /\ op[p] = "import" => /\ entry[p].seq = 1 /\ entry[p].prev = 0 /\ entry[p].src = NoRev
                               /\ view[p] = <<>>

\* The operation has not yet written its line.
Unwritten(p) ==
    /\ op[p] \in {"import", "append"}
    /\ pc[p] \in {"mkdir"} \cup Locking \cup {"readLog", "readHead", "readSnaps", "validate",
          "importCheck", "snapCheck", "snapWrite", "logInit", "logCheck", "logWrite"}

\* Nobody has seen the hash of an entry before it is written.
HashesAreFresh ==
    /\ \A h \in Hashes(log.entries) : h <= started
    /\ \A q \in Procs : \A h \in Hashes(view[q]) : h <= started
    /\ \A p \in Procs : Unwritten(p) =>
          /\ tok[p] \notin Hashes(log.entries)
          /\ \A q \in Procs : tok[p] \notin Hashes(view[q])

\* The log is one chain whose revisions differ, and everything that was ever
\* published is at or before the head.
ChainIsPublished ==
    /\ log.entries # <<>> => ValidLog(log.entries)
    /\ RevsDiffer(log.entries)
    /\ acked \subseteq published
    /\ head.state = "whole" =>
          /\ head.at.seq \in {Len(log.entries) - 1, Len(log.entries)} /\ head.at.seq >= 1
          /\ log.entries[head.at.seq] = head.at
          /\ head.at.h \in published
          /\ published \subseteq {log.entries[i].h : i \in 1 .. head.at.seq}
    /\ head.state # "whole" => published = {} /\ Len(log.entries) <= 1

\* A whole snapshot of a logged revision is what its prefix folds to.
SnapshotsFold ==
    \A i \in 1 .. Len(log.entries) :
        snaps[log.entries[i].rev].state = "whole" =>
            snaps[log.entries[i].rev] = SnapOf(Prefix(log.entries, i))

\* An import that has made the directory and not yet published its entry
Importing(p) ==
    /\ op[p] = "import"
    /\ pc[p] \in Locking \cup {"importCheck", "snapCheck", "snapWrite", "logInit", "logWrite",
                               "headCheck", "headWrite", "rmFiles", "rmDir"}

\* There is at most one of those; it works on an unpublished case.
ImportIsAlone ==
    /\ ~dir => log.entries = <<>> /\ head.state = "absent"
    /\ \A p, q \in Procs : Importing(p) /\ Importing(q) => p = q
    /\ \A p \in Procs : Importing(p) =>
          /\ dir /\ head.state = "absent"
          /\ pc[p] \notin {"logWrite", "headCheck", "headWrite", "rmFiles"} => log.entries = <<>>

\* What the holder of the lock knows
ReadPointsUnderLock == {"readHead", "readSnaps", "validate", "snapCheck", "snapWrite",
    "logCheck", "logWrite", "rebuildCheck", "rebuildWrite"}
\* From reading the log to writing it, it is the log that was read.
HoldsTheLog(p) ==
    (\/ op[p] # "import" /\ pc[p] \in ReadPointsUnderLock
     \/ op[p] = "adopt" /\ pc[p] \in {"headCheck", "headWrite", "headCreate"})
    => view[p] = log.entries /\ log.entries # <<>>
\* An append that has checked the head knows the entry it names.
HoldsTheHead(p) ==
    op[p] = "append" /\ pc[p] \in {"readSnaps", "validate", "snapCheck", "snapWrite", "logCheck",
                                   "logWrite", "logVerify", "headCheck", "headWrite", "truncate"}
        => view[p] # <<>> /\ head = HeadOf(Last(view[p]))
\* Where the entry of an import or append is
HoldsItsEntry(p) ==
    /\ op[p] = "append" /\ pc[p] \in {"snapCheck", "snapWrite", "logCheck", "logWrite",
                                      "logVerify", "headCheck", "headWrite", "truncate"}
          => Continues(entry[p], view[p])
    /\ op[p] = "append" /\ pc[p] = "logVerify"
          => /\ before[p].len = Len(view[p])
             /\ log.entries \in {view[p], Append(view[p], entry[p])}
    /\ op[p] = "append" /\ pc[p] \in {"headCheck", "headWrite", "truncate"}
          => /\ before[p].len = Len(view[p])
             /\ log.entries = Append(view[p], entry[p])
    /\ op[p] = "import" /\ pc[p] = "logWrite" => log.entries = <<>> /\ log.tail = "clean"
    /\ op[p] = "import" /\ pc[p] \in {"headCheck", "headWrite"} => log.entries = <<entry[p]>>
    /\ pc[p] = "inspect" => entry[p].h \in published
\* Which snapshot carries the new revision, and which ones a rebuild misses
HoldsTheSnapshots(p) ==
    /\ pc[p] \in {"logInit", "logCheck", "logWrite"} =>
          (snaps[entry[p].rev].state = "whole"
              => snaps[entry[p].rev] = SnapOf(Append(view[p], entry[p])))
    /\ pc[p] \in {"rebuildCheck", "rebuildWrite"} =>
          plan[p].missing # {} /\ plan[p].missing \subseteq 1 .. Len(view[p])
Knows(p) == HoldsTheLog(p) /\ HoldsTheHead(p) /\ HoldsItsEntry(p) /\ HoldsTheSnapshots(p)
HolderKnows == \A p \in Procs : InCriticalSection(p) => Knows(p)

\* A proposer built on an entry that the head covers.
ProposersAreBased ==
    \A p \in Procs : op[p] = "append" /\ Live(p) =>
        /\ head.state = "whole"
        /\ \E i \in 1 .. head.at.seq :
              /\ log.entries[i].h = entry[p].prev /\ log.entries[i].rev = entry[p].src
              /\ entry[p].seq = i + 1

\* What a reader saw is still there or was never published.
ReaderSawTheChain(p) ==
    /\ Live(p) => result[p] = "none"
    /\ pc[p] = "readHead" =>
          /\ view[p] # <<>>
          /\ StillPrefix(view[p], log.entries) \/ Last(view[p]).h \notin Hashes(log.entries)
    /\ pc[p] = "readSnaps" \/ result[p] = "ok" =>
          /\ Last(view[p]).h \in published
          /\ floor[p] \subseteq Hashes(view[p])
ReadersSawTheChain == \A p \in Procs : op[p] = "read" => ReaderSawTheChain(p)

\* The inductive invariant behind the store's history
StoreInv ==
    /\ HistoryTypes /\ OperationsKeepToTheirPoints /\ EntriesAreNumbered /\ HashesAreFresh
    /\ ChainIsPublished /\ SnapshotsFold /\ ImportIsAlone /\ HolderKnows
    /\ ProposersAreBased /\ ReadersSawTheChain /\ LostRaceIsReportedStale

----------------------------------------------------------------------------
(* Sequences of entries *)

\* Append puts one element behind the ones that are there.
LEMMA AppendFacts ==
  ASSUME NEW S, NEW s \in Seq(S), NEW e \in S
  PROVE  /\ Append(s, e) \in Seq(S) /\ Append(s, e) # <<>>
         /\ Len(Append(s, e)) = Len(s) + 1 /\ Len(s) \in Nat
         /\ \A i \in 1 .. Len(s) : Append(s, e)[i] = s[i]
         /\ Append(s, e)[Len(s) + 1] = e
         /\ Last(Append(s, e)) = e
<1>1. /\ Append(s, e) \in Seq(S)
      /\ Len(Append(s, e)) = Len(s) + 1 /\ Len(s) \in Nat
      /\ \A i \in 1 .. Len(s) : Append(s, e)[i] = s[i]
      /\ Append(s, e)[Len(s) + 1] = e
  BY AppendProperties, LenProperties
<1>2. Append(s, e) # <<>>
  BY <1>1
<1> QED BY <1>1, <1>2 DEF Last

\* A prefix has the elements of the sequence it is cut from.
LEMMA PrefixFacts ==
  ASSUME NEW S, NEW s \in Seq(S), NEW n \in 0 .. Len(s)
  PROVE  /\ Prefix(s, n) \in Seq(S) /\ Len(Prefix(s, n)) = n
         /\ \A i \in 1 .. n : Prefix(s, n)[i] = s[i]
<1>1. Len(s) \in Nat
  BY LenProperties
<1>2. /\ 1 \in 1 .. Len(s) + 1 /\ n \in 1 - 1 .. Len(s)
  BY <1>1
<1> QED BY <1>1, <1>2, SubSeqProperties DEF Prefix

\* Two sequences of the same elements are the same.
LEMMA SameEntries ==
  ASSUME NEW S, NEW s \in Seq(S), NEW t \in Seq(S), Len(s) = Len(t),
         \A i \in 1 .. Len(s) : s[i] = t[i]
  PROVE  s = t
BY SeqEqual

\* A sequence that is not empty has a last element.
LEMMA NonEmptyFacts ==
  ASSUME NEW S, NEW s \in Seq(S), s # <<>>
  PROVE  /\ Len(s) \in Nat \ {0} /\ Last(s) = s[Len(s)] /\ Last(s) \in S
<1>1. Len(s) \in Nat \ {0}
  BY EmptySeq, LenProperties
<1> QED BY <1>1, ElementOfSeq DEF Last

\* The prefix of full length is the sequence.
LEMMA PrefixWhole ==
  ASSUME NEW S, NEW s \in Seq(S)
  PROVE  Prefix(s, Len(s)) = s
<1>1. Len(s) \in Nat
  BY LenProperties
<1>2. Len(s) \in 0 .. Len(s)
  BY <1>1
<1> HIDE DEF Prefix
<1>3. /\ Prefix(s, Len(s)) \in Seq(S) /\ Len(Prefix(s, Len(s))) = Len(s)
      /\ \A i \in 1 .. Len(s) : Prefix(s, Len(s))[i] = s[i]
  BY <1>2, PrefixFacts
<1> QED BY <1>3, SameEntries

\* A new line leaves the earlier prefixes as they are.
LEMMA PrefixOfAppend ==
  ASSUME NEW S, NEW s \in Seq(S), NEW e \in S, NEW n \in 0 .. Len(s)
  PROVE  Prefix(Append(s, e), n) = Prefix(s, n)
<1> DEFINE t == Append(s, e)
<1>1. /\ t \in Seq(S) /\ Len(t) = Len(s) + 1 /\ Len(s) \in Nat
      /\ \A i \in 1 .. Len(s) : t[i] = s[i]
  BY AppendFacts
<1> HIDE DEF t
<1>2. n \in 0 .. Len(t)
  BY <1>1
<1>3. /\ Prefix(t, n) \in Seq(S) /\ Len(Prefix(t, n)) = n
      /\ \A i \in 1 .. n : Prefix(t, n)[i] = t[i]
  BY <1>1, <1>2, PrefixFacts
<1>4. /\ Prefix(s, n) \in Seq(S) /\ Len(Prefix(s, n)) = n
      /\ \A i \in 1 .. n : Prefix(s, n)[i] = s[i]
  BY PrefixFacts
<1>5. \A i \in 1 .. n : Prefix(t, n)[i] = Prefix(s, n)[i]
  BY <1>1, <1>3, <1>4
<1>6. Prefix(t, n) = Prefix(s, n)
  BY <1>3, <1>4, <1>5, SameEntries
<1> QED BY <1>6 DEF t

----------------------------------------------------------------------------
(* Chains *)

\* An entry that continues a chain makes a longer chain.
LEMMA ChainGrows ==
  ASSUME NEW s \in Seq(Entry), NEW e \in Entry, s # <<>>, ValidLog(s), RevsDiffer(s),
         Continues(e, s), e.h \notin Hashes(s), e.rev \in Revs
  PROVE  ValidLog(Append(s, e)) /\ RevsDiffer(Append(s, e))
<1> DEFINE t == Append(s, e)
<1>1. /\ t \in Seq(Entry) /\ t # <<>> /\ Len(t) = Len(s) + 1 /\ Len(s) \in Nat
      /\ \A i \in 1 .. Len(s) : t[i] = s[i]
      /\ t[Len(s) + 1] = e
  BY AppendFacts
<1>2. Len(s) # 0 /\ Last(s) = s[Len(s)]
  BY NonEmptyFacts
<1> HIDE DEF t
<1>3. \A i \in 1 .. Len(s) : s[i].h # e.h /\ s[i].rev # e.rev
  BY DEF Hashes, Continues
<1>4. ValidLog(t)
  <2> SUFFICES ASSUME NEW i \in 1 .. Len(t)
               PROVE  /\ t[i].seq = i
                      /\ t[i].prev = IF i = 1 THEN 0 ELSE t[i - 1].h
                      /\ t[i].src = IF i = 1 THEN NoRev ELSE t[i - 1].rev
                      /\ \A j \in 1 .. Len(t) : t[i].h = t[j].h => i = j
    BY <1>1 DEF ValidLog
  <2>1. CASE i \in 1 .. Len(s)
    <3>1. t[i] = s[i] /\ (i # 1 => t[i - 1] = s[i - 1])
      BY <1>1, <2>1
    <3>2. \A j \in 1 .. Len(t) : t[i].h = t[j].h => i = j
      BY <1>1, <1>3, <2>1 DEF ValidLog
    <3> QED BY <2>1, <3>1, <3>2 DEF ValidLog
  <2>2. CASE i = Len(s) + 1
    <3>1. t[i] = e /\ i # 1 /\ t[i - 1] = s[Len(s)]
      BY <1>1, <1>2, <2>2
    <3>2. \A j \in 1 .. Len(t) : t[i].h = t[j].h => i = j
      BY <1>1, <1>3, <2>2
    <3> QED BY <1>2, <2>2, <3>1, <3>2 DEF Continues
  <2> QED BY <1>1, <2>1, <2>2
<1>5. RevsDiffer(t)
  BY <1>1, <1>3 DEF RevsDiffer
<1> QED BY <1>4, <1>5 DEF t

\* A genesis entry is a chain.
LEMMA ChainStarts ==
  ASSUME NEW e \in Entry, e.seq = 1, e.prev = 0, e.src = NoRev, e.rev \in Revs
  PROVE  ValidLog(Append(<<>>, e)) /\ RevsDiffer(Append(<<>>, e))
<1> DEFINE t == Append(<<>>, e)
<1>0. <<>> \in Seq(Entry) /\ Len(<<>>) = 0
  OBVIOUS
<1>1. t \in Seq(Entry) /\ t # <<>> /\ Len(t) = 1 /\ t[1] = e
  BY <1>0, AppendFacts
<1> HIDE DEF t
<1>2. ValidLog(t) /\ RevsDiffer(t)
  BY <1>1 DEF ValidLog, RevsDiffer
<1> QED BY <1>2 DEF t

\* A chain without its last entry is a chain.
LEMMA ChainCut ==
  ASSUME NEW s \in Seq(Entry), NEW e \in Entry, s # <<>>,
         ValidLog(Append(s, e)), RevsDiffer(Append(s, e))
  PROVE  ValidLog(s) /\ RevsDiffer(s) /\ e.h \notin Hashes(s)
<1> DEFINE t == Append(s, e)
<1>1. /\ Len(t) = Len(s) + 1 /\ Len(s) \in Nat
      /\ \A i \in 1 .. Len(s) : t[i] = s[i]
      /\ t[Len(s) + 1] = e
  BY AppendFacts
<1>2. ValidLog(t) /\ RevsDiffer(t)
  OBVIOUS
<1> HIDE DEF t
<1>3. ValidLog(s)
  <2> SUFFICES ASSUME NEW i \in 1 .. Len(s)
               PROVE  /\ s[i].seq = i
                      /\ s[i].prev = IF i = 1 THEN 0 ELSE s[i - 1].h
                      /\ s[i].src = IF i = 1 THEN NoRev ELSE s[i - 1].rev
                      /\ \A j \in 1 .. Len(s) : s[i].h = s[j].h => i = j
    BY DEF ValidLog
  <2>1. t[i] = s[i] /\ (i # 1 => t[i - 1] = s[i - 1])
    BY <1>1
  <2>2. i \in 1 .. Len(t)
    BY <1>1
  <2> QED BY <1>1, <1>2, <2>1, <2>2 DEF ValidLog
<1>4. RevsDiffer(s)
  BY <1>1, <1>2 DEF RevsDiffer
<1>5. e.h \notin Hashes(s)
  BY <1>1, <1>2 DEF ValidLog, Hashes
<1> QED BY <1>3, <1>4, <1>5

----------------------------------------------------------------------------
(* What a step can do to the files *)

\* A line is added ...
Grows(p) ==
    /\ InCriticalSection(p) /\ pc[p] = "logWrite"
    /\ log'.entries = Append(log.entries, entry[p])
    /\ UNCHANGED <<head, snaps, published>>
\* ... or cut off again by the append that added it.
IsCut(p) ==
    /\ InCriticalSection(p) /\ op[p] = "append" /\ pc[p] \in {"logVerify", "truncate"}
    /\ log.entries = Append(view[p], entry[p]) /\ log'.entries = view[p]
    /\ UNCHANGED <<head, snaps, published>>
\* An import starts over or rolls back.
IsEmptied(p) ==
    /\ Importing(p)
    /\ log'.entries = <<>> /\ head'.state = "absent"
    /\ UNCHANGED published
\* The head is written for the tail ...
Publishes ==
    /\ log.entries # <<>>
    /\ head' = HeadOf(Last(log.entries))
    /\ published' = published \cup {Last(log.entries).h}
    /\ log'.entries = log.entries /\ UNCHANGED snaps
\* ... or the first head is cut off by a crash.
Tears ==
    /\ head.state = "absent" /\ head' = TornHead
    /\ log'.entries = log.entries /\ UNCHANGED <<snaps, published>>
\* One snapshot file changes, and not into a wrong one.
Snaps(r, s) ==
    /\ snaps' = [snaps EXCEPT ![r] = s]
    /\ s.state = "whole" =>
          \A i \in 1 .. Len(log.entries) :
              log.entries[i].rev = r => s = SnapOf(Prefix(log.entries, i))
    /\ log'.entries = log.entries /\ UNCHANGED <<head, published>>
\* The lines, the head and the snapshots stay.
Keeps == log'.entries = log.entries /\ UNCHANGED <<head, snaps, published>>

\* Everything a step of p may do to the files
FilesMove(p) ==
    \/ Grows(p) \/ IsCut(p) \/ IsEmptied(p) \/ Publishes \/ Tears \/ Keeps
    \/ \E r \in Revs, s \in SnapFile : Snaps(r, s)

\* What the head covers stays.
PastIsKept ==
    /\ published \subseteq published'
    /\ head.state = "whole" =>
          /\ head'.state = "whole" /\ head'.at.seq >= head.at.seq
          /\ \A i \in 1 .. head.at.seq : log'.entries[i] = log.entries[i]

\* A sequence that was read is still there, or gone for good.
Sight(v, es) == StillPrefix(v, es) \/ Last(v).h \notin Hashes(es)
\* What a process has seen of the log stays seen or gone.
SightIsKept ==
    \A q \in Procs : view[q] # <<>> /\ Sight(view[q], log.entries)
                     => Sight(view[q], log'.entries)

\* The types of the files alone
FileTypes == log \in LogFile /\ head \in HeadFile /\ snaps \in [Revs -> SnapFile]

\* The log holds a sequence of entries.
LEMMA LogType ==
  ASSUME FileTypes
  PROVE  log.entries \in Seq(Entry) /\ Len(log.entries) \in Nat
<1>1. log.entries \in Seq(Entry)
  BY DEF FileTypes, LogFile
<1> QED BY <1>1, LenProperties

\* A line is only written behind the head, by an operation whose entry fits.
LEMMA GrowingFits ==
  ASSUME LockInv, StoreInv, NEW p \in Procs, InCriticalSection(p), pc[p] = "logWrite"
  PROVE  /\ entry[p] \in Entry /\ entry[p].h = tok[p] /\ entry[p].h \notin Hashes(log.entries)
         /\ view[p] = log.entries
         /\ ValidLog(Append(log.entries, entry[p])) /\ RevsDiffer(Append(log.entries, entry[p]))
         /\ \A i \in 1 .. Len(log.entries) : log.entries[i].rev # entry[p].rev
         /\ snaps[entry[p].rev].state = "whole"
               => snaps[entry[p].rev] = SnapOf(Append(log.entries, entry[p]))
         /\ head.state = "whole" => head.at.seq = Len(log.entries)
         /\ head.state # "whole" => log.entries = <<>>
<1> DEFINE e == entry[p]
           es == log.entries
<1>1. es \in Seq(Entry) /\ Len(es) \in Nat
  BY LogType DEF StoreInv, HistoryTypes, FileTypes
<1>2. e \in Entry
  BY DEF StoreInv, HistoryTypes
<1>3. CASE op[p] = "append"
  <2>1. Unwritten(p) /\ e.h = tok[p] /\ e.rev \in Revs
    BY <1>3 DEF StoreInv, EntriesAreNumbered, Unwritten
  <2>2. tok[p] \notin Hashes(es)
    BY <2>1 DEF StoreInv, HashesAreFresh
  <2>3. view[p] = es /\ es # <<>>
    BY <1>3 DEF StoreInv, HolderKnows, Knows, HoldsTheLog, ReadPointsUnderLock
  <2>4. Continues(e, es)
    BY <1>3, <2>3 DEF StoreInv, HolderKnows, Knows, HoldsItsEntry
  <2>5. ValidLog(es) /\ RevsDiffer(es)
    BY <2>3 DEF StoreInv, ChainIsPublished
  <2>6. ValidLog(Append(es, e)) /\ RevsDiffer(Append(es, e))
    BY <1>1, <1>2, <2>1, <2>2, <2>3, <2>4, <2>5, ChainGrows
  <2>7. snaps[e.rev].state = "whole" => snaps[e.rev] = SnapOf(Append(es, e))
    BY <2>3 DEF StoreInv, HolderKnows, Knows, HoldsTheSnapshots
  <2>8. head = HeadOf(Last(es))
    BY <1>3, <2>3 DEF StoreInv, HolderKnows, Knows, HoldsTheHead
  <2>9. head.at.seq = Len(es) /\ head.state = "whole"
    BY <1>1, <2>3, <2>5, <2>8, NonEmptyFacts DEF HeadOf, ValidLog
  <2> QED BY <1>2, <2>1, <2>2, <2>3, <2>4, <2>6, <2>7, <2>9 DEF Continues
<1>4. CASE op[p] = "import"
  <2>1. /\ Unwritten(p) /\ e.h = tok[p] /\ e.rev \in Revs
        /\ e.seq = 1 /\ e.prev = 0 /\ e.src = NoRev /\ view[p] = <<>>
    BY <1>4 DEF StoreInv, EntriesAreNumbered, Unwritten
  <2>2. tok[p] \notin Hashes(es)
    BY <2>1 DEF StoreInv, HashesAreFresh
  <2>3. es = <<>>
    BY <1>4 DEF StoreInv, HolderKnows, Knows, HoldsItsEntry
  <2>4. ValidLog(Append(es, e)) /\ RevsDiffer(Append(es, e))
    BY <1>2, <2>1, <2>3, ChainStarts
  <2>5. snaps[e.rev].state = "whole" => snaps[e.rev] = SnapOf(Append(es, e))
    BY <2>1, <2>3 DEF StoreInv, HolderKnows, Knows, HoldsTheSnapshots
  <2>6. head.state = "absent"
    BY <1>4 DEF StoreInv, ImportIsAlone, Importing
  <2>7. Len(es) = 0
    BY <2>3
  <2> QED BY <1>2, <2>1, <2>2, <2>3, <2>4, <2>5, <2>6, <2>7
<1>5. op[p] \in {"append", "import"}
  BY DEF StoreInv, OperationsKeepToTheirPoints, AtItsPoint, InCriticalSection, RebuildPoints, AdoptPoints,
         LockPoints, Locking, LockInv, LockTypes, AllOperations
<1> QED BY <1>3, <1>4, <1>5

\* What every change of the files guarantees
FilesStaySound == ChainIsPublished' /\ SnapshotsFold' /\ PastIsKept /\ SightIsKept

\* A new line goes behind everything published, and nobody has seen its hash.
LEMMA GrowingIsSound ==
  ASSUME LockInv, StoreInv, FileTypes', acked' \subseteq acked \cup published',
         NEW p \in Procs, Grows(p)
  PROVE  FilesStaySound
<1> DEFINE e == entry[p]
           es == log.entries
           t == Append(es, e)
<1>0. InCriticalSection(p) /\ pc[p] = "logWrite" /\ log'.entries = t /\ UNCHANGED <<head, snaps, published>>
  BY DEF Grows
<1>1. es \in Seq(Entry) /\ Len(es) \in Nat
  BY LogType DEF StoreInv, HistoryTypes, FileTypes
<1>2. /\ e \in Entry /\ e.h = tok[p] /\ e.h \notin Hashes(es) /\ ValidLog(t) /\ RevsDiffer(t)
      /\ \A i \in 1 .. Len(es) : es[i].rev # e.rev
      /\ snaps[e.rev].state = "whole" => snaps[e.rev] = SnapOf(t)
      /\ head.state = "whole" => head.at.seq = Len(es)
      /\ head.state # "whole" => es = <<>>
  BY <1>0, GrowingFits
<1>3. /\ t \in Seq(Entry) /\ t # <<>> /\ Len(t) = Len(es) + 1
      /\ \A i \in 1 .. Len(es) : t[i] = es[i]
      /\ t[Len(es) + 1] = e
  BY <1>1, <1>2, AppendFacts
<1>4. \A i \in 1 .. Len(es) : Prefix(t, i) = Prefix(es, i)
  BY <1>1, <1>2, PrefixOfAppend
<1>5. Prefix(t, Len(t)) = t
  BY <1>3, PrefixWhole
<1>6. Unwritten(p)
  BY <1>0, <1>1
     DEF StoreInv, OperationsKeepToTheirPoints, AtItsPoint, InCriticalSection, RebuildPoints,
         AdoptPoints,
         LockPoints, Locking, LockInv, LockTypes, AllOperations, Unwritten
<1>7. \A q \in Procs : e.h \notin Hashes(view[q])
  BY <1>2, <1>6 DEF StoreInv, HashesAreFresh
<1> HIDE DEF t
<1>8. ChainIsPublished'
  <2>1. CASE head.state = "whole"
    <3>1. /\ head.at.seq = Len(es) /\ Len(es) >= 1
          /\ es[head.at.seq] = head.at /\ head.at.h \in published
          /\ published \subseteq {es[i].h : i \in 1 .. head.at.seq}
      BY <1>2, <2>1 DEF StoreInv, ChainIsPublished
    <3>2. head.at.seq = Len(t) - 1 /\ t[head.at.seq] = head.at
      BY <1>1, <1>3, <3>1
    <3>3. {es[i].h : i \in 1 .. head.at.seq} \subseteq {t[i].h : i \in 1 .. head.at.seq}
      BY <1>3, <3>1
    <3>4. published \subseteq {t[i].h : i \in 1 .. head.at.seq}
      BY <3>1, <3>3
    <3> QED BY <1>0, <1>2, <1>3, <2>1, <3>1, <3>2, <3>4 DEF StoreInv, ChainIsPublished
  <2>2. CASE head.state # "whole"
    <3>1. Len(t) = 1 /\ published = {}
      BY <1>2, <1>3, <2>2 DEF StoreInv, ChainIsPublished
    <3> QED BY <1>0, <1>2, <1>3, <2>2, <3>1 DEF StoreInv, ChainIsPublished
  <2> QED BY <2>1, <2>2
<1>9. SnapshotsFold'
  <2> SUFFICES ASSUME NEW i \in 1 .. Len(t), snaps[t[i].rev].state = "whole"
               PROVE  snaps[t[i].rev] = SnapOf(Prefix(t, i))
    BY <1>0 DEF SnapshotsFold
  <2>1. CASE i \in 1 .. Len(es)
    BY <1>3, <1>4, <2>1 DEF StoreInv, SnapshotsFold
  <2>2. CASE i = Len(t)
    BY <1>1, <1>2, <1>3, <1>5, <2>2
  <2> QED BY <1>1, <1>3, <2>1, <2>2
<1>10. PastIsKept
  BY <1>0, <1>1, <1>2, <1>3 DEF PastIsKept, FileTypes, HeadFile, Entry
<1>11. SightIsKept
  <2> SUFFICES ASSUME NEW q \in Procs, view[q] # <<>>, Sight(view[q], es) PROVE Sight(view[q], t)
    BY <1>0 DEF SightIsKept
  <2>0. view[q] \in Seq(Entry)
    BY DEF StoreInv, HistoryTypes
  <2>1. CASE StillPrefix(view[q], es)
    <3>1. Len(view[q]) \in Nat
      BY <2>0, LenProperties
    <3> QED BY <1>1, <1>3, <2>1, <3>1 DEF Sight, StillPrefix
  <2>2. CASE Last(view[q]).h \notin Hashes(es)
    <3>1. Last(view[q]).h \in Hashes(view[q])
      BY <2>0, NonEmptyFacts DEF Hashes
    <3>2. Last(view[q]).h # e.h
      BY <1>7, <3>1
    <3> QED BY <1>1, <1>3, <2>2, <3>2 DEF Sight, Hashes
  <2> QED BY <2>1, <2>2 DEF Sight
<1> QED BY <1>8, <1>9, <1>10, <1>11 DEF FilesStaySound

\* What is cut off is behind the head.
LEMMA CuttingIsSound ==
  ASSUME LockInv, StoreInv, FileTypes', acked' \subseteq acked \cup published',
         NEW p \in Procs, IsCut(p)
  PROVE  FilesStaySound
<1> DEFINE e == entry[p]
           es == view[p]
           t == Append(es, e)
<1>0. InCriticalSection(p) /\ log.entries = t /\ log'.entries = es /\ UNCHANGED <<head, snaps, published>>
  BY DEF IsCut
<1>1. es \in Seq(Entry) /\ e \in Entry /\ es # <<>> /\ Len(es) \in Nat \ {0}
      /\ head = HeadOf(Last(es))
  <2>1. es \in Seq(Entry) /\ e \in Entry /\ es # <<>> /\ head = HeadOf(Last(es))
    BY DEF IsCut, StoreInv, HistoryTypes, HolderKnows, Knows, HoldsTheHead
  <2> QED BY <2>1, NonEmptyFacts
<1>3. /\ t \in Seq(Entry) /\ t # <<>> /\ Len(t) = Len(es) + 1
      /\ \A i \in 1 .. Len(es) : t[i] = es[i]
      /\ t[Len(es) + 1] = e /\ Last(t) = e
  BY <1>1, AppendFacts
<1>4. \A i \in 1 .. Len(es) : Prefix(t, i) = Prefix(es, i)
  BY <1>1, PrefixOfAppend
<1>5. ValidLog(t) /\ RevsDiffer(t)
  BY <1>0, <1>3 DEF StoreInv, ChainIsPublished
<1>6. ValidLog(es) /\ RevsDiffer(es) /\ e.h \notin Hashes(es)
  BY <1>1, <1>5, ChainCut
<1> HIDE DEF t
<1>7. head.state = "whole" /\ head.at.seq = Len(es) /\ es[Len(es)] = head.at
  BY <1>1, <1>6, NonEmptyFacts DEF HeadOf, ValidLog
<1>8. ChainIsPublished'
  <2>1. /\ head.at.h \in published
        /\ published \subseteq {t[i].h : i \in 1 .. head.at.seq}
    BY <1>0, <1>7 DEF StoreInv, ChainIsPublished
  <2>2. {t[i].h : i \in 1 .. head.at.seq} \subseteq {es[i].h : i \in 1 .. head.at.seq}
    BY <1>3, <1>7
  <2>3. published \subseteq {es[i].h : i \in 1 .. head.at.seq}
    BY <2>1, <2>2
  <2> QED BY <1>0, <1>1, <1>6, <1>7, <2>1, <2>3 DEF StoreInv, ChainIsPublished
<1>9. SnapshotsFold'
  <2> SUFFICES ASSUME NEW i \in 1 .. Len(es), snaps[es[i].rev].state = "whole"
               PROVE  snaps[es[i].rev] = SnapOf(Prefix(es, i))
    BY <1>0 DEF SnapshotsFold
  <2>1. i \in 1 .. Len(t) /\ t[i] = es[i]
    BY <1>1, <1>3
  <2> QED BY <1>0, <1>4, <2>1 DEF StoreInv, SnapshotsFold
<1>10. PastIsKept
  BY <1>0, <1>1, <1>3, <1>7 DEF PastIsKept
<1>11. SightIsKept
  <2> SUFFICES ASSUME NEW q \in Procs, view[q] # <<>>, Sight(view[q], t) PROVE Sight(view[q], es)
    BY <1>0 DEF SightIsKept
  <2>0. view[q] \in Seq(Entry) /\ Len(view[q]) \in Nat \ {0} /\ Last(view[q]) = view[q][Len(view[q])]
    <3>1. view[q] \in Seq(Entry)
      BY DEF StoreInv, HistoryTypes
    <3> QED BY <3>1, NonEmptyFacts
  <2>1. CASE StillPrefix(view[q], t) /\ Len(view[q]) <= Len(es)
    BY <1>1, <1>3, <2>0, <2>1 DEF Sight, StillPrefix
  <2>2. CASE StillPrefix(view[q], t) /\ Len(view[q]) = Len(es) + 1
    BY <1>1, <1>3, <1>6, <2>0, <2>2 DEF Sight, StillPrefix
  <2>3. CASE Last(view[q]).h \notin Hashes(t)
    BY <1>1, <1>3, <2>3 DEF Sight, Hashes
  <2> QED BY <1>1, <1>3, <2>0, <2>1, <2>2, <2>3 DEF Sight, StillPrefix
<1> QED BY <1>8, <1>9, <1>10, <1>11 DEF FilesStaySound

\* Only an unpublished case is emptied.
LEMMA EmptyingIsSound ==
  ASSUME LockInv, StoreInv, FileTypes', acked' \subseteq acked \cup published',
         NEW p \in Procs, IsEmptied(p)
  PROVE  FilesStaySound
<1>1. log'.entries = <<>> /\ Len(<<>>) = 0 /\ head'.state = "absent" /\ UNCHANGED published
  BY DEF IsEmptied
<1>2. head.state = "absent" /\ published = {} /\ acked = {}
  BY DEF IsEmptied, StoreInv, ImportIsAlone, ChainIsPublished
<1>3. ChainIsPublished'
  BY <1>1, <1>2 DEF ChainIsPublished, RevsDiffer
<1>4. SnapshotsFold'
  BY <1>1 DEF SnapshotsFold
<1>5. PastIsKept
  BY <1>1, <1>2 DEF PastIsKept
<1>6. SightIsKept
  BY <1>1 DEF SightIsKept, Sight, Hashes
<1> QED BY <1>3, <1>4, <1>5, <1>6 DEF FilesStaySound

\* The head moves forward only, to the log's tail.
LEMMA PublishingIsSound ==
  ASSUME LockInv, StoreInv, FileTypes', acked' \subseteq acked \cup published', Publishes
  PROVE  FilesStaySound
<1> DEFINE es == log.entries
<1>0. es # <<>> /\ head' = HeadOf(Last(es)) /\ published' = published \cup {Last(es).h}
      /\ log'.entries = es /\ UNCHANGED snaps
  BY DEF Publishes
<1>1. es \in Seq(Entry) /\ Len(es) \in Nat \ {0} /\ Last(es) = es[Len(es)] /\ Last(es) \in Entry
  <2>1. es \in Seq(Entry)
    BY LogType DEF StoreInv, HistoryTypes, FileTypes
  <2> QED BY <1>0, <2>1, NonEmptyFacts
<1>2. ValidLog(es) /\ RevsDiffer(es)
  BY <1>0 DEF StoreInv, ChainIsPublished
<1>3. head'.state = "whole" /\ head'.at = Last(es) /\ head'.at.seq = Len(es)
  BY <1>0, <1>1, <1>2 DEF HeadOf, ValidLog
<1>4. ChainIsPublished'
  <2>1. published \subseteq {es[i].h : i \in 1 .. Len(es)}
    BY <1>1 DEF StoreInv, ChainIsPublished
  <2>2. Last(es).h \in {es[i].h : i \in 1 .. Len(es)}
    BY <1>1
  <2>3. published' \subseteq {es[i].h : i \in 1 .. Len(es)}
    BY <1>0, <2>1, <2>2
  <2>4. acked' \subseteq published'
    BY <1>0 DEF StoreInv, ChainIsPublished
  <2> QED BY <1>0, <1>1, <1>2, <1>3, <2>3, <2>4 DEF ChainIsPublished
<1>5. SnapshotsFold'
  BY <1>0 DEF StoreInv, SnapshotsFold
<1>6. PastIsKept
  BY <1>0, <1>1, <1>3 DEF PastIsKept, StoreInv, ChainIsPublished
<1>7. SightIsKept
  BY <1>0 DEF SightIsKept
<1> QED BY <1>4, <1>5, <1>6, <1>7 DEF FilesStaySound

\* Other changes leave the log and the head, or tear a head that was missing.
LEMMA OtherwiseSound ==
  ASSUME LockInv, StoreInv, FileTypes', acked' \subseteq acked \cup published',
         Tears \/ Keeps \/ \E r \in Revs, s \in SnapFile : Snaps(r, s)
  PROVE  FilesStaySound
<1>1. /\ log'.entries = log.entries /\ UNCHANGED published
      /\ \/ UNCHANGED head
         \/ head.state = "absent" /\ head'.state = "torn"
  <2>1. CASE Tears
    BY <2>1 DEF Tears, TornHead
  <2>2. CASE Keeps
    BY <2>2 DEF Keeps
  <2>3. CASE \E r \in Revs, s \in SnapFile : Snaps(r, s)
    BY <2>3 DEF Snaps
  <2> QED BY <2>1, <2>2, <2>3
<1>2. ChainIsPublished'
  BY <1>1 DEF StoreInv, ChainIsPublished
<1>3. SnapshotsFold'
  <2>1. CASE UNCHANGED snaps
    BY <1>1, <2>1 DEF StoreInv, SnapshotsFold
  <2>2. ASSUME NEW r \in Revs, NEW s \in SnapFile, Snaps(r, s) PROVE SnapshotsFold'
    <3>1. snaps' = [snaps EXCEPT ![r] = s] /\ snaps \in [Revs -> SnapFile]
      BY <2>2 DEF Snaps, StoreInv, HistoryTypes
    <3>2. s.state = "whole" => \A i \in 1 .. Len(log.entries) :
              log.entries[i].rev = r => s = SnapOf(Prefix(log.entries, i))
      BY <2>2 DEF Snaps
    <3> SUFFICES ASSUME NEW i \in 1 .. Len(log.entries), snaps'[log.entries[i].rev].state = "whole"
                 PROVE  snaps'[log.entries[i].rev] = SnapOf(Prefix(log.entries, i))
      BY <1>1 DEF SnapshotsFold
    <3>3. CASE log.entries[i].rev = r
      BY <3>1, <3>2, <3>3
    <3>4. CASE log.entries[i].rev # r
      <4>1. snaps'[log.entries[i].rev] = snaps[log.entries[i].rev]
        BY <3>1, <3>4
      <4> QED BY <4>1 DEF StoreInv, SnapshotsFold
    <3> QED BY <3>3, <3>4
  <2> QED BY <2>1, <2>2 DEF Tears, Keeps
<1>4. PastIsKept
  BY <1>1 DEF PastIsKept, StoreInv, HistoryTypes, HeadFile, Entry
<1>5. SightIsKept
  BY <1>1 DEF SightIsKept
<1> QED BY <1>2, <1>3, <1>4, <1>5 DEF FilesStaySound

\* Each of the ways in which the files move keeps what is said about them.
LEMMA FilesMoveSoundly ==
  ASSUME LockInv, StoreInv, FileTypes', acked' \subseteq acked \cup published',
         NEW p \in Procs, FilesMove(p)
  PROVE  FilesStaySound
BY GrowingIsSound, CuttingIsSound, EmptyingIsSound, PublishingIsSound, OtherwiseSound DEF FilesMove

----------------------------------------------------------------------------
(* What each step does to the files *)

\* A step that writes is the lock holder's and changes the files in one of the
\* ways above.
Writes(p) ==
    /\ InCriticalSection(p) /\ pc[p] # "readLog"
    /\ FilesMove(p) /\ FileTypes'
    /\ acked \subseteq acked' /\ acked' \subseteq acked \cup published'

\* A step that leaves the files and the history alone
Quiet == UNCHANGED <<log, head, snaps, published, acked>>

\* Who is past the points of a reader holds the lock.
LEMMA HolderPoint ==
  ASSUME LockInv, StoreInv, NEW p \in Procs, pc[p] \in Holding \ ReadPoints
  PROVE  InCriticalSection(p)
BY DEF StoreInv, OperationsKeepToTheirPoints, AtItsPoint, InCriticalSection

\* The point a process is at tells which operations it can be performing.
LEMMA KindOfStep ==
  ASSUME LockInv, StoreInv, NEW p \in Procs
  PROVE  /\ op[p] \in AllOperations
         /\ pc[p] \in {"snapWrite", "logWrite", "inspect"} => op[p] \in {"import", "append"}
         /\ pc[p] \in {"headCheck", "headWrite"} => op[p] \in {"import", "append", "adopt"}
         /\ pc[p] \in {"validate", "logVerify", "truncate", "dropSnap", "logCheck"} => op[p] = "append"
         /\ pc[p] \in {"logInit", "rmFiles", "rmDir", "importCheck", "mkdir"} => op[p] = "import"
         /\ pc[p] \in {"rebuildCheck", "rebuildWrite"} => op[p] \in {"rebuild", "adopt"}
         /\ pc[p] = "headCreate" => op[p] = "adopt"
<1>1. op[p] \in AllOperations
  BY DEF LockInv, LockTypes
<1> QED BY <1>1
   DEF StoreInv, OperationsKeepToTheirPoints, AtItsPoint, ReadPoints, LockPoints, ImportPoints,
                    AppendPoints, RebuildPoints, AdoptPoints, Locking, AllOperations

\* The snapshot an import or append is about to write belongs to no logged entry.
LEMMA OwnSnapshot ==
  ASSUME LockInv, StoreInv, NEW p \in Procs, pc[p] = "snapWrite"
  PROVE  /\ entry[p].rev \in Revs /\ Append(view[p], entry[p]) \in Seq(Entry)
         /\ \A i \in 1 .. Len(log.entries) : log.entries[i].rev # entry[p].rev
<1>1. op[p] \in {"import", "append"} /\ InCriticalSection(p)
  BY KindOfStep, HolderPoint DEF Holding, ReadPoints
<1>2. entry[p].rev \in Revs /\ entry[p] \in Entry /\ view[p] \in Seq(Entry)
  BY <1>1 DEF StoreInv, EntriesAreNumbered, HistoryTypes
<1>3. CASE op[p] = "append"
  BY <1>1, <1>2, <1>3, AppendFacts
     DEF StoreInv, HolderKnows, Knows, HoldsTheLog, HoldsItsEntry, Continues, ReadPointsUnderLock
<1>4. CASE op[p] = "import"
  <2>1. log.entries = <<>>
    BY <1>4 DEF StoreInv, ImportIsAlone, Importing
  <2> QED BY <1>2, <2>1, AppendFacts
<1> QED BY <1>1, <1>3, <1>4

\* A written snapshot is a whole file.
LEMMA WholeSnap ==
  ASSUME NEW es \in Seq(Entry)
  PROVE  SnapOf(es) \in SnapFile /\ SnapOf(es).state = "whole"
BY DEF SnapOf, SnapFile, FileState

\* A removed snapshot is absent and a cut-off one torn.
LEMMA EmptySnaps == /\ NoSnap \in SnapFile /\ NoSnap.state = "absent"
                    /\ TornSnap \in SnapFile /\ TornSnap.state = "torn"
<1>1. <<>> \in Seq(Entry)
  OBVIOUS
<1> QED BY <1>1 DEF NoSnap, TornSnap, SnapFile, FileState

\* One snapshot file changes.
LEMMA SnapMoves ==
  ASSUME StoreInv, NEW p \in Procs, NEW r \in Revs, NEW s \in SnapFile,
         snaps' = [snaps EXCEPT ![r] = s],
         s.state = "whole" =>
             \A i \in 1 .. Len(log.entries) :
                 log.entries[i].rev = r => s = SnapOf(Prefix(log.entries, i)),
         UNCHANGED <<log, head, published>>
  PROVE  FilesMove(p) /\ FileTypes'
<1>1. Snaps(r, s)
  BY DEF Snaps
<1>2. FileTypes'
  BY DEF StoreInv, HistoryTypes, FileTypes
<1> QED BY <1>1, <1>2 DEF FilesMove

\* The snapshot of a new entry changes no logged snapshot.
LEMMA SnapWriteWrites ==
  ASSUME LockInv, StoreInv, NEW p \in Procs, SnapWrite(p)
  PROVE  Writes(p)
<1>0. pc[p] = "snapWrite" /\ UNCHANGED <<log, head, published, acked>>
  BY DEF SnapWrite, history, locals, EnvButIo
<1>1. InCriticalSection(p)
  BY <1>0, HolderPoint DEF Holding, ReadPoints
<1>2. /\ entry[p].rev \in Revs /\ Append(view[p], entry[p]) \in Seq(Entry)
      /\ \A i \in 1 .. Len(log.entries) : log.entries[i].rev # entry[p].rev
  BY <1>0, OwnSnapshot
<1>3. CASE UNCHANGED snaps
  <2>1. Keeps /\ FileTypes'
    BY <1>0, <1>3 DEF Keeps, FileTypes, StoreInv, HistoryTypes
  <2> QED BY <1>0, <1>1, <2>1 DEF Writes, FilesMove
<1>4. CASE snaps' = [snaps EXCEPT ![entry[p].rev] = SnapOf(Append(view[p], entry[p]))]
  <2>1. SnapOf(Append(view[p], entry[p])) \in SnapFile
    BY <1>2, WholeSnap
  <2>2. FilesMove(p) /\ FileTypes'
    BY <1>0, <1>2, <1>4, <2>1, SnapMoves
  <2> QED BY <1>0, <1>1, <2>2 DEF Writes
<1> QED BY <1>3, <1>4 DEF SnapWrite

\* Removing a snapshot makes no logged snapshot wrong.
LEMMA DropSnapWrites ==
  ASSUME LockInv, StoreInv, NEW p \in Procs, DropSnap(p)
  PROVE  Writes(p)
<1>0. pc[p] = "dropSnap" /\ UNCHANGED <<log, head, published, acked>>
  BY DEF DropSnap, history
<1>1. InCriticalSection(p) /\ op[p] = "append"
  BY <1>0, HolderPoint, KindOfStep DEF Holding, ReadPoints
<1>2. entry[p].rev \in Revs
  BY <1>1 DEF StoreInv, EntriesAreNumbered
<1>3. CASE UNCHANGED snaps
  <2>1. Keeps /\ FileTypes'
    BY <1>0, <1>3 DEF Keeps, FileTypes, StoreInv, HistoryTypes
  <2> QED BY <1>0, <1>1, <2>1 DEF Writes, FilesMove
<1>4. CASE snaps' = [snaps EXCEPT ![entry[p].rev] = NoSnap]
  <2>2. FilesMove(p) /\ FileTypes'
    BY <1>0, <1>2, <1>4, SnapMoves, EmptySnaps
  <2> QED BY <1>0, <1>1, <2>2 DEF Writes
<1> QED BY <1>3, <1>4 DEF DropSnap

\* A set of indices that is not empty has a smallest one.
LEMMA SmallestIndex ==
  ASSUME NEW S, S \subseteq Nat, S # {}
  PROVE  \E i \in S : \A j \in S : i <= j
<1>1. PICK i \in S : \A j \in S : ~(<<j, i>> \in OpToRel(<, Nat))
  BY NatLessThanWellFounded, WFMin
<1>2. \A j \in S : ~(j < i)
  BY <1>1 DEF OpToRel
<1> QED BY <1>2

\* The snapshot a rebuild writes next is one of the log it holds.
LEMMA NextMissingIsMissing ==
  ASSUME LockInv, StoreInv, NEW p \in Procs, pc[p] = "rebuildWrite"
  PROVE  /\ NextMissing(p) \in plan[p].missing
         /\ NextMissing(p) \in 1 .. Len(view[p])
         /\ view[p] = log.entries
         /\ view[p][NextMissing(p)].rev \in Revs
         /\ Prefix(view[p], NextMissing(p)) \in Seq(Entry)
<1>1. InCriticalSection(p) /\ op[p] \in {"rebuild", "adopt"}
  BY HolderPoint, KindOfStep DEF Holding, ReadPoints
<1>2. /\ plan[p].missing # {} /\ plan[p].missing \subseteq 1 .. Len(view[p])
      /\ view[p] = log.entries
  BY <1>1 DEF StoreInv, HolderKnows, Knows, HoldsTheSnapshots, HoldsTheLog, ReadPointsUnderLock
<1>3. view[p] \in Seq(Entry) /\ Len(view[p]) \in Nat
  BY LenProperties DEF StoreInv, HistoryTypes
<1>4. \A i \in plan[p].missing : i \in Nat
  BY <1>2, <1>3
<1>5. \E i \in plan[p].missing : \A j \in plan[p].missing : i <= j
  <2>1. plan[p].missing \subseteq Nat
    BY <1>4
  <2> QED BY <1>2, <2>1, SmallestIndex
<1>6. NextMissing(p) \in plan[p].missing
  BY <1>5 DEF NextMissing
<1>7. NextMissing(p) \in 1 .. Len(view[p]) /\ NextMissing(p) \in 0 .. Len(view[p])
  BY <1>2, <1>3, <1>6
<1>8. view[p][NextMissing(p)].rev \in Revs
  BY <1>2, <1>7 DEF StoreInv, ChainIsPublished, RevsDiffer
<1> QED BY <1>2, <1>3, <1>6, <1>7, <1>8, PrefixFacts

\* A change of the tail bytes alone keeps the lines.
LEMMA KeepingWrites ==
  ASSUME StoreInv, NEW p \in Procs, InCriticalSection(p), pc[p] # "readLog",
         log' \in LogFile, log'.entries = log.entries, UNCHANGED <<head, snaps, published, acked>>
  PROVE  Writes(p)
<1>1. Keeps /\ FileTypes'
  BY DEF Keeps, FileTypes, StoreInv, HistoryTypes
<1> QED BY <1>1 DEF Writes, FilesMove

\* A revision of the log belongs to one entry.
LEMMA OwnRevision ==
  ASSUME StoreInv, NEW i \in 1 .. Len(log.entries)
  PROVE  \A j \in 1 .. Len(log.entries) : log.entries[j].rev = log.entries[i].rev => j = i
BY DEF StoreInv, ChainIsPublished, RevsDiffer

\* A rebuild writes what the prefix of the log it holds folds to.
LEMMA RebuildWriteWrites ==
  ASSUME LockInv, StoreInv, NEW p \in Procs, RebuildWrite(p)
  PROVE  Writes(p)
<1> DEFINE i == NextMissing(p)
           r == view[p][i].rev
<1>0. pc[p] = "rebuildWrite" /\ UNCHANGED <<log, head, published, acked>>
  BY DEF RebuildWrite, history
<1>1. InCriticalSection(p)
  BY <1>0, HolderPoint DEF Holding, ReadPoints
<1>2. /\ i \in 1 .. Len(view[p]) /\ view[p] = log.entries /\ r \in Revs
      /\ Prefix(view[p], i) \in Seq(Entry)
  BY <1>0, NextMissingIsMissing
<1>3. UNCHANGED snaps \/ snaps' = [snaps EXCEPT ![r] = SnapOf(Prefix(view[p], i))]
  BY DEF RebuildWrite
<1>4. CASE UNCHANGED snaps
  BY <1>0, <1>1, <1>4, KeepingWrites DEF StoreInv, HistoryTypes
<1>5. CASE snaps' = [snaps EXCEPT ![r] = SnapOf(Prefix(view[p], i))]
  <2>1. SnapOf(Prefix(view[p], i)) \in SnapFile
    BY <1>2, WholeSnap
  <2>2. \A j \in 1 .. Len(log.entries) :
            log.entries[j].rev = r => SnapOf(Prefix(view[p], i)) = SnapOf(Prefix(log.entries, j))
    BY <1>2, OwnRevision
  <2> HIDE DEF r, i
  <2>3. FilesMove(p) /\ FileTypes'
    BY <1>0, <1>2, <1>5, <2>1, <2>2, SnapMoves
  <2> QED BY <1>0, <1>1, <2>3 DEF Writes
<1> QED BY <1>3, <1>4, <1>5

\* What append_json_line does to the lines.
LEMMA LinesAreTyped ==
  ASSUME NEW l \in LogFile, NEW e \in Entry
  PROVE  /\ AppendLine(l, e) \in LogFile
         /\ l.tail = "clean" => AppendLine(l, e).entries = Append(l.entries, e)
         /\ l.tail = "clean" => AppendLine(l, e).tail = "clean"
         /\ l.tail # "clean" => AppendLine(l, e).entries = l.entries
         /\ \A t \in TailState :
               [l EXCEPT !.tail = t] \in LogFile /\ [l EXCEPT !.tail = t].entries = l.entries
<1>1. l.entries \in Seq(Entry)
  BY DEF LogFile
<1>2. Append(l.entries, e) \in Seq(Entry)
  BY <1>1, AppendFacts
<1>3. \A t \in TailState :
          [l EXCEPT !.tail = t] \in LogFile /\ [l EXCEPT !.tail = t].entries = l.entries
  BY DEF LogFile
<1> QED BY <1>1, <1>2, <1>3 DEF AppendLine, LogFile, TailState

\* A line that is written completely is a move of the files.
LEMMA GrowingWrites ==
  ASSUME LockInv, StoreInv, NEW p \in Procs, InCriticalSection(p), pc[p] = "logWrite",
         log' \in LogFile, log'.entries = Append(log.entries, entry[p]),
         UNCHANGED <<head, snaps, published, acked>>
  PROVE  Writes(p)
<1>1. Grows(p) /\ FileTypes'
  BY DEF Grows, FileTypes, StoreInv, HistoryTypes
<1> QED BY <1>1 DEF Writes, FilesMove

\* append_json_line adds the line or leaves a damaged tail.
LEMMA LogWriteWrites ==
  ASSUME LockInv, StoreInv, NEW p \in Procs, LogWrite(p)
  PROVE  Writes(p)
<1>0. pc[p] = "logWrite" /\ UNCHANGED <<head, snaps, published, acked>>
  BY DEF LogWrite, history
<1>1. InCriticalSection(p)
  BY <1>0, HolderPoint DEF Holding, ReadPoints
<1>2. log \in LogFile /\ entry[p] \in Entry
  BY DEF StoreInv, HistoryTypes
<1>3. \/ log' = AppendLine(log, entry[p])
      \/ log' = log
      \/ log' = [log EXCEPT !.tail = "torn"]
  BY DEF LogWrite
<1>4. CASE log.tail = "clean" /\ log' = AppendLine(log, entry[p])
  BY <1>0, <1>1, <1>2, <1>4, LinesAreTyped, GrowingWrites
<1>5. CASE log.tail # "clean" /\ log' = AppendLine(log, entry[p])
  BY <1>0, <1>1, <1>2, <1>5, LinesAreTyped, KeepingWrites
<1>6. CASE log' = log
  BY <1>0, <1>1, <1>2, <1>6, KeepingWrites
<1>7. CASE log' = [log EXCEPT !.tail = "torn"]
  <2>1. log' \in LogFile /\ log'.entries = log.entries
    BY <1>2, <1>7, LinesAreTyped DEF TailState
  <2> QED BY <1>0, <1>1, <2>1, KeepingWrites
<1> QED BY <1>3, <1>4, <1>5, <1>6, <1>7

\* Cutting back to where an append began gives the log it read.
LEMMA CuttingBack ==
  ASSUME LockInv, StoreInv, NEW p \in Procs, pc[p] \in {"logVerify", "truncate"}
  PROVE  /\ InCriticalSection(p) /\ op[p] = "append"
         /\ log.entries \in {view[p], Append(view[p], entry[p])}
         /\ view[p] \in Seq(Entry)
         /\ Truncated(log, before[p]) \in LogFile
         /\ Truncated(log, before[p]).entries = view[p]
<1>1. InCriticalSection(p) /\ op[p] = "append"
  BY HolderPoint, KindOfStep DEF Holding, ReadPoints
<1>2. before[p].len = Len(view[p]) /\ log.entries \in {view[p], Append(view[p], entry[p])}
  BY <1>1 DEF StoreInv, HolderKnows, Knows, HoldsItsEntry
<1>3. view[p] \in Seq(Entry) /\ entry[p] \in Entry /\ Len(view[p]) \in Nat
      /\ before[p].tail \in TailState
  <2>1. view[p] \in Seq(Entry) /\ entry[p] \in Entry /\ before[p] \in [len : Nat, tail : TailState]
    BY DEF StoreInv, HistoryTypes
  <2> QED BY <2>1, LenProperties
<1>4. Len(log.entries) >= before[p].len /\ Prefix(log.entries, before[p].len) = view[p]
  <2>1. CASE log.entries = view[p]
    BY <1>2, <1>3, <2>1, PrefixWhole
  <2>2. CASE log.entries = Append(view[p], entry[p])
    <3>1. Prefix(log.entries, before[p].len) = Prefix(view[p], Len(view[p]))
      BY <1>2, <1>3, <2>2, PrefixOfAppend
    <3>2. Len(log.entries) = Len(view[p]) + 1
      BY <1>3, <2>2, AppendFacts
    <3> QED BY <1>2, <1>3, <3>1, <3>2, PrefixWhole
  <2> QED BY <1>2, <2>1, <2>2
<1> QED BY <1>1, <1>2, <1>3, <1>4 DEF Truncated, LogFile

\* Cutting the own line off again is a move of the files.
LEMMA CuttingWrites ==
  ASSUME LockInv, StoreInv, NEW p \in Procs, pc[p] \in {"logVerify", "truncate"},
         log' = log \/ log' = Truncated(log, before[p]), UNCHANGED <<head, snaps, published, acked>>
  PROVE  Writes(p)
<1>1. /\ InCriticalSection(p) /\ op[p] = "append"
      /\ log.entries \in {view[p], Append(view[p], entry[p])}
      /\ Truncated(log, before[p]) \in LogFile
      /\ Truncated(log, before[p]).entries = view[p]
  BY CuttingBack
<1>2. log \in LogFile
  BY DEF StoreInv, HistoryTypes
<1>3. CASE log'.entries = log.entries
  BY <1>1, <1>2, <1>3, KeepingWrites
<1>4. CASE log'.entries # log.entries
  <2>1. IsCut(p) /\ FileTypes'
    BY <1>1, <1>4 DEF IsCut, FileTypes, StoreInv, HistoryTypes
  <2> QED BY <1>1, <2>1 DEF Writes, FilesMove
<1> QED BY <1>3, <1>4

\* The rollbacks of an append cut off no more than the own line.
LEMMA LogVerifyWrites ==
  ASSUME LockInv, StoreInv, NEW p \in Procs, LogVerify(p) \/ Truncate(p)
  PROVE  Writes(p)
<1>1. /\ pc[p] \in {"logVerify", "truncate"} /\ UNCHANGED <<head, snaps, published, acked>>
      /\ log' = log \/ log' = Truncated(log, before[p])
  BY DEF LogVerify, Truncate, history
<1> QED BY <1>1, CuttingWrites

\* The head is only written for the tail of the log.
LEMMA NewHeadIsTail ==
  ASSUME LockInv, StoreInv, NEW p \in Procs, pc[p] \in {"headWrite", "headCreate"}
  PROVE  /\ InCriticalSection(p)
         /\ log.entries # <<>> /\ NewHeadEntry(p) = Last(log.entries)
         /\ NewHeadEntry(p) \in Entry
<1>1. InCriticalSection(p) /\ op[p] \in {"import", "append", "adopt"}
      /\ (pc[p] = "headCreate" => op[p] = "adopt")
  BY HolderPoint, KindOfStep DEF Holding, ReadPoints
<1>2. log.entries \in Seq(Entry) /\ entry[p] \in Entry /\ view[p] \in Seq(Entry)
  BY LogType DEF StoreInv, HistoryTypes, FileTypes
<1>3. log.entries # <<>> /\ NewHeadEntry(p) = Last(log.entries)
  <2>1. CASE op[p] = "adopt"
    BY <1>1, <2>1 DEF StoreInv, HolderKnows, Knows, HoldsTheLog, NewHeadEntry
  <2>2. CASE op[p] = "append"
    <3>1. log.entries = Append(view[p], entry[p])
      BY <1>1, <2>2 DEF StoreInv, HolderKnows, Knows, HoldsItsEntry
    <3> QED BY <1>2, <2>2, <3>1, AppendFacts DEF NewHeadEntry
  <2>3. CASE op[p] = "import"
    <3>1. log.entries = <<entry[p]>>
      BY <1>1, <2>3 DEF StoreInv, HolderKnows, Knows, HoldsItsEntry
    <3> QED BY <2>3, <3>1 DEF NewHeadEntry, Last
  <2> QED BY <1>1, <2>1, <2>2, <2>3
<1> QED BY <1>1, <1>2, <1>3, NonEmptyFacts

\* Writing the head publishes the tail; the success it reports is of a published entry.
LEMMA HeadWriteWrites ==
  ASSUME LockInv, StoreInv, NEW p \in Procs, HeadWrite(p) \/ HeadCreate(p)
  PROVE  Writes(p)
<1>0. pc[p] \in {"headWrite", "headCreate"} /\ UNCHANGED <<log, snaps>>
  BY DEF HeadWrite, HeadCreate
<1>1. /\ InCriticalSection(p) /\ log.entries # <<>>
      /\ NewHeadEntry(p) = Last(log.entries) /\ NewHeadEntry(p) \in Entry
  BY <1>0, NewHeadIsTail
<1>2. \/ UNCHANGED <<head, published, acked>>
      \/ /\ head' = HeadOf(NewHeadEntry(p))
         /\ published' = published \cup {NewHeadEntry(p).h}
         /\ \/ acked' = acked
            \/ op[p] \in {"import", "append"} /\ acked' = acked \cup {entry[p].h}
  <2>1. CASE HeadWrite(p)
    BY <2>1 DEF HeadWrite, Succeed
  <2>2. CASE HeadCreate(p)
    BY <2>2 DEF HeadCreate, Succeed, history
  <2> QED BY <2>1, <2>2
<1>3. CASE UNCHANGED <<head, published, acked>>
  BY <1>0, <1>1, <1>3, KeepingWrites DEF StoreInv, HistoryTypes
<1>4. CASE /\ head' = HeadOf(NewHeadEntry(p))
           /\ published' = published \cup {NewHeadEntry(p).h}
           /\ \/ acked' = acked
              \/ op[p] \in {"import", "append"} /\ acked' = acked \cup {entry[p].h}
  <2>1. Publishes
    BY <1>0, <1>1, <1>4 DEF Publishes
  <2>2. FileTypes'
    BY <1>0, <1>1, <1>4 DEF FileTypes, StoreInv, HistoryTypes, HeadOf, HeadFile, FileState
  <2>3. acked \subseteq acked' /\ acked' \subseteq acked \cup published'
    BY <1>4 DEF NewHeadEntry
  <2> QED BY <1>0, <1>1, <2>1, <2>2, <2>3 DEF Writes, FilesMove
<1> QED BY <1>2, <1>3, <1>4

\* The success that follows an inspection is of a published entry.
LEMMA InspectWrites ==
  ASSUME LockInv, StoreInv, NEW p \in Procs, Inspect(p)
  PROVE  Writes(p)
<1>0. pc[p] = "inspect" /\ UNCHANGED <<log, head, snaps, published>>
  BY DEF Inspect, disk
<1>1. InCriticalSection(p)
  BY <1>0, HolderPoint DEF Holding, ReadPoints
<1>2. entry[p].h \in published
  BY <1>0, <1>1 DEF StoreInv, HolderKnows, Knows, HoldsItsEntry
<1>3. acked \subseteq acked' /\ acked' \subseteq acked \cup published'
  BY <1>0, <1>2 DEF Inspect, Succeed
<1>4. Keeps /\ FileTypes'
  BY <1>0 DEF Keeps, FileTypes, StoreInv, HistoryTypes
<1> QED BY <1>0, <1>1, <1>3, <1>4 DEF Writes, FilesMove

\* An import empties the case only while nothing in it is published.
LEMMA ImportWrites ==
  ASSUME LockInv, StoreInv, NEW p \in Procs, LogInit(p) \/ RmFiles(p)
  PROVE  Writes(p)
<1>0. pc[p] \in {"logInit", "rmFiles"} /\ UNCHANGED <<published, acked>>
  BY DEF LogInit, RmFiles, history
<1>1. InCriticalSection(p) /\ op[p] = "import"
  BY <1>0, HolderPoint, KindOfStep DEF Holding, ReadPoints
<1>2. Importing(p) /\ head.state = "absent"
  BY <1>0, <1>1 DEF Importing, StoreInv, ImportIsAlone
<1>3. CASE UNCHANGED <<log, head, snaps>>
  BY <1>0, <1>1, <1>3, KeepingWrites DEF StoreInv, HistoryTypes
<1>4. CASE log' = [entries |-> <<>>, tail |-> "clean"] /\ UNCHANGED <<head, snaps>>
  <2>1. IsEmptied(p)
    BY <1>0, <1>2, <1>4 DEF IsEmptied
  <2>2. <<>> \in Seq(Entry)
    OBVIOUS
  <2>3. FileTypes'
    BY <1>4, <2>2 DEF FileTypes, StoreInv, HistoryTypes, LogFile, TailState
  <2> QED BY <1>0, <1>1, <2>1, <2>3 DEF Writes, FilesMove
<1>5. CASE log' = NoLog /\ head' = NoHead /\ snaps' = [r \in Revs |-> NoSnap]
  <2>1. IsEmptied(p)
    BY <1>0, <1>2, <1>5 DEF IsEmptied, NoLog, NoHead
  <2>2. <<>> \in Seq(Entry)
    OBVIOUS
  <2>3. log' \in LogFile
    BY <1>5, <2>2 DEF LogFile, NoLog, TailState
  <2>4. NoEntry \in Entry
    BY ConstantsAssumption DEF NoEntry, Entry, Hash
  <2>5. head' \in HeadFile
    BY <1>5, <2>4 DEF HeadFile, NoHead, FileState
  <2>6. snaps' \in [Revs -> SnapFile]
    BY <1>5, EmptySnaps
  <2> QED BY <1>0, <1>1, <2>1, <2>3, <2>5, <2>6 DEF Writes, FilesMove, FileTypes
<1>6. CASE LogInit(p)
  BY <1>3, <1>4, <1>6 DEF LogInit
<1>7. CASE RmFiles(p)
  BY <1>3, <1>5, <1>7 DEF RmFiles, files
<1> QED BY <1>6, <1>7

\* A process killed inside a write leaves a torn file or a whole line.
LEMMA CrashInWriteWrites ==
  ASSUME LockInv, StoreInv, NEW p \in Procs, CrashInWrite(p)
  PROVE  Writes(p)
<1>0. pc[p] \in {"snapWrite", "rebuildWrite", "logWrite", "headCreate"}
      /\ UNCHANGED <<published, acked>>
  BY DEF CrashInWrite, Crashes, history
<1>1. InCriticalSection(p)
  BY <1>0, HolderPoint DEF Holding, ReadPoints
<1>2. ASSUME NEW r \in Revs, snaps' = [snaps EXCEPT ![r] = TornSnap], UNCHANGED <<log, head>>
      PROVE  Writes(p)
  <2>1. FilesMove(p) /\ FileTypes'
    BY <1>0, <1>2, SnapMoves, EmptySnaps
  <2> QED BY <1>0, <1>1, <2>1 DEF Writes
<1>3. CASE pc[p] = "snapWrite"
  <2>1. entry[p].rev \in Revs
    BY <1>3, OwnSnapshot
  <2>2. snaps' = [snaps EXCEPT ![entry[p].rev] = TornSnap] /\ UNCHANGED <<log, head>>
    BY <1>3 DEF CrashInWrite
  <2> QED BY <1>2, <2>1, <2>2
<1>4. CASE pc[p] = "rebuildWrite"
  <2>1. view[p][NextMissing(p)].rev \in Revs
    BY <1>4, NextMissingIsMissing
  <2>2. /\ snaps' = [snaps EXCEPT ![view[p][NextMissing(p)].rev] = TornSnap]
        /\ UNCHANGED <<log, head>>
    BY <1>4 DEF CrashInWrite
  <2> QED BY <1>2, <2>1, <2>2
<1>5. CASE pc[p] = "logWrite"
  <2>1. log \in LogFile /\ entry[p] \in Entry
    BY DEF StoreInv, HistoryTypes
  <2>2. /\ UNCHANGED <<head, snaps>>
        /\ \/ log' = [log EXCEPT !.tail = "torn"]
           \/ log' = [AppendLine(log, entry[p]) EXCEPT
                         !.tail = IF @ = "clean" THEN "noNewline" ELSE @]
    BY <1>5 DEF CrashInWrite
  <2>3. CASE log' = [log EXCEPT !.tail = "torn"]
    <3>1. log' \in LogFile /\ log'.entries = log.entries
      BY <2>1, <2>3, LinesAreTyped DEF TailState
    <3> QED BY <1>0, <1>1, <1>5, <2>2, <3>1, KeepingWrites
  <2>4. CASE log' = [AppendLine(log, entry[p]) EXCEPT
                        !.tail = IF @ = "clean" THEN "noNewline" ELSE @]
    <3> DEFINE l == AppendLine(log, entry[p])
               t == IF l.tail = "clean" THEN "noNewline" ELSE l.tail
    <3>1. l \in LogFile
      BY <2>1, LinesAreTyped
    <3>2. t \in TailState
      BY <3>1 DEF LogFile, TailState
    <3>3. log' = [l EXCEPT !.tail = t]
      BY <2>4
    <3>4. \/ l.entries = Append(log.entries, entry[p])
          \/ l.entries = log.entries
      BY <2>1, LinesAreTyped
    <3> HIDE DEF l, t
    <3>5. log' \in LogFile /\ log'.entries = l.entries
      BY <2>1, <3>1, <3>2, <3>3, LinesAreTyped
    <3>6. CASE l.entries = log.entries
      BY <1>0, <1>1, <1>5, <2>2, <3>5, <3>6, KeepingWrites
    <3>7. CASE l.entries = Append(log.entries, entry[p])
      BY <1>0, <1>1, <1>5, <2>2, <3>5, <3>7, GrowingWrites
    <3> QED BY <3>4, <3>6, <3>7
  <2> QED BY <2>2, <2>3, <2>4
<1>6. CASE pc[p] = "headCreate"
  <2>1. head.state = "absent" /\ head' = TornHead /\ UNCHANGED <<log, snaps>>
    BY <1>6 DEF CrashInWrite
  <2>2. NoEntry \in Entry
    BY ConstantsAssumption DEF NoEntry, Entry, Hash
  <2>3. FileTypes'
    BY <2>1, <2>2 DEF FileTypes, StoreInv, HistoryTypes, TornHead, HeadFile, FileState
  <2>4. Tears
    BY <1>0, <2>1 DEF Tears
  <2> QED BY <1>0, <1>1, <2>3, <2>4 DEF Writes, FilesMove
<1> QED BY <1>0, <1>3, <1>4, <1>5, <1>6

\* The steps that leave the files alone
QuietStep(p) ==
    \/ LockStep(p) \/ ReadLog(p) \/ ReadHead(p) \/ ReadSnaps(p)
    \/ ValidateAppend(p) \/ SnapCheck(p) \/ LogCheck(p) \/ HeadCheck(p) \/ ImportCheck(p)
    \/ RmDir(p) \/ RebuildCheck(p) \/ Crash(p)

\* Locking, reading and checking change no file.
LEMMA QuietStepsAreQuiet ==
  ASSUME NEW p \in Procs, QuietStep(p)
  PROVE  Quiet
<1> USE DEF disk, files, history, Quiet
<1>1. CASE LockStep(p)
  BY <1>1 DEF LockStep, Mkdir, Acquire, LockWrite, ReadBack, Unlock, Unlink
<1>2. CASE ReadLog(p) \/ ReadHead(p) \/ ReadSnaps(p)
  BY <1>2 DEF ReadLog, ReadHead, ReadSnaps
<1>3. CASE ValidateAppend(p) \/ RmDir(p)
  BY <1>3 DEF ValidateAppend, RmDir
<1>4. CASE SnapCheck(p) \/ LogCheck(p) \/ HeadCheck(p) \/ ImportCheck(p) \/ RebuildCheck(p)
  BY <1>4 DEF SnapCheck, LogCheck, HeadCheck, ImportCheck, RebuildCheck, StillOwned
<1>5. CASE Crash(p)
  BY <1>5 DEF Crash, Crashes
<1> QED BY <1>1, <1>2, <1>3, <1>4, <1>5 DEF QuietStep

\* A step of a running process, its death included
ProcStep(p) == Step(p) \/ Crash(p) \/ CrashInWrite(p)

\* Whatever a step does to the files, the lock holder does it.
LEMMA StepsWriteUnderLock ==
  ASSUME LockInv, StoreInv, NEW p \in Procs, ProcStep(p)
  PROVE  Quiet \/ Writes(p)
<1>1. CASE QuietStep(p)
  BY <1>1, QuietStepsAreQuiet
<1>2. CASE SnapWrite(p) \/ DropSnap(p) \/ RebuildWrite(p)
  BY <1>2, SnapWriteWrites, DropSnapWrites, RebuildWriteWrites
<1>3. CASE LogWrite(p) \/ LogVerify(p) \/ Truncate(p)
  BY <1>3, LogWriteWrites, LogVerifyWrites
<1>4. CASE HeadWrite(p) \/ HeadCreate(p) \/ Inspect(p)
  BY <1>4, HeadWriteWrites, InspectWrites
<1>5. CASE LogInit(p) \/ RmFiles(p) \/ CrashInWrite(p)
  BY <1>5, ImportWrites, CrashInWriteWrites
<1> QED BY <1>1, <1>2, <1>3, <1>4, <1>5
        DEF ProcStep, Step, ReadStep, WriteStep, ImportStep, RebuildStep, QuietStep

\* Every step of a process keeps what is said about the files.
LEMMA FilesAfterStep ==
  ASSUME LockInv, StoreInv, NEW p \in Procs, ProcStep(p)
  PROVE  /\ FilesStaySound /\ FileTypes'
         /\ acked \subseteq acked' /\ acked' \subseteq acked \cup published'
<1>1. CASE Quiet
  <2>1. Keeps /\ FileTypes'
    BY <1>1 DEF Quiet, Keeps, FileTypes, StoreInv, HistoryTypes
  <2> QED BY <1>1, <2>1, FilesMoveSoundly DEF FilesMove, Quiet
<1>2. CASE Writes(p)
  BY <1>2, FilesMoveSoundly DEF Writes
<1> QED BY <1>1, <1>2, StepsWriteUnderLock

----------------------------------------------------------------------------
(* What a step leaves to the other processes *)

\* A step keeps every operation's identity and moves one process only.
Frame(p) ==
    /\ UNCHANGED <<op, tok, entry, floor, started>>
    /\ \A q \in Procs \ {p} :
          /\ pc'[q] = pc[q] /\ view'[q] = view[q] /\ before'[q] = before[q]
          /\ plan'[q] = plan[q] /\ result'[q] = result[q]

\* The types of what the processes hold
LocalTypes ==
    /\ view \in [Procs -> Seq(Entry)]
    /\ before \in [Procs -> [len : Nat, tail : TailState]]
    /\ plan \in [Procs -> [missing : SUBSET Nat, head : {"keep", "create", "repair"}]]
    /\ result \in [Procs -> Results]

\* The verdicts of validate_append
Verdicts == {"stale", "sequence", "invalid", "integrity", "accept"}

\* validate_append gives one of its verdicts.
LEMMA VerdictIsOne ==
  ASSUME NEW p \in Procs
  PROVE  AppendVerdict(p) \in Verdicts
BY DEF AppendVerdict, Verdicts

\* Steps that only move the control leave the other operations alone.
LEMMA ControlFrame ==
  ASSUME pc \in [Procs -> PC], LocalTypes, NEW p \in Procs,
         QuietStep(p) \/ SnapWrite(p) \/ DropSnap(p) \/ LogVerify(p) \/ Truncate(p)
         \/ HeadWrite(p) \/ HeadCreate(p) \/ Inspect(p) \/ LogInit(p) \/ RmFiles(p)
         \/ CrashInWrite(p),
         ~ReadLog(p), ~ReadHead(p), ~ReadSnaps(p)
  PROVE  Frame(p) /\ UNCHANGED <<view, before, plan>> /\ result' \in [Procs -> Results]
<1> USE DEF disk, files, history, locals, env, EnvButIo, Goto, Return, Frame, LocalTypes
<1>1. CASE LockStep(p)
  BY <1>1 DEF LockStep, Mkdir, Acquire, LockWrite, ReadBack, Unlock, Unlink, Results
<1>2. CASE ValidateAppend(p)
  <2>1. PICK v \in Verdicts : AppendVerdict(p) = v
    BY VerdictIsOne
  <2>2. result' \in [Procs -> Results]
    BY <1>2, <2>1 DEF ValidateAppend, Verdicts, Results
  <2> QED BY <1>2, <2>2 DEF ValidateAppend
<1>3. CASE SnapCheck(p) \/ LogCheck(p) \/ HeadCheck(p) \/ ImportCheck(p) \/ RebuildCheck(p)
  BY <1>3 DEF SnapCheck, LogCheck, HeadCheck, ImportCheck, RebuildCheck, StillOwned, Results
<1>4. CASE Crash(p) \/ CrashInWrite(p)
  BY <1>4 DEF Crash, CrashInWrite, Crashes, Results
<1>5. CASE RmDir(p) \/ RmFiles(p) \/ LogInit(p)
  BY <1>5 DEF RmDir, RmFiles, LogInit, Results
<1>6. CASE SnapWrite(p) \/ DropSnap(p)
  BY <1>6 DEF SnapWrite, DropSnap, Results
<1>7. CASE LogVerify(p)
  BY <1>7 DEF LogVerify, Results
<1>8. CASE Truncate(p)
  BY <1>8 DEF Truncate, Results
<1>9. CASE HeadWrite(p)
  BY <1>9 DEF HeadWrite, Succeed, Results
<1>10. CASE HeadCreate(p)
  BY <1>10 DEF HeadCreate, Succeed, Results
<1>11. CASE Inspect(p)
  BY <1>11 DEF Inspect, Succeed, Results
<1> QED BY <1>1, <1>2, <1>3, <1>4, <1>5, <1>6, <1>7, <1>8, <1>9, <1>10, <1>11 DEF QuietStep

\* Steps that read leave the other operations alone.
LEMMA ReadingFrame ==
  ASSUME pc \in [Procs -> PC], LocalTypes, log.entries \in Seq(Entry), NEW p \in Procs,
         ReadLog(p) \/ ReadHead(p) \/ ReadSnaps(p)
  PROVE  Frame(p) /\ LocalTypes'
<1> USE DEF disk, files, history, locals, env, EnvButIo, Goto, Return, Frame
<1>1. CASE ReadLog(p)
  <2>1. Frame(p)
    BY <1>1 DEF ReadLog, LocalTypes
  <2>2. view' \in [Procs -> Seq(Entry)] /\ UNCHANGED <<before, plan>>
    BY <1>1 DEF ReadLog, LocalTypes
  <2>3. result' \in [Procs -> Results]
    BY <1>1 DEF ReadLog, LocalTypes, Results
  <2> QED BY <2>1, <2>2, <2>3 DEF LocalTypes
<1>2. CASE ReadHead(p)
  <2>1. Frame(p)
    BY <1>2 DEF ReadHead, LocalTypes
  <2>2. UNCHANGED <<view, before>> /\ result' \in [Procs -> Results]
    BY <1>2 DEF ReadHead, LocalTypes, Results
  <2>3. HeadPlan(p) \in {"keep", "create", "repair", "refuse"}
    BY DEF HeadPlan
  <2>4. plan' = plan \/ (plan' = [plan EXCEPT ![p].head = HeadPlan(p)] /\ HeadPlan(p) # "refuse")
    BY <1>2 DEF ReadHead
  <2> HIDE DEF HeadPlan
  <2>5. plan' \in [Procs -> [missing : SUBSET Nat, head : {"keep", "create", "repair"}]]
    BY <2>3, <2>4 DEF LocalTypes
  <2> QED BY <2>1, <2>2, <2>5 DEF LocalTypes
<1>3. CASE ReadSnaps(p)
  <2>1. Frame(p)
    BY <1>3 DEF ReadSnaps, LocalTypes
  <2>2. UNCHANGED <<view, before>> /\ result' \in [Procs -> Results]
    BY <1>3 DEF ReadSnaps, LocalTypes, Results
  <2>3. plan' = plan \/ plan' = [plan EXCEPT ![p].missing = MissingSnaps(view[p], snaps)]
    BY <1>3 DEF ReadSnaps
  <2>4. Len(view[p]) \in Nat
    BY LenProperties DEF LocalTypes
  <2>5. MissingSnaps(view[p], snaps) \subseteq Nat
    BY <2>4 DEF MissingSnaps
  <2>6. plan' \in [Procs -> [missing : SUBSET Nat, head : {"keep", "create", "repair"}]]
    BY <2>3, <2>5 DEF LocalTypes
  <2> QED BY <2>1, <2>2, <2>6 DEF LocalTypes
<1> QED BY <1>1, <1>2, <1>3

\* Every step of a process leaves the other operations alone.
LEMMA StepFrame ==
  ASSUME LockInv, StoreInv, NEW p \in Procs, ProcStep(p)
  PROVE  Frame(p) /\ LocalTypes'
<1>1. pc \in [Procs -> PC] /\ LocalTypes /\ log \in LogFile
  BY DEF LockInv, LockTypes, StoreInv, HistoryTypes, LocalTypes
<1>2. log.entries \in Seq(Entry) /\ Len(log.entries) \in Nat /\ log.tail \in TailState
  BY <1>1, LenProperties DEF LogFile
<1>3. CASE ReadLog(p) \/ ReadHead(p) \/ ReadSnaps(p)
  BY <1>1, <1>2, <1>3, ReadingFrame
<1>4. CASE LogWrite(p)
  <2>1. Frame(p) /\ UNCHANGED <<view, plan>>
    BY <1>1, <1>4 DEF LogWrite, Frame, Goto, Return, LocalTypes, EnvButIo
  <2>2. before' \in [Procs -> [len : Nat, tail : TailState]]
    BY <1>1, <1>2, <1>4 DEF LogWrite, LocalTypes
  <2>3. result' \in [Procs -> Results]
    BY <1>1, <1>4 DEF LogWrite, LocalTypes, Goto, Return, Results
  <2> QED BY <1>1, <2>1, <2>2, <2>3 DEF LocalTypes
<1>5. CASE RebuildWrite(p)
  <2>1. Frame(p) /\ UNCHANGED <<view, before>>
    BY <1>1, <1>5 DEF RebuildWrite, Frame, Goto, Return, LocalTypes, EnvButIo
  <2>2. result' \in [Procs -> Results]
    BY <1>1, <1>5 DEF RebuildWrite, LocalTypes, Goto, Return, Results
  <2>3. \/ plan' = plan
        \/ plan' = [plan EXCEPT ![p].missing = plan[p].missing \ {NextMissing(p)}]
    BY <1>5 DEF RebuildWrite
  <2>4. PICK m \in SUBSET Nat : m = plan[p].missing \ {NextMissing(p)}
    BY <1>1 DEF LocalTypes
  <2>5. plan' \in [Procs -> [missing : SUBSET Nat, head : {"keep", "create", "repair"}]]
    BY <1>1, <2>3, <2>4 DEF LocalTypes
  <2> QED BY <1>1, <2>1, <2>2, <2>5 DEF LocalTypes
<1>6. ASSUME ~ReadLog(p), ~ReadHead(p), ~ReadSnaps(p), ~LogWrite(p), ~RebuildWrite(p)
      PROVE  Frame(p) /\ LocalTypes'
  <2>1. QuietStep(p) \/ SnapWrite(p) \/ DropSnap(p) \/ LogVerify(p) \/ Truncate(p)
         \/ HeadWrite(p) \/ HeadCreate(p) \/ Inspect(p) \/ LogInit(p) \/ RmFiles(p)
         \/ CrashInWrite(p)
    BY <1>6 DEF ProcStep, Step, ReadStep, WriteStep, ImportStep, RebuildStep, QuietStep
  <2>2. Frame(p) /\ UNCHANGED <<view, before, plan>> /\ result' \in [Procs -> Results]
    BY <1>1, <1>6, <2>1, ControlFrame
  <2> QED BY <1>1, <2>2 DEF LocalTypes
<1> QED BY <1>3, <1>4, <1>5, <1>6

\* Each step leads to a point of the same operation.
LEMMA PointsStep ==
  ASSUME LockInv, StoreInv, NEW p \in Procs, ProcStep(p)
  PROVE  OperationsKeepToTheirPoints'
<1>0. /\ Frame(p) /\ pc \in [Procs -> PC] /\ AtItsPoint(p)
      /\ plan \in [Procs -> [missing : SUBSET Nat, head : {"keep", "create", "repair"}]]
      /\ op[p] \in AllOperations
  BY StepFrame DEF StoreInv, HistoryTypes, OperationsKeepToTheirPoints, LockInv, LockTypes
<1> SUFFICES AtItsPoint(p)'
  BY <1>0 DEF StoreInv, OperationsKeepToTheirPoints, AtItsPoint, Frame
<1>00. op'[p] = op[p]
  BY <1>0 DEF Frame
<1>k. /\ pc[p] \in {"snapWrite", "logWrite", "inspect"} => op[p] \in {"import", "append"}
      /\ pc[p] \in {"headCheck", "headWrite"} => op[p] \in {"import", "append", "adopt"}
      /\ pc[p] \in {"validate", "logVerify", "truncate", "dropSnap", "logCheck"} => op[p] = "append"
      /\ pc[p] \in {"logInit", "rmFiles", "rmDir", "importCheck", "mkdir"} => op[p] = "import"
      /\ pc[p] \in {"rebuildCheck", "rebuildWrite"} => op[p] \in {"rebuild", "adopt"}
      /\ pc[p] = "headCreate" => op[p] = "adopt"
  BY KindOfStep
<1> DEFINE Fits(l) ==
             /\ op[p] = "read" => l \in ReadPoints
             /\ op[p] = "import" => l \in ImportPoints
             /\ op[p] = "append" => l \in AppendPoints
             /\ op[p] = "rebuild" => l \in RebuildPoints
             /\ op[p] = "adopt" => l \in AdoptPoints
<1> USE DEF ReadPoints, LockPoints, ImportPoints, AppendPoints, RebuildPoints, AdoptPoints, Locking
<1>1. ASSUME NEW l, Fits(l), pc' = [pc EXCEPT ![p] = l],
             op[p] # "adopt" => plan'[p].head = plan[p].head
      PROVE  AtItsPoint(p)'
  BY <1>0, <1>00, <1>1 DEF AtItsPoint
<1>2. ASSUME UNCHANGED plan, \E l : Fits(l) /\ pc' = [pc EXCEPT ![p] = l]
      PROVE  AtItsPoint(p)'
  BY <1>1, <1>2
<1>3. CASE LockStep(p)
  <2>1. UNCHANGED plan
    BY <1>3 DEF LockStep, Mkdir, Acquire, LockWrite, ReadBack, Unlock, Unlink, locals
  <2>2. \E l : Fits(l) /\ pc' = [pc EXCEPT ![p] = l]
    BY <1>0, <1>k, <1>3
       DEF LockStep, Mkdir, Acquire, LockWrite, ReadBack, AfterLock, Unlock, Unlink, Goto, Return,
           AtItsPoint, AllOperations
  <2> QED BY <1>2, <2>1, <2>2
<1>4. CASE ReadLog(p)
  <2>1. UNCHANGED plan /\ pc[p] = "readLog"
    BY <1>4 DEF ReadLog
  <2>2. \E l \in {"readHead", Exit(p)} : pc' = [pc EXCEPT ![p] = l]
    BY <1>4 DEF ReadLog, Goto, Return
  <2>3. Fits("readHead") /\ Fits(Exit(p))
    BY <1>0, <2>1 DEF Exit, AtItsPoint
  <2> QED BY <1>2, <2>1, <2>2, <2>3
<1>5. CASE ReadHead(p)
  <2>1. pc[p] = "readHead"
    BY <1>5 DEF ReadHead
  <2>2. \E l \in {"readSnaps", Exit(p)} : pc' = [pc EXCEPT ![p] = l]
    BY <1>5 DEF ReadHead, Goto, Return
  <2>3. Fits("readSnaps") /\ Fits(Exit(p))
    BY <1>0, <2>1 DEF Exit, AtItsPoint
  <2>4. plan' = plan \/ (plan' = [plan EXCEPT ![p].head = HeadPlan(p)]
                         /\ (HeadPlan(p) = "keep" \/ op[p] = "adopt"))
    BY <1>5 DEF ReadHead
  <2>5. op[p] # "adopt" => plan'[p].head = plan[p].head
    BY <1>0, <2>4 DEF AtItsPoint
  <2> QED BY <1>1, <2>2, <2>3, <2>5
<1>6. CASE ReadSnaps(p)
  <2>1. pc[p] = "readSnaps"
    BY <1>6 DEF ReadSnaps
  <2> DEFINE missing == MissingSnaps(view[p], snaps)
  <2>2. \/ pc' = [pc EXCEPT ![p] = AfterPlan(p, missing)] /\ op[p] \in {"rebuild", "adopt"}
        \/ pc' = [pc EXCEPT ![p] = "validate"] /\ op[p] = "append"
        \/ pc' = [pc EXCEPT ![p] = "idle"]
        \/ pc' = [pc EXCEPT ![p] = Exit(p)]
    BY <1>6 DEF ReadSnaps, Goto, Return
  <2>3. /\ op[p] \in {"rebuild", "adopt"} => Fits(AfterPlan(p, missing))
        /\ op[p] = "append" => Fits("validate")
        /\ Fits("idle") /\ Fits(Exit(p))
    BY <1>0, <2>1 DEF Exit, AfterPlan, AtItsPoint
  <2>4. plan' = plan \/ plan' = [plan EXCEPT ![p].missing = missing]
    BY <1>6 DEF ReadSnaps
  <2>5. plan'[p].head = plan[p].head
    BY <1>0, <2>4
  <2> QED BY <1>1, <2>2, <2>3, <2>5
<1>7. CASE SnapCheck(p) \/ LogCheck(p) \/ HeadCheck(p) \/ ImportCheck(p) \/ RebuildCheck(p)
  <2>1. UNCHANGED plan
    BY <1>7 DEF SnapCheck, LogCheck, HeadCheck, ImportCheck, RebuildCheck, StillOwned, locals
  <2>2. \E l : Fits(l) /\ pc' = [pc EXCEPT ![p] = l]
    <3>1. CASE SnapCheck(p)
      BY <1>0, <3>1 DEF SnapCheck, StillOwned, OnSnapError, Goto, Return, AtItsPoint
    <3>2. CASE LogCheck(p)
      BY <1>0, <1>k, <3>2 DEF LogCheck, StillOwned, OnLogError, Goto, Return, AtItsPoint
    <3>3. CASE HeadCheck(p)
      BY <1>0, <1>k, <3>3 DEF HeadCheck, StillOwned, OnHeadError, Goto, Return, AtItsPoint
    <3>4. CASE ImportCheck(p) \/ RebuildCheck(p)
      BY <1>0, <1>k, <3>4 DEF ImportCheck, RebuildCheck, StillOwned, Goto, Return, AtItsPoint
    <3> QED BY <1>7, <3>1, <3>2, <3>3, <3>4
  <2> QED BY <1>2, <2>1, <2>2
<1>8. CASE ValidateAppend(p) \/ SnapWrite(p) \/ DropSnap(p) \/ LogWrite(p)
  <2>1. UNCHANGED plan
    BY <1>8 DEF ValidateAppend, SnapWrite, DropSnap, LogWrite, locals
  <2>2. \E l : Fits(l) /\ pc' = [pc EXCEPT ![p] = l]
    <3>1. CASE ValidateAppend(p)
      BY <1>0, <1>k, <3>1 DEF ValidateAppend, Goto, Return, AtItsPoint
    <3>2. CASE SnapWrite(p)
      BY <1>0, <1>k, <3>2 DEF SnapWrite, OnSnapError, Goto, Return, AtItsPoint
    <3>3. CASE DropSnap(p)
      BY <1>0, <1>k, <3>3 DEF DropSnap, Goto, Return, AtItsPoint
    <3>4. CASE LogWrite(p)
      BY <1>0, <1>k, <3>4 DEF LogWrite, OnLogError, Goto, Return, AtItsPoint
    <3> QED BY <1>8, <3>1, <3>2, <3>3, <3>4
  <2> QED BY <1>2, <2>1, <2>2
<1>9. CASE LogVerify(p) \/ Truncate(p) \/ HeadWrite(p) \/ HeadCreate(p) \/ Inspect(p)
  <2>1. UNCHANGED plan
    BY <1>9 DEF LogVerify, Truncate, HeadWrite, HeadCreate, Inspect, locals
  <2>2. \E l : Fits(l) /\ pc' = [pc EXCEPT ![p] = l]
    <3>1. CASE LogVerify(p)
      BY <1>0, <1>k, <3>1 DEF LogVerify, OnLogError, Goto, Return, AtItsPoint
    <3>2. CASE Truncate(p)
      BY <1>0, <1>k, <3>2 DEF Truncate, OnLogError, Goto, Return, AtItsPoint
    <3>3. CASE HeadWrite(p)
      BY <1>0, <1>k, <3>3 DEF HeadWrite, Succeed, AfterHead, OnHeadError, Goto, Return, AtItsPoint
    <3>4. CASE HeadCreate(p)
      BY <1>0, <1>k, <3>4 DEF HeadCreate, Succeed, Goto, Return, AtItsPoint
    <3>5. CASE Inspect(p)
      BY <1>0, <1>k, <3>5 DEF Inspect, Succeed, Goto, Return, AtItsPoint
    <3> QED BY <1>9, <3>1, <3>2, <3>3, <3>4, <3>5
  <2> QED BY <1>2, <2>1, <2>2
<1>10. CASE LogInit(p) \/ RmFiles(p) \/ RmDir(p)
  <2>1. UNCHANGED plan
    BY <1>10 DEF LogInit, RmFiles, RmDir, locals
  <2>2. \E l : Fits(l) /\ pc' = [pc EXCEPT ![p] = l]
    BY <1>0, <1>k, <1>10 DEF LogInit, RmFiles, RmDir, Goto, Return, AtItsPoint
  <2> QED BY <1>2, <2>1, <2>2
<1>11. CASE RebuildWrite(p)
  <2>1. pc[p] = "rebuildWrite"
    BY <1>11 DEF RebuildWrite
  <2> DEFINE rest == plan[p].missing \ {NextMissing(p)}
  <2>2. pc' = [pc EXCEPT ![p] = AfterPlan(p, rest)] \/ pc' = [pc EXCEPT ![p] = "unlock"]
    BY <1>11 DEF RebuildWrite, Goto, Return
  <2>3. Fits(AfterPlan(p, rest)) /\ Fits("unlock")
    BY <1>0, <1>k, <2>1 DEF AfterPlan, AtItsPoint
  <2>4. plan' = plan \/ plan' = [plan EXCEPT ![p].missing = rest]
    BY <1>11 DEF RebuildWrite
  <2>5. plan'[p].head = plan[p].head
    BY <1>0, <2>4
  <2> QED BY <1>1, <2>2, <2>3, <2>5
<1>12. CASE Crash(p) \/ CrashInWrite(p)
  <2>1. UNCHANGED plan /\ pc' = [pc EXCEPT ![p] = "idle"]
    BY <1>12 DEF Crash, CrashInWrite, Crashes, locals, Goto, Return
  <2> QED BY <1>2, <2>1
<1> QED BY <1>3, <1>4, <1>5, <1>6, <1>7, <1>8, <1>9, <1>10, <1>11, <1>12
        DEF ProcStep, Step, ReadStep, WriteStep, ImportStep, RebuildStep

\* What a process newly sees is the log as it is.
LEMMA ViewStep ==
  ASSUME LockInv, StoreInv, NEW p \in Procs, ProcStep(p)
  PROVE  \/ view'[p] = view[p]
         \/ /\ view'[p] = log.entries /\ Readable(log) /\ Quiet
            /\ pc[p] = "readLog" /\ pc'[p] = "readHead"
<1>0. pc \in [Procs -> PC] /\ view \in [Procs -> Seq(Entry)]
  BY DEF LockInv, LockTypes, StoreInv, HistoryTypes
<1>1. CASE ReadLog(p)
  BY <1>0, <1>1, QuietStepsAreQuiet DEF ReadLog, QuietStep, Goto, Return
<1>2. CASE LockStep(p)
  BY <1>2 DEF LockStep, Mkdir, Acquire, LockWrite, ReadBack, Unlock, Unlink, locals
<1>3. CASE ReadHead(p) \/ ReadSnaps(p) \/ Inspect(p)
  BY <1>3 DEF ReadHead, ReadSnaps, Inspect, locals
<1>4. CASE WriteStep(p)
  BY <1>4 DEF WriteStep, ValidateAppend, SnapCheck, SnapWrite, LogCheck, LogWrite, LogVerify,
              HeadCheck, HeadWrite, HeadCreate, Truncate, DropSnap, StillOwned, locals
<1>5. CASE ImportStep(p) \/ RebuildStep(p)
  BY <1>5 DEF ImportStep, ImportCheck, LogInit, RmFiles, RmDir, RebuildStep, RebuildCheck,
              RebuildWrite, StillOwned, locals
<1>6. CASE Crash(p) \/ CrashInWrite(p)
  BY <1>6 DEF Crash, CrashInWrite, Crashes, locals
<1> QED BY <1>1, <1>2, <1>3, <1>4, <1>5, <1>6 DEF ProcStep, Step, ReadStep

\* The points from which an operation may still write its line
UnwrittenPoints == {"mkdir"} \cup Locking \cup {"readLog", "readHead", "readSnaps", "validate",
    "importCheck", "snapCheck", "snapWrite", "logInit", "logCheck", "logWrite"}

\* No way leads back to them, and an import begins with the directory.
NoWayBack(p) ==
    /\ Live(p)
    /\ op[p] \in {"import", "append"} /\ pc'[p] \in UnwrittenPoints
          => pc[p] \in UnwrittenPoints \ {"logWrite"}
    /\ pc[p] = "mkdir" => pc'[p] = "idle" \/ (pc'[p] = "acquire" /\ ~dir /\ dir')
    /\ Importing(p)' => Importing(p) \/ pc[p] = "mkdir"
    /\ pc[p] = "rmDir" => ~Importing(p)'
    /\ pc[p] \notin {"mkdir", "rmDir"} \/ pc'[p] = "idle" => dir' = dir

\* A step never returns to a point before the line is written.
LEMMA NoWayBackStep ==
  ASSUME LockInv, StoreInv, NEW p \in Procs, ProcStep(p)
  PROVE  NoWayBack(p) /\ dir' \in BOOLEAN
<1>0. /\ pc \in [Procs -> PC] /\ op'[p] = op[p] /\ op[p] \in AllOperations /\ dir \in BOOLEAN
  BY StepFrame DEF LockInv, LockTypes, Frame, StoreInv, HistoryTypes
<1>k. /\ pc[p] \in {"snapWrite", "logWrite", "inspect"} => op[p] \in {"import", "append"}
      /\ pc[p] \in {"headCheck", "headWrite"} => op[p] \in {"import", "append", "adopt"}
      /\ pc[p] \in {"validate", "logVerify", "truncate", "dropSnap", "logCheck"} => op[p] = "append"
      /\ pc[p] \in {"logInit", "rmFiles", "rmDir", "importCheck", "mkdir"} => op[p] = "import"
      /\ pc[p] \in {"rebuildCheck", "rebuildWrite"} => op[p] \in {"rebuild", "adopt"}
      /\ pc[p] = "headCreate" => op[p] = "adopt"
  BY KindOfStep
<1>p. op[p] = "import" => pc[p] \in ImportPoints
  BY DEF StoreInv, OperationsKeepToTheirPoints, AtItsPoint
<1> USE <1>0, <1>k, <1>p DEF NoWayBack, Live, UnwrittenPoints, Locking, Importing, Goto, Return, disk
<1>1. CASE Mkdir(p)
  BY <1>1 DEF Mkdir
<1>2. CASE Acquire(p) \/ LockWrite(p)
  BY <1>2 DEF Acquire, LockWrite
<1>3. CASE ReadBack(p)
  BY <1>3 DEF ReadBack, AfterLock
<1>4. CASE Unlock(p) \/ Unlink(p)
  BY <1>4 DEF Unlock, Unlink
<1>5. CASE ReadLog(p)
  BY <1>5 DEF ReadLog, Exit, ImportPoints, LockPoints
<1>6. CASE ReadHead(p)
  BY <1>6 DEF ReadHead, Exit, ImportPoints, LockPoints
<1>7. CASE ReadSnaps(p)
  BY <1>7 DEF ReadSnaps, Exit, AfterPlan, ImportPoints, LockPoints
<1>8. CASE Inspect(p)
  BY <1>8 DEF Inspect, Succeed
<1>9. CASE ValidateAppend(p)
  BY <1>9 DEF ValidateAppend
<1>10. CASE SnapCheck(p)
  BY <1>10 DEF SnapCheck, StillOwned, OnSnapError
<1>11. CASE LogCheck(p)
  BY <1>11 DEF LogCheck, StillOwned, OnLogError
<1>12. CASE HeadCheck(p)
  BY <1>12 DEF HeadCheck, StillOwned, OnHeadError
<1>13. CASE SnapWrite(p)
  BY <1>13 DEF SnapWrite, OnSnapError
<1>14. CASE LogWrite(p)
  BY <1>14 DEF LogWrite, OnLogError
<1>15. CASE LogVerify(p)
  BY <1>15 DEF LogVerify, OnLogError
<1>16. CASE HeadWrite(p)
  BY <1>16 DEF HeadWrite, Succeed, OnHeadError
<1>17. CASE HeadCreate(p)
  BY <1>17 DEF HeadCreate, Succeed
<1>18. CASE Truncate(p) \/ DropSnap(p)
  BY <1>18 DEF Truncate, DropSnap, OnLogError
<1>19. CASE ImportCheck(p)
  BY <1>19 DEF ImportCheck, StillOwned
<1>20. CASE LogInit(p) \/ RmFiles(p) \/ RmDir(p)
  BY <1>20 DEF LogInit, RmFiles, RmDir
<1>21. CASE RebuildCheck(p)
  BY <1>21 DEF RebuildCheck, StillOwned
<1>22. CASE RebuildWrite(p)
  BY <1>22 DEF RebuildWrite, AfterPlan
<1>23. CASE Crash(p) \/ CrashInWrite(p)
  BY <1>23 DEF Crash, CrashInWrite, Crashes
<1> QED BY <1>1, <1>2, <1>3, <1>4, <1>5, <1>6, <1>7, <1>8, <1>9, <1>10, <1>11, <1>12, <1>13,
           <1>14, <1>15, <1>16, <1>17, <1>18, <1>19, <1>20, <1>21, <1>22, <1>23
        DEF ProcStep, Step, LockStep, ReadStep, WriteStep, ImportStep, RebuildStep

----------------------------------------------------------------------------
(* A step of a process and the parts of the invariant *)

\* Types and entry numbers are kept.
LEMMA TypesStep ==
  ASSUME LockInv, StoreInv, NEW p \in Procs, ProcStep(p)
  PROVE  HistoryTypes' /\ EntriesAreNumbered'
<1>1. Frame(p) /\ LocalTypes'
  BY StepFrame
<1>2. FileTypes' /\ acked \subseteq acked'
  BY FilesAfterStep
<1>3. dir' \in BOOLEAN
  BY NoWayBackStep
<1>4. floor' \in [Procs -> SUBSET acked']
  BY <1>1, <1>2 DEF Frame, StoreInv, HistoryTypes
<1>5. entry' \in [Procs -> Entry] /\ started' <= MaxOps
  BY <1>1 DEF Frame, StoreInv, HistoryTypes
<1>6. HistoryTypes'
  BY <1>1, <1>2, <1>3, <1>4, <1>5 DEF HistoryTypes, LocalTypes, FileTypes
<1>7. \A q \in Procs : op[q] = "import" => view'[q] = view[q]
  <2>1. op[p] = "import" => pc[p] # "readLog"
    BY DEF StoreInv, OperationsKeepToTheirPoints, AtItsPoint, ImportPoints, LockPoints, Locking
  <2> QED BY <1>1, <2>1, ViewStep DEF Frame
<1>8. EntriesAreNumbered'
  BY <1>1, <1>7 DEF Frame, StoreInv, EntriesAreNumbered
<1> QED BY <1>6, <1>8

\* The only hash that can be new in the log is that of the entry being written.
LEMMA HashesStep ==
  ASSUME LockInv, StoreInv, NEW p \in Procs, ProcStep(p)
  PROVE  Hashes(log'.entries) \subseteq
             Hashes(log.entries) \cup (IF pc[p] = "logWrite" THEN {tok[p]} ELSE {})
<1>0. log.entries \in Seq(Entry) /\ Len(log.entries) \in Nat /\ view[p] \in Seq(Entry)
      /\ entry[p] \in Entry
  BY LogType DEF StoreInv, HistoryTypes, FileTypes
<1>1. CASE log'.entries = log.entries
  BY <1>1
<1>2. CASE Grows(p)
  <2>1. log'.entries = Append(log.entries, entry[p]) /\ entry[p].h = tok[p] /\ pc[p] = "logWrite"
    BY <1>2, GrowingFits DEF Grows
  <2>2. \A i \in 1 .. Len(log'.entries) :
            log'.entries[i].h \in Hashes(log.entries) \/ log'.entries[i] = entry[p]
    BY <1>0, <2>1, AppendFacts DEF Hashes
  <2> QED BY <2>1, <2>2 DEF Hashes
<1>3. CASE IsCut(p)
  <2>1. log.entries = Append(view[p], entry[p]) /\ log'.entries = view[p]
    BY <1>3 DEF IsCut
  <2>2. \A i \in 1 .. Len(view[p]) : log.entries[i] = view[p][i] /\ i \in 1 .. Len(log.entries)
    BY <1>0, <2>1, AppendFacts
  <2> QED BY <2>1, <2>2 DEF Hashes
<1>4. CASE IsEmptied(p)
  BY <1>4 DEF IsEmptied, Hashes
<1> QED BY <1>1, <1>2, <1>3, <1>4, StepsWriteUnderLock
        DEF Quiet, Writes, FilesMove, Publishes, Tears, Keeps, Snaps

\* The hash of an entry not yet written stays unseen.
LEMMA FreshStep ==
  ASSUME LockInv, StoreInv, NEW p \in Procs, ProcStep(p)
  PROVE  HashesAreFresh'
<1>1. Frame(p) /\ NoWayBack(p)
  BY StepFrame, NoWayBackStep
<1>2. Hashes(log'.entries) \subseteq
          Hashes(log.entries) \cup (IF pc[p] = "logWrite" THEN {tok[p]} ELSE {})
  BY HashesStep
<1>3. tok[p] <= started
  BY <1>1 DEF NoWayBack, Live, LockInv, LockTypes
<1>4. \A q \in Procs : view'[q] = view[q] \/ view'[q] = log.entries
  BY <1>1, ViewStep DEF Frame
<1>5. \A q \in Procs : Hashes(view'[q]) = Hashes(view[q]) \/ Hashes(view'[q]) = Hashes(log.entries)
  BY <1>4
<1>6. UNCHANGED <<tok, started>>
  BY <1>1 DEF Frame
<1>7. \A q \in Procs : Unwritten(q)' => Unwritten(q) /\ (q = p => pc[p] # "logWrite")
  <2>1. Unwritten(p)' => Unwritten(p) /\ pc[p] # "logWrite"
    BY <1>1 DEF Frame, NoWayBack, Unwritten, UnwrittenPoints
  <2>2. \A q \in Procs \ {p} : Unwritten(q)' => Unwritten(q)
    BY <1>1 DEF Frame, Unwritten
  <2> QED BY <2>1, <2>2
<1>8. \A q \in Procs : Unwritten(q) /\ q # p => tok[q] # tok[p]
  BY <1>1 DEF NoWayBack, LockInv, TokensDiffer, Live, Unwritten, Locking
<1>9. \A h \in Hashes(log'.entries) : h <= started'
  BY <1>2, <1>3, <1>6 DEF StoreInv, HashesAreFresh
<1>10. \A q \in Procs : \A h \in Hashes(view'[q]) : h <= started'
  BY <1>5, <1>6 DEF StoreInv, HashesAreFresh
<1>11. ASSUME NEW q \in Procs, Unwritten(q)'
       PROVE  /\ tok[q] \notin Hashes(log'.entries)
              /\ \A r \in Procs : tok[q] \notin Hashes(view'[r])
  <2>1. Unwritten(q) /\ (q = p => pc[p] # "logWrite")
    BY <1>7, <1>11
  <2>2. /\ tok[q] \notin Hashes(log.entries)
        /\ \A r \in Procs : tok[q] \notin Hashes(view[r])
    BY <2>1 DEF StoreInv, HashesAreFresh
  <2>3. tok[q] \notin Hashes(log'.entries)
    BY <1>2, <1>8, <2>1, <2>2
  <2> QED BY <1>5, <2>2, <2>3
<1> QED BY <1>6, <1>9, <1>10, <1>11 DEF HashesAreFresh

\* A proposer's base stays covered by the head.
LEMMA ProposersStep ==
  ASSUME LockInv, StoreInv, NEW p \in Procs, ProcStep(p)
  PROVE  ProposersAreBased'
<1>1. Frame(p) /\ NoWayBack(p) /\ PastIsKept /\ FileTypes'
  BY StepFrame, NoWayBackStep, FilesAfterStep DEF FilesStaySound
<1> SUFFICES ASSUME NEW q \in Procs, op[q] = "append", Live(q)
             PROVE  /\ head'.state = "whole"
                    /\ \E i \in 1 .. head'.at.seq :
                          /\ log'.entries[i].h = entry[q].prev
                          /\ log'.entries[i].rev = entry[q].src
                          /\ entry[q].seq = i + 1
  BY <1>1 DEF ProposersAreBased, Frame, NoWayBack, Live
<1>2. head.state = "whole" /\ head.at.seq \in Nat /\ head'.at.seq \in Nat
  BY <1>1 DEF StoreInv, ProposersAreBased, HistoryTypes, FileTypes, HeadFile, Entry
<1>3. PICK i \in 1 .. head.at.seq : /\ log.entries[i].h = entry[q].prev
                                    /\ log.entries[i].rev = entry[q].src
                                    /\ entry[q].seq = i + 1
  BY DEF StoreInv, ProposersAreBased
<1>4. /\ head'.state = "whole" /\ i \in 1 .. head'.at.seq
      /\ log'.entries[i] = log.entries[i]
  BY <1>1, <1>2 DEF PastIsKept
<1> QED BY <1>3, <1>4

\* A reader that finds the head at the tail it read has read everything published.
LEMMA HeadSeen ==
  ASSUME StoreInv, NEW v \in Seq(Entry), v # <<>>, Sight(v, log.entries), HeadIsTail(head, v)
  PROVE  Last(v).h \in published /\ published \subseteq Hashes(v)
<1> DEFINE es == log.entries
<1>0. es \in Seq(Entry) /\ Len(es) \in Nat
  BY LogType DEF StoreInv, HistoryTypes, FileTypes
<1>1. head.state = "whole" /\ head.at = Last(v)
  BY DEF HeadIsTail, HeadOf
<1>2. /\ head.at.seq \in 1 .. Len(es) /\ es[head.at.seq] = head.at /\ head.at.h \in published
      /\ published \subseteq {es[i].h : i \in 1 .. head.at.seq}
  BY <1>0, <1>1 DEF StoreInv, ChainIsPublished
<1>3. Len(v) \in Nat \ {0} /\ Last(v) = v[Len(v)]
  BY NonEmptyFacts
<1>4. StillPrefix(v, es)
  BY <1>1, <1>2 DEF Sight, Hashes
<1>5. Len(v) \in 1 .. Len(es) /\ es[Len(v)] = head.at
  BY <1>0, <1>1, <1>3, <1>4 DEF StillPrefix
<1>6. es # <<>>
  BY <1>0, <1>5
<1>7. head.at.seq = Len(v)
  BY <1>5, <1>6 DEF StoreInv, ChainIsPublished, ValidLog
<1>8. \A i \in 1 .. Len(v) : es[i].h \in Hashes(v)
  BY <1>4 DEF StillPrefix, Hashes
<1> QED BY <1>1, <1>2, <1>7, <1>8

\* What a reader saw stays true or unpublished.
LEMMA ReadersStep ==
  ASSUME LockInv, StoreInv, NEW p \in Procs, ProcStep(p)
  PROVE  ReadersSawTheChain'
<1>1. Frame(p) /\ NoWayBack(p) /\ PastIsKept /\ SightIsKept
  BY StepFrame, NoWayBackStep, FilesAfterStep DEF FilesStaySound
<1>2. ASSUME NEW q \in Procs \ {p}, op[q] = "read" PROVE ReaderSawTheChain(q)'
  <2>1. ReaderSawTheChain(q)
    BY <1>2 DEF StoreInv, ReadersSawTheChain
  <2>2. /\ pc'[q] = pc[q] /\ view'[q] = view[q] /\ result'[q] = result[q] /\ floor' = floor
    BY <1>1, <1>2 DEF Frame
  <2>3. published \subseteq published'
    BY <1>1 DEF PastIsKept
  <2>4. view[q] # <<>> /\ Sight(view[q], log.entries) => Sight(view[q], log'.entries)
    BY <1>1, <1>2 DEF SightIsKept
  <2> QED BY <2>1, <2>2, <2>3, <2>4 DEF ReaderSawTheChain, Sight, Live
<1>3. ASSUME op[p] = "read" PROVE ReaderSawTheChain(p)'
  <2>0. /\ pc \in [Procs -> PC] /\ view \in [Procs -> Seq(Entry)] /\ result \in [Procs -> Results]
        /\ floor[p] \subseteq acked /\ acked \subseteq published
        /\ UNCHANGED floor
    BY <1>1 DEF LockInv, LockTypes, StoreInv, HistoryTypes, ChainIsPublished, Frame
  <2>1. ReaderSawTheChain(p) /\ Live(p) /\ pc[p] \in ReadPoints
    BY <1>1, <1>3 DEF StoreInv, ReadersSawTheChain, NoWayBack, OperationsKeepToTheirPoints,
                      AtItsPoint
  <2>2. result[p] = "none"
    BY <2>1 DEF ReaderSawTheChain
  <2>3. CASE ReadLog(p)
    <3>1. log.entries \in Seq(Entry) /\ UNCHANGED log
      BY <2>3, LogType, QuietStepsAreQuiet DEF StoreInv, HistoryTypes, FileTypes, QuietStep, Quiet
    <3>2. CASE Readable(log) /\ view'[p] = log.entries /\ pc'[p] = "readHead" /\ result' = result
      <4>1. view'[p] # <<>>
        BY <3>2 DEF Readable, ValidLog
      <4>2. StillPrefix(view'[p], log'.entries)
        BY <3>1, <3>2, LenProperties DEF StillPrefix
      <4> QED BY <2>2, <3>2, <4>1, <4>2 DEF ReaderSawTheChain
    <3>3. CASE pc'[p] = "idle" /\ result'[p] \in {"missing", "integrity", "io"}
      BY <3>3 DEF ReaderSawTheChain, Live
    <3> QED BY <1>3, <2>0, <2>3, <3>2, <3>3 DEF ReadLog, Goto, Return, Exit
  <2>4. CASE ReadHead(p)
    <3>1. /\ pc[p] = "readHead" /\ view' = view /\ UNCHANGED <<published, log>>
      BY <2>4, QuietStepsAreQuiet DEF ReadHead, QuietStep, Quiet
    <3>2. CASE HeadPlan(p) = "keep" /\ pc'[p] = "readSnaps" /\ result' = result
      <4>1. HeadIsTail(head, view[p])
        BY <3>2 DEF HeadPlan
      <4>2. view[p] # <<>> /\ Sight(view[p], log.entries)
        BY <2>1, <3>1 DEF ReaderSawTheChain, Sight
      <4>3. Last(view[p]).h \in published /\ published \subseteq Hashes(view[p])
        BY <2>0, <4>1, <4>2, HeadSeen
      <4> QED BY <2>0, <2>2, <3>1, <3>2, <4>3 DEF ReaderSawTheChain
    <3>3. CASE pc'[p] = "idle" /\ result'[p] \in {"integrity", "io"}
      BY <3>3 DEF ReaderSawTheChain, Live
    <3> QED BY <1>3, <2>0, <2>4, <3>2, <3>3 DEF ReadHead, Goto, Return, Exit
  <2>5. CASE ReadSnaps(p)
    <3>1. /\ pc[p] = "readSnaps" /\ view' = view /\ UNCHANGED published
      BY <2>5, QuietStepsAreQuiet DEF ReadSnaps, QuietStep, Quiet
    <3>2. Last(view[p]).h \in published /\ floor[p] \subseteq Hashes(view[p])
      BY <2>1, <3>1 DEF ReaderSawTheChain
    <3>3. pc'[p] = "idle"
      BY <1>3, <2>0, <2>5 DEF ReadSnaps, Goto, Return, Exit
    <3> QED BY <2>0, <3>1, <3>2, <3>3 DEF ReaderSawTheChain, Live
  <2>6. CASE Crash(p)
    BY <2>0, <2>6 DEF Crash, Crashes, Return, Goto, ReaderSawTheChain, Live
  <2>7. ASSUME ~ReadLog(p), ~ReadHead(p), ~ReadSnaps(p), ~Crash(p) PROVE FALSE
    <3>1. pc[p] \notin ReadPoints
      BY <2>7 DEF ReadPoints, ProcStep, Step, LockStep, Mkdir, Acquire, LockWrite, ReadBack, Unlock,
           Unlink, ReadStep, Inspect, WriteStep, ValidateAppend, SnapCheck, SnapWrite, LogCheck,
           LogWrite, LogVerify, HeadCheck, HeadWrite, HeadCreate, Truncate, DropSnap, ImportStep,
           ImportCheck, LogInit, RmFiles, RmDir, RebuildStep, RebuildCheck, RebuildWrite,
           CrashInWrite
    <3> QED BY <2>1, <3>1
  <2> QED BY <2>3, <2>4, <2>5, <2>6, <2>7
<1>4. UNCHANGED op
  BY <1>1 DEF Frame
<1> QED BY <1>2, <1>3, <1>4 DEF ReadersSawTheChain

\* A proposer whose base revision is the log's last also has its number and hash.
LEMMA BasedIsNotOutOfSequence ==
  ASSUME LockInv, StoreInv, NEW p \in Procs, pc[p] = "validate"
  PROVE  AppendVerdict(p) # "sequence"
<1> DEFINE es == view[p]
           e == entry[p]
<1>1. InCriticalSection(p) /\ op[p] = "append" /\ Live(p)
  BY HolderPoint, KindOfStep DEF Holding, ReadPoints, Live
<1>2. es = log.entries /\ es # <<>> /\ head = HeadOf(Last(es))
  BY <1>1 DEF StoreInv, HolderKnows, Knows, HoldsTheLog, HoldsTheHead, ReadPointsUnderLock
<1>3. es \in Seq(Entry)
  BY DEF StoreInv, HistoryTypes
<1>4. Len(es) \in Nat \ {0} /\ Last(es) = es[Len(es)]
  BY <1>2, <1>3, NonEmptyFacts
<1>5. RevsDiffer(es) /\ head.at.seq = Len(es)
  BY <1>2, <1>4 DEF StoreInv, ChainIsPublished, ValidLog, HeadOf
<1>6. PICK i \in 1 .. Len(es) : es[i].h = e.prev /\ es[i].rev = e.src /\ e.seq = i + 1
  BY <1>1, <1>2, <1>5 DEF StoreInv, ProposersAreBased
<1>7. e.src = Last(es).rev => i = Len(es)
  BY <1>4, <1>5, <1>6 DEF RevsDiffer
<1>8. e.src = Last(es).rev => e.seq = Len(es) + 1 /\ e.prev = Last(es).h
  BY <1>4, <1>6, <1>7
<1>9. CASE e.src # Last(es).rev
  BY <1>9 DEF AppendVerdict
<1>10. CASE e.src = Last(es).rev
  <2>1. e.seq = Len(es) + 1 /\ e.prev = Last(es).h
    BY <1>8, <1>10
  <2> QED BY <1>10, <2>1 DEF AppendVerdict
<1> QED BY <1>9, <1>10

\* No step reports a wrong sequence.
LEMMA StaleStep ==
  ASSUME LockInv, StoreInv, Undisplaced, NEW p \in Procs, ProcStep(p)
  PROVE  LostRaceIsReportedStale'
<1>1. Frame(p)
  BY StepFrame
<1>2. \A q \in Procs : result[q] # "sequence"
  BY DEF StoreInv, LostRaceIsReportedStale
<1>3. result \in [Procs -> Results]
  BY DEF StoreInv, HistoryTypes
<1> SUFFICES result'[p] # "sequence"
  BY <1>1, <1>2 DEF Frame, LostRaceIsReportedStale
<1> USE <1>2, <1>3 DEF Goto, Return
<1>4. CASE LockStep(p)
  BY <1>4 DEF LockStep, Mkdir, Acquire, LockWrite, ReadBack, Unlock, Unlink
<1>5. CASE ReadLog(p) \/ ReadHead(p)
  BY <1>5 DEF ReadLog, ReadHead
<1>6. CASE ReadSnaps(p)
  BY <1>6 DEF ReadSnaps
<1>7. CASE Inspect(p) \/ HeadWrite(p) \/ HeadCreate(p)
  BY <1>7 DEF Inspect, HeadWrite, HeadCreate, Succeed
<1>8. CASE ValidateAppend(p)
  BY <1>8, BasedIsNotOutOfSequence DEF ValidateAppend
<1>9. CASE SnapCheck(p) \/ LogCheck(p) \/ HeadCheck(p) \/ ImportCheck(p) \/ RebuildCheck(p)
  BY <1>9 DEF SnapCheck, LogCheck, HeadCheck, ImportCheck, RebuildCheck, StillOwned
<1>10. CASE SnapWrite(p) \/ LogWrite(p) \/ Truncate(p) \/ DropSnap(p)
  BY <1>10 DEF SnapWrite, LogWrite, Truncate, DropSnap
<1>11. CASE LogVerify(p)
  BY <1>11 DEF LogVerify
<1>12. CASE LogInit(p) \/ RmFiles(p) \/ RmDir(p)
  BY <1>12 DEF LogInit, RmFiles, RmDir
<1>13. CASE RebuildWrite(p)
  BY <1>13 DEF RebuildWrite
<1>14. CASE Crash(p) \/ CrashInWrite(p)
  BY <1>14 DEF Crash, CrashInWrite, Crashes
<1> QED BY <1>4, <1>5, <1>6, <1>7, <1>8, <1>9, <1>10, <1>11, <1>12, <1>13, <1>14
        DEF ProcStep, Step, ReadStep, WriteStep, ImportStep, RebuildStep

\* While an import is unpublished, another process that gets the lock finds
\* nothing to work on.
LEMMA ImporterIsUndisturbed ==
  ASSUME LockInv, StoreInv, Undisplaced, NEW p \in Procs, NEW q \in Procs,
         Importing(q), InCriticalSection(p), p # q
  PROVE  pc[p] = "readLog"
<1>1. head.state = "absent" /\ published = {}
  BY DEF StoreInv, ImportIsAlone, ChainIsPublished
<1>2. ~InCriticalSection(q)
  BY LockInvImpliesMutualExclusion DEF MutualExclusion
<1>3. log.entries = <<>>
  BY <1>2 DEF StoreInv, ImportIsAlone, Importing, InCriticalSection, Holding
<1>4. op[p] \in AllOperations /\ op[p] # "read" /\ pc[p] \in Holding
  BY DEF LockInv, LockTypes, InCriticalSection
<1>5. CASE op[p] = "append"
  <2>1. Live(p)
    BY <1>4 DEF Live, Holding
  <2> QED BY <1>1, <1>5, <2>1 DEF StoreInv, ProposersAreBased
<1>6. CASE op[p] = "import"
  <2>1. pc[p] = "inspect" \/ Importing(p)
    BY <1>4, <1>6 DEF StoreInv, OperationsKeepToTheirPoints, AtItsPoint, ImportPoints, LockPoints,
                      Importing, Holding, Locking
  <2>2. ~Importing(p)
    BY DEF StoreInv, ImportIsAlone
  <2> QED BY <1>1, <2>1, <2>2 DEF StoreInv, HolderKnows, Knows, HoldsItsEntry
<1>7. CASE op[p] \in {"rebuild", "adopt"}
  <2>1. HoldsTheLog(p)
    BY DEF StoreInv, HolderKnows, Knows
  <2>2. pc[p] \in {"readLog"} \cup ReadPointsUnderLock
        \/ (op[p] = "adopt" /\ pc[p] \in {"headCheck", "headWrite", "headCreate"})
    BY <1>4, <1>7 DEF StoreInv, OperationsKeepToTheirPoints, AtItsPoint, RebuildPoints, AdoptPoints,
                      LockPoints, Locking, Holding, ReadPointsUnderLock
  <2> QED BY <1>3, <1>7, <2>1, <2>2 DEF HoldsTheLog
<1> QED BY <1>4, <1>5, <1>6, <1>7 DEF AllOperations

\* Whoever writes works in a directory.
LEMMA WriterHasDirectory ==
  ASSUME LockInv, StoreInv, NEW p \in Procs, InCriticalSection(p), pc[p] # "readLog"
  PROVE  dir
<1> SUFFICES ASSUME ~dir PROVE FALSE
  OBVIOUS
<1>1. head.state = "absent" /\ published = {} /\ log.entries = <<>> /\ ~Importing(p)
  BY DEF StoreInv, ImportIsAlone, ChainIsPublished
<1>4. op[p] \in AllOperations /\ op[p] # "read" /\ pc[p] \in Holding
  BY DEF LockInv, LockTypes, InCriticalSection
<1>5. CASE op[p] = "append"
  <2>1. Live(p)
    BY <1>4 DEF Live, Holding
  <2> QED BY <1>1, <1>5, <2>1 DEF StoreInv, ProposersAreBased
<1>6. CASE op[p] = "import"
  <2>1. pc[p] = "inspect" \/ Importing(p)
    BY <1>4, <1>6 DEF StoreInv, OperationsKeepToTheirPoints, AtItsPoint, ImportPoints, LockPoints,
                      Importing, Holding, Locking
  <2> QED BY <1>1, <2>1 DEF StoreInv, HolderKnows, Knows, HoldsItsEntry
<1>7. CASE op[p] \in {"rebuild", "adopt"}
  <2>1. HoldsTheLog(p)
    BY DEF StoreInv, HolderKnows, Knows
  <2>2. pc[p] \in {"readLog"} \cup ReadPointsUnderLock
        \/ (op[p] = "adopt" /\ pc[p] \in {"headCheck", "headWrite", "headCreate"})
    BY <1>4, <1>7 DEF StoreInv, OperationsKeepToTheirPoints, AtItsPoint, RebuildPoints, AdoptPoints,
                      LockPoints, Locking, Holding, ReadPointsUnderLock
  <2> QED BY <1>1, <1>7, <2>1, <2>2 DEF HoldsTheLog
<1> QED BY <1>4, <1>5, <1>6, <1>7 DEF AllOperations

\* What an import does to its own unpublished files
InTheFiles == {"logWrite", "headCheck", "headWrite", "rmFiles"}
\* An import keeps to an unpublished case.
LEMMA ImporterStep ==
  ASSUME LockInv, StoreInv, NEW p \in Procs, ProcStep(p), Importing(p), Importing(p)'
  PROVE  /\ head'.state = "absent"
         /\ pc'[p] \notin InTheFiles => log'.entries = <<>>
<1>0. /\ pc \in [Procs -> PC] /\ op[p] = "import" /\ head.state = "absent"
      /\ pc[p] \notin InTheFiles => log.entries = <<>>
  BY DEF LockInv, LockTypes, Importing, StoreInv, ImportIsAlone, InTheFiles
<1>p. pc[p] \in Locking \cup {"importCheck", "snapCheck", "snapWrite", "logInit", "logWrite",
                              "headCheck", "headWrite", "rmFiles", "rmDir"}
  BY DEF Importing
<1> USE <1>0, <1>p DEF Importing, InTheFiles, Locking, Goto, Return, disk
<1>1. CASE QuietStep(p) /\ ~HeadCheck(p)
  <2>1. UNCHANGED <<log, head>>
    BY <1>1, QuietStepsAreQuiet DEF Quiet
  <2>2. pc[p] \notin InTheFiles \/ pc'[p] = "idle"
    BY <1>1 DEF QuietStep, LockStep, Mkdir, Acquire, LockWrite, ReadBack, Unlock, Unlink, ReadLog,
                ReadHead, ReadSnaps, ValidateAppend, SnapCheck, LogCheck, ImportCheck, RmDir,
                RebuildCheck, Crash, Crashes
  <2> QED BY <2>1, <2>2
<1>2. CASE HeadCheck(p)
  <2>1. UNCHANGED <<log, head>>
    BY <1>2, QuietStepsAreQuiet DEF Quiet, QuietStep
  <2>2. plan[p].head = "keep"
    BY DEF StoreInv, OperationsKeepToTheirPoints, AtItsPoint
  <2> QED BY <1>2, <2>1, <2>2 DEF HeadCheck, StillOwned, OnHeadError
<1>3. CASE SnapWrite(p)
  BY <1>3 DEF SnapWrite
<1>4. CASE LogInit(p)
  BY <1>4 DEF LogInit
<1>5. CASE LogWrite(p)
  BY <1>5 DEF LogWrite, OnLogError
<1>6. CASE HeadWrite(p)
  BY <1>6 DEF HeadWrite, AfterHead, OnHeadError
<1>7. CASE RmFiles(p)
  BY <1>7 DEF RmFiles, NoLog, NoHead
<1>8. CASE CrashInWrite(p)
  BY <1>8 DEF CrashInWrite, Crashes
<1>9. ~DropSnap(p) /\ ~RebuildWrite(p) /\ ~LogVerify(p) /\ ~Truncate(p) /\ ~HeadCreate(p) /\ ~Inspect(p)
  BY DEF DropSnap, RebuildWrite, LogVerify, Truncate, HeadCreate, Inspect
<1> QED BY <1>1, <1>2, <1>3, <1>4, <1>5, <1>6, <1>7, <1>8, <1>9
        DEF ProcStep, Step, ReadStep, WriteStep, ImportStep, RebuildStep, QuietStep

\* There is never a second import at work.
LEMMA ImportsStep ==
  ASSUME LockInv, StoreInv, Undisplaced, NEW p \in Procs, ProcStep(p)
  PROVE  ImportIsAlone'
<1>1. Frame(p) /\ NoWayBack(p) /\ dir \in BOOLEAN /\ dir' \in BOOLEAN
  BY StepFrame, NoWayBackStep DEF StoreInv, HistoryTypes
<1>2. \A q \in Procs \ {p} : Importing(q)' => Importing(q)
  BY <1>1 DEF Frame, Importing
<1>3. ASSUME Quiet, pc[p] \notin {"mkdir", "rmDir"} \/ pc'[p] = "idle" PROVE ImportIsAlone'
  <2>1. UNCHANGED <<dir, log, head>>
    BY <1>1, <1>3 DEF NoWayBack, Quiet
  <2>2. Importing(p)' => Importing(p)
    BY <1>1, <1>3 DEF NoWayBack, Importing, Locking
  <2>3. \A q \in Procs \ {p} : pc'[q] = pc[q]
    BY <1>1 DEF Frame
  <2>4. Importing(p)' => (pc'[p] \notin InTheFiles => log'.entries = <<>>)
    BY <2>2, ImporterStep
  <2> QED BY <1>2, <2>1, <2>2, <2>3, <2>4 DEF StoreInv, ImportIsAlone, InTheFiles
<1>4. ASSUME Quiet, pc[p] = "mkdir", pc'[p] # "idle" PROVE ImportIsAlone'
  <2>1. ~dir /\ dir' /\ UNCHANGED <<log, head>> /\ pc'[p] = "acquire"
    BY <1>1, <1>4 DEF NoWayBack, Quiet
  <2>2. \A q \in Procs : ~Importing(q)
    BY <2>1 DEF StoreInv, ImportIsAlone
  <2>3. log.entries = <<>> /\ head.state = "absent"
    BY <2>1 DEF StoreInv, ImportIsAlone
  <2> QED BY <1>2, <2>1, <2>2, <2>3 DEF ImportIsAlone
<1>5. ASSUME Quiet, pc[p] = "rmDir" PROVE ImportIsAlone'
  <2>1. Importing(p) /\ ~Importing(p)' /\ UNCHANGED <<log, head>>
    BY <1>1, <1>5, KindOfStep DEF NoWayBack, Quiet, Importing
  <2>2. \A q \in Procs : ~Importing(q)'
    BY <1>2, <2>1 DEF StoreInv, ImportIsAlone
  <2>3. log.entries = <<>> /\ head.state = "absent"
    BY <1>5, <2>1 DEF StoreInv, ImportIsAlone
  <2> QED BY <2>1, <2>2, <2>3 DEF ImportIsAlone
<1>6. ASSUME Writes(p) PROVE ImportIsAlone'
  <2>1. InCriticalSection(p) /\ pc[p] # "readLog"
    BY <1>6 DEF Writes
  <2>2. dir /\ dir' /\ (Importing(p)' => Importing(p))
    BY <1>1, <2>1, WriterHasDirectory DEF NoWayBack, InCriticalSection, Holding
  <2>3. \A q \in Procs \ {p} : ~Importing(q)'
    BY <1>2, <2>1, ImporterIsUndisturbed
  <2>4. Importing(p)' => head'.state = "absent" /\ (pc'[p] \notin InTheFiles => log'.entries = <<>>)
    BY <2>2, ImporterStep
  <2> QED BY <2>2, <2>3, <2>4 DEF ImportIsAlone, InTheFiles
<1> QED BY <1>3, <1>4, <1>5, <1>6, StepsWriteUnderLock

----------------------------------------------------------------------------
(* What the holder of the lock knows *)

\* Everything of the store that a process's knowledge is about
LEMMA KnowledgeKept ==
  ASSUME NEW q \in Procs, Knows(q), Quiet, op'[q] = op[q], entry'[q] = entry[q],
         pc'[q] = pc[q], view'[q] = view[q], before'[q] = before[q], plan'[q] = plan[q]
  PROVE  Knows(q)'
BY DEF Knows, HoldsTheLog, HoldsTheHead, HoldsItsEntry, HoldsTheSnapshots, Quiet

\* A step changes nothing that another lock holder relies on.
LEMMA OthersKnow ==
  ASSUME LockInv, StoreInv, Undisplaced, NEW p \in Procs, ProcStep(p), NEW q \in Procs \ {p},
         InCriticalSection(q)'
  PROVE  Knows(q)'
<1>1. Frame(p)
  BY StepFrame
<1>2. InCriticalSection(q)
  BY <1>1 DEF Frame, InCriticalSection
<1>3. Quiet
  BY <1>2, StepsWriteUnderLock, LockInvImpliesMutualExclusion DEF Writes, MutualExclusion
<1>4. Knows(q)
  BY <1>2 DEF StoreInv, HolderKnows
<1> QED BY <1>1, <1>3, <1>4, KnowledgeKept DEF Frame

\* The common ground of the lemmas below
LEMMA HolderFacts ==
  ASSUME LockInv, StoreInv, NEW p \in Procs, ProcStep(p)
  PROVE  /\ pc \in [Procs -> PC] /\ op'[p] = op[p] /\ entry'[p] = entry[p]
         /\ op[p] \in AllOperations
         /\ view \in [Procs -> Seq(Entry)] /\ entry[p] \in Entry
         /\ log.entries \in Seq(Entry)
         /\ InCriticalSection(p) => Knows(p)
         /\ AtItsPoint(p)
BY StepFrame, LogType
   DEF Frame, LockInv, LockTypes, StoreInv, HistoryTypes, FileTypes, HolderKnows,
       OperationsKeepToTheirPoints

\* After reading the log the lock holder knows its lines.
LEMMA KnowsAfterReadLog ==
  ASSUME LockInv, StoreInv, NEW p \in Procs, ReadLog(p), op[p] # "read"
  PROVE  Knows(p)'
<1>0. ProcStep(p)
  BY DEF ProcStep, Step, ReadStep
<1>1. pc \in [Procs -> PC] /\ view \in [Procs -> Seq(Entry)] /\ op'[p] = op[p] /\ UNCHANGED log
  BY <1>0, HolderFacts, QuietStepsAreQuiet DEF QuietStep, Quiet
<1>2. CASE pc'[p] \in {"idle", "unlock"}
  <2> PICK x \in {"idle", "unlock"} : x = pc'[p]
    BY <1>2
  <2> QED BY <1>2 DEF Knows, HoldsTheLog, HoldsTheHead, HoldsItsEntry, HoldsTheSnapshots,
                      ReadPointsUnderLock
<1>3. CASE pc'[p] = "readHead" /\ view'[p] = log.entries /\ Readable(log)
  <2>1. log.entries # <<>>
    BY <1>3 DEF Readable, ValidLog
  <2> QED BY <1>1, <1>3, <2>1 DEF Knows, HoldsTheLog, HoldsTheHead, HoldsItsEntry,
                             HoldsTheSnapshots, ReadPointsUnderLock
<1> QED BY <1>1, <1>2, <1>3 DEF ReadLog, Goto, Return, Exit

\* After reading the head an append knows that it names the tail.
LEMMA KnowsAfterReadHead ==
  ASSUME LockInv, StoreInv, NEW p \in Procs, ReadHead(p), op[p] # "read"
  PROVE  Knows(p)'
<1>0. ProcStep(p) /\ InCriticalSection(p) /\ pc[p] = "readHead"
  BY DEF ProcStep, Step, ReadStep, ReadHead, InCriticalSection, Holding
<1>1. /\ pc \in [Procs -> PC] /\ op'[p] = op[p] /\ view' = view
      /\ Knows(p) /\ UNCHANGED <<log, head>>
  BY <1>0, HolderFacts, QuietStepsAreQuiet DEF QuietStep, Quiet, ReadHead
<1>2. CASE pc'[p] = "unlock"
  BY <1>2 DEF Knows, HoldsTheLog, HoldsTheHead, HoldsItsEntry, HoldsTheSnapshots,
              ReadPointsUnderLock
<1>3. CASE pc'[p] = "readSnaps" /\ (HeadPlan(p) = "keep" \/ op[p] = "adopt")
  <2>0. op[p] # "import"
    BY <1>0 DEF StoreInv, OperationsKeepToTheirPoints, AtItsPoint, ImportPoints, LockPoints, Locking
  <2>1. view[p] = log.entries /\ log.entries # <<>>
    BY <1>0, <1>1, <2>0 DEF Knows, HoldsTheLog, ReadPointsUnderLock
  <2>2. op[p] = "append" => head = HeadOf(Last(view[p]))
    BY <1>3 DEF HeadPlan, HeadIsTail
  <2> QED BY <1>1, <1>3, <2>1, <2>2 DEF Knows, HoldsTheLog, HoldsTheHead, HoldsItsEntry,
                                         HoldsTheSnapshots, ReadPointsUnderLock
<1> QED BY <1>1, <1>2, <1>3 DEF ReadHead, Goto, Return, Exit

\* After reading the snapshots a rebuild knows which ones are missing.
LEMMA KnowsAfterReadSnaps ==
  ASSUME LockInv, StoreInv, NEW p \in Procs, ReadSnaps(p), op[p] # "read"
  PROVE  Knows(p)'
<1>0. ProcStep(p) /\ InCriticalSection(p) /\ pc[p] = "readSnaps"
  BY DEF ProcStep, Step, ReadStep, ReadSnaps, InCriticalSection, Holding
<1>1. /\ pc \in [Procs -> PC] /\ op'[p] = op[p] /\ view' = view /\ entry'[p] = entry[p]
      /\ Knows(p) /\ UNCHANGED <<log, head>> /\ AtItsPoint(p)
  BY <1>0, HolderFacts, QuietStepsAreQuiet DEF QuietStep, Quiet, ReadSnaps
<1>2. op[p] # "import"
  BY <1>0 DEF StoreInv, OperationsKeepToTheirPoints, AtItsPoint, ImportPoints, LockPoints, Locking
<1>3. view[p] = log.entries /\ log.entries # <<>>
  BY <1>0, <1>1, <1>2 DEF Knows, HoldsTheLog, ReadPointsUnderLock
<1>4. op[p] = "append" => head = HeadOf(Last(view[p]))
  BY <1>0, <1>1 DEF Knows, HoldsTheHead
<1>5. CASE pc'[p] = "unlock"
  BY <1>5 DEF Knows, HoldsTheLog, HoldsTheHead, HoldsItsEntry, HoldsTheSnapshots,
              ReadPointsUnderLock
<1>6. CASE pc'[p] = "validate"
  BY <1>1, <1>3, <1>4, <1>6 DEF Knows, HoldsTheLog, HoldsTheHead, HoldsItsEntry,
                                HoldsTheSnapshots, ReadPointsUnderLock
<1>7. CASE op[p] \in {"rebuild", "adopt"} /\ pc'[p] = AfterPlan(p, MissingSnaps(view[p], snaps))
           /\ plan' = [plan EXCEPT ![p].missing = MissingSnaps(view[p], snaps)]
  <2> DEFINE m == MissingSnaps(view[p], snaps)
  <2>1. m \subseteq 1 .. Len(view[p])
    BY DEF MissingSnaps
  <2>2. plan'[p].missing = m
    BY <1>7 DEF StoreInv, HistoryTypes
  <2> HIDE DEF m
  <2>3. /\ pc'[p] = "rebuildCheck" => m # {}
        /\ pc'[p] = "headCheck" => op[p] = "adopt"
        /\ pc'[p] \in {"rebuildCheck", "headCheck", "unlock"}
    BY <1>1, <1>7 DEF AfterPlan, AtItsPoint, m
  <2>4. CASE pc'[p] = "rebuildCheck"
    BY <1>1, <1>3, <1>7, <2>1, <2>2, <2>3, <2>4
       DEF Knows, HoldsTheLog, HoldsTheHead, HoldsItsEntry, HoldsTheSnapshots, ReadPointsUnderLock
  <2>5. CASE pc'[p] = "headCheck"
    BY <1>1, <1>3, <2>3, <2>5
       DEF Knows, HoldsTheLog, HoldsTheHead, HoldsItsEntry, HoldsTheSnapshots, ReadPointsUnderLock
  <2> QED BY <1>5, <2>3, <2>4, <2>5
<1> QED BY <1>1, <1>5, <1>6, <1>7 DEF ReadSnaps, Goto, Return, Exit

\* An accepted entry continues the log, and a snapshot that already carries its
\* revision is its own.
LEMMA AcceptedEntryFits ==
  ASSUME NEW p \in Procs, AppendVerdict(p) = "accept"
  PROVE  /\ Continues(entry[p], view[p])
         /\ Scheduled(p) \/ snaps[entry[p].rev].state # "whole"
               \/ snaps[entry[p].rev] = SnapOf(Append(view[p], entry[p]))
<1>1. /\ entry[p].src = Last(view[p]).rev
      /\ entry[p].seq = Len(view[p]) + 1 /\ entry[p].prev = Last(view[p]).h
      /\ ~\E i \in 1 .. Len(view[p]) : view[p][i].rev = entry[p].rev
  BY DEF AppendVerdict
<1>2. snaps[entry[p].rev].state # "absent" =>
          SnapAgrees(snaps[entry[p].rev], Append(view[p], entry[p]))
  BY DEF AppendVerdict
<1> QED BY <1>1, <1>2 DEF Continues, SnapAgrees

\* An accepted entry continues the log that the append holds.
LEMMA KnowsAfterValidate ==
  ASSUME LockInv, StoreInv, NEW p \in Procs, ValidateAppend(p)
  PROVE  Knows(p)'
<1>0. ProcStep(p) /\ InCriticalSection(p) /\ pc[p] = "validate" /\ op[p] = "append"
  BY HolderPoint, KindOfStep DEF ProcStep, Step, WriteStep, ValidateAppend, Holding, ReadPoints
<1>1. /\ pc \in [Procs -> PC] /\ op'[p] = op[p] /\ view' = view /\ entry'[p] = entry[p]
      /\ Knows(p) /\ UNCHANGED <<log, head, snaps>>
  BY <1>0, HolderFacts, QuietStepsAreQuiet DEF QuietStep, Quiet, ValidateAppend, locals
<1>3. view[p] = log.entries /\ log.entries # <<>> /\ head = HeadOf(Last(view[p]))
  BY <1>0, <1>1 DEF Knows, HoldsTheLog, HoldsTheHead, ReadPointsUnderLock
<1>5. CASE pc'[p] = "unlock"
  BY <1>5 DEF Knows, HoldsTheLog, HoldsTheHead, HoldsItsEntry, HoldsTheSnapshots,
              ReadPointsUnderLock
<1>6. CASE AppendVerdict(p) = "accept" /\ pc'[p] = (IF Scheduled(p) THEN "snapCheck" ELSE "logCheck")
  <2>1. Continues(entry[p], view[p])
    BY <1>6, AcceptedEntryFits
  <2>2. pc'[p] = "logCheck" => (snaps[entry[p].rev].state = "whole"
           => snaps[entry[p].rev] = SnapOf(Append(view[p], entry[p])))
    BY <1>6, AcceptedEntryFits
  <2>3. pc'[p] \in {"snapCheck", "logCheck"}
    BY <1>6
  <2>4. HoldsTheLog(p)' /\ HoldsTheHead(p)'
    BY <1>0, <1>1, <1>3, <2>3 DEF HoldsTheLog, HoldsTheHead
  <2>5. HoldsItsEntry(p)'
    BY <1>0, <1>1, <2>1, <2>3 DEF HoldsItsEntry
  <2>6. HoldsTheSnapshots(p)'
    BY <1>0, <1>1, <2>2, <2>3 DEF HoldsTheSnapshots
  <2> QED BY <2>4, <2>5, <2>6 DEF Knows
<1> QED BY <1>1, <1>5, <1>6 DEF ValidateAppend, Goto, Return

\* Outside the points where it works on the files a process needs to know nothing.
LEMMA NothingToKnowNext ==
  ASSUME NEW p \in Procs,
         pc'[p] \in {"idle", "unlock", "unlink", "acquire", "mkdir", "lockWrite", "readBack",
                     "importCheck", "readLog", "dropSnap", "rmFiles", "rmDir"}
  PROVE  Knows(p)'
<1> PICK x \in {"idle", "unlock", "unlink", "acquire", "mkdir", "lockWrite", "readBack",
                "importCheck", "readLog", "dropSnap", "rmFiles", "rmDir"} : x = pc'[p]
  OBVIOUS
<1> QED BY DEF Knows, HoldsTheLog, HoldsTheHead, HoldsItsEntry, HoldsTheSnapshots,
               ReadPointsUnderLock

\* An ownership check leaves everything but the control as it was.
LEMMA KnowsAfterCheck ==
  ASSUME LockInv, StoreInv, NEW p \in Procs,
         SnapCheck(p) \/ LogCheck(p) \/ HeadCheck(p) \/ ImportCheck(p) \/ RebuildCheck(p)
  PROVE  Knows(p)'
<1>0. /\ ProcStep(p) /\ InCriticalSection(p)
      /\ pc[p] \in {"snapCheck", "logCheck", "headCheck", "importCheck", "rebuildCheck"}
  BY HolderPoint DEF ProcStep, Step, WriteStep, ImportStep, RebuildStep, SnapCheck, LogCheck,
     HeadCheck, ImportCheck, RebuildCheck, Holding, ReadPoints
<1>1. /\ pc \in [Procs -> PC] /\ op'[p] = op[p] /\ view'[p] = view[p] /\ entry'[p] = entry[p]
      /\ before'[p] = before[p] /\ plan'[p] = plan[p]
      /\ Knows(p) /\ AtItsPoint(p) /\ UNCHANGED <<log, head, snaps, published>>
  <2>1. UNCHANGED <<disk, locals, history>>
    BY DEF SnapCheck, LogCheck, HeadCheck, ImportCheck, RebuildCheck, StillOwned
  <2> QED BY <2>1, <1>0, HolderFacts DEF disk, locals, history
<1>2. /\ pc[p] = "logCheck" => op[p] = "append"
      /\ pc[p] = "importCheck" => op[p] = "import"
      /\ pc[p] = "rebuildCheck" => op[p] \in {"rebuild", "adopt"}
  BY KindOfStep
<1>3. \/ pc'[p] \in {"unlock", "rmFiles", "dropSnap"}
      \/ pc[p] = "snapCheck" /\ pc'[p] = "snapWrite"
      \/ pc[p] = "logCheck" /\ pc'[p] = "logWrite"
      \/ pc[p] = "headCheck" /\ pc'[p] \in {"headWrite", "truncate"}
      \/ pc[p] = "headCheck" /\ op[p] = "adopt" /\ pc'[p] = "headCreate"
      \/ pc[p] = "importCheck" /\ pc'[p] = "snapCheck"
      \/ pc[p] = "rebuildCheck" /\ pc'[p] = "rebuildWrite"
  BY <1>0, <1>1 DEF SnapCheck, LogCheck, HeadCheck, ImportCheck, RebuildCheck, StillOwned, Goto,
     Return, OnSnapError, OnLogError, OnHeadError, AtItsPoint
<1>4. CASE pc'[p] \in {"unlock", "rmFiles", "dropSnap"}
  BY <1>4, NothingToKnowNext
<1>5. CASE pc[p] = "snapCheck" /\ pc'[p] = "snapWrite"
  BY <1>1, <1>5
     DEF Knows, HoldsTheLog, HoldsTheHead, HoldsItsEntry, HoldsTheSnapshots, ReadPointsUnderLock
<1>6. CASE pc[p] = "logCheck" /\ pc'[p] = "logWrite"
  BY <1>1, <1>2, <1>6
     DEF Knows, HoldsTheLog, HoldsTheHead, HoldsItsEntry, HoldsTheSnapshots, ReadPointsUnderLock
<1>7. CASE pc[p] = "headCheck" /\ pc'[p] \in {"headWrite", "truncate"}
  BY <1>1, <1>7
     DEF Knows, HoldsTheLog, HoldsTheHead, HoldsItsEntry, HoldsTheSnapshots, ReadPointsUnderLock
<1>8. CASE pc[p] = "headCheck" /\ op[p] = "adopt" /\ pc'[p] = "headCreate"
  BY <1>1, <1>8
     DEF Knows, HoldsTheLog, HoldsTheHead, HoldsItsEntry, HoldsTheSnapshots, ReadPointsUnderLock
<1>9. CASE pc[p] = "importCheck" /\ pc'[p] = "snapCheck"
  BY <1>1, <1>2, <1>9
     DEF Knows, HoldsTheLog, HoldsTheHead, HoldsItsEntry, HoldsTheSnapshots, ReadPointsUnderLock
<1>10. CASE pc[p] = "rebuildCheck" /\ pc'[p] = "rebuildWrite"
  BY <1>1, <1>2, <1>10
     DEF Knows, HoldsTheLog, HoldsTheHead, HoldsItsEntry, HoldsTheSnapshots, ReadPointsUnderLock
<1> QED BY <1>3, <1>4, <1>5, <1>6, <1>7, <1>8, <1>9, <1>10

\* The new snapshot is what the new log will fold to.
LEMMA KnowsAfterSnapWrite ==
  ASSUME LockInv, StoreInv, NEW p \in Procs, SnapWrite(p)
  PROVE  Knows(p)'
<1>0. ProcStep(p) /\ InCriticalSection(p) /\ pc[p] = "snapWrite" /\ op[p] \in {"import", "append"}
  BY HolderPoint, KindOfStep DEF ProcStep, Step, WriteStep, SnapWrite, Holding, ReadPoints
<1>1. /\ pc \in [Procs -> PC] /\ op'[p] = op[p] /\ view'[p] = view[p] /\ entry'[p] = entry[p]
      /\ Knows(p) /\ UNCHANGED <<log, head>> /\ snaps \in [Revs -> SnapFile]
  BY <1>0, HolderFacts DEF SnapWrite, locals, StoreInv, HistoryTypes
<1>2. entry[p].rev \in Revs
  BY <1>0, OwnSnapshot
<1>3. CASE pc'[p] \in {"unlock", "rmFiles"}
  BY <1>3, NothingToKnowNext
<1>4. CASE /\ snaps' = [snaps EXCEPT ![entry[p].rev] = SnapOf(Append(view[p], entry[p]))]
           /\ pc'[p] = IF op[p] = "import" THEN "logInit" ELSE "logCheck"
  <2> PICK r \in Revs : r = entry[p].rev
    BY <1>2
  <2>1. snaps'[entry[p].rev] = SnapOf(Append(view[p], entry[p]))
    BY <1>1, <1>4
  <2>2. HoldsTheLog(p)' /\ HoldsTheHead(p)'
    BY <1>0, <1>1, <1>4 DEF Knows, HoldsTheLog, HoldsTheHead, ReadPointsUnderLock
  <2>3. HoldsItsEntry(p)'
    BY <1>0, <1>1, <1>4 DEF Knows, HoldsItsEntry
  <2>4. HoldsTheSnapshots(p)'
    BY <1>0, <1>1, <1>4, <2>1 DEF HoldsTheSnapshots
  <2> QED BY <2>2, <2>3, <2>4 DEF Knows
<1> QED BY <1>0, <1>1, <1>3, <1>4 DEF SnapWrite, Goto, Return, OnSnapError

\* An import writes its line into an empty log.
LEMMA KnowsAfterLogInit ==
  ASSUME LockInv, StoreInv, NEW p \in Procs, LogInit(p)
  PROVE  Knows(p)'
<1>0. ProcStep(p) /\ InCriticalSection(p) /\ pc[p] = "logInit" /\ op[p] = "import"
  BY HolderPoint, KindOfStep DEF ProcStep, Step, ImportStep, LogInit, Holding, ReadPoints
<1>1. /\ pc \in [Procs -> PC] /\ op'[p] = op[p] /\ view'[p] = view[p] /\ entry'[p] = entry[p]
      /\ Knows(p) /\ UNCHANGED <<head, snaps>>
  BY <1>0, HolderFacts DEF LogInit, locals
<1>3. CASE pc'[p] = "rmFiles"
  BY <1>3, NothingToKnowNext
<1>4. CASE log' = [entries |-> <<>>, tail |-> "clean"] /\ pc'[p] = "logWrite"
  <2>2. HoldsTheLog(p)' /\ HoldsTheHead(p)'
    BY <1>0, <1>1, <1>4 DEF HoldsTheLog, HoldsTheHead
  <2>3. HoldsItsEntry(p)'
    BY <1>0, <1>1, <1>4 DEF HoldsItsEntry
  <2>4. HoldsTheSnapshots(p)'
    BY <1>0, <1>1, <1>4 DEF Knows, HoldsTheSnapshots
  <2> QED BY <2>2, <2>3, <2>4 DEF Knows
<1> QED BY <1>0, <1>1, <1>3, <1>4 DEF LogInit, Goto, Return

\* The log has the new line or is as it was.
LEMMA KnowsAfterLogWrite ==
  ASSUME LockInv, StoreInv, NEW p \in Procs, LogWrite(p)
  PROVE  Knows(p)'
<1>0. ProcStep(p) /\ InCriticalSection(p) /\ pc[p] = "logWrite" /\ op[p] \in {"import", "append"}
  BY HolderPoint, KindOfStep DEF ProcStep, Step, WriteStep, LogWrite, Holding, ReadPoints
<1>1. /\ pc \in [Procs -> PC] /\ op'[p] = op[p] /\ view'[p] = view[p] /\ entry'[p] = entry[p]
      /\ Knows(p) /\ UNCHANGED <<head, snaps>> /\ log \in LogFile /\ entry[p] \in Entry
      /\ before \in [Procs -> [len : Nat, tail : TailState]]
  BY <1>0, HolderFacts DEF LogWrite, StoreInv, HistoryTypes
<1>3. CASE pc'[p] \in {"unlock", "rmFiles", "dropSnap"}
  BY <1>3, NothingToKnowNext
<1>4. CASE op[p] = "import" /\ log' = AppendLine(log, entry[p]) /\ pc'[p] = "headCheck"
  <2>1. log'.entries = <<entry[p]>>
    <3>1. log.entries = <<>> /\ log.tail = "clean"
      BY <1>0, <1>1, <1>4 DEF Knows, HoldsItsEntry
    <3>2. log'.entries = Append(<<>>, entry[p])
      BY <1>1, <1>4, <3>1, LinesAreTyped
    <3> QED BY <3>2
  <2>2. HoldsTheLog(p)' /\ HoldsTheHead(p)' /\ HoldsTheSnapshots(p)'
    BY <1>1, <1>4 DEF HoldsTheLog, HoldsTheHead, HoldsTheSnapshots, ReadPointsUnderLock
  <2>3. HoldsItsEntry(p)'
    BY <1>1, <1>4, <2>1 DEF HoldsItsEntry
  <2> QED BY <2>2, <2>3 DEF Knows
<1>5. CASE op[p] = "append" /\ log' = AppendLine(log, entry[p]) /\ pc'[p] = "logVerify"
  <2>0. view[p] = log.entries
    BY <1>0, <1>1, <1>5 DEF Knows, HoldsTheLog, ReadPointsUnderLock
  <2>1. log'.entries \in {view[p], Append(view[p], entry[p])}
    BY <1>1, <1>5, <2>0, LinesAreTyped
  <2>2. before'[p].len = Len(view[p])
    BY <1>1, <2>0 DEF LogWrite
  <2>3. HoldsTheLog(p)' /\ HoldsTheSnapshots(p)'
    BY <1>1, <1>5 DEF HoldsTheLog, HoldsTheSnapshots, ReadPointsUnderLock
  <2>4. HoldsTheHead(p)'
    BY <1>0, <1>1, <1>5 DEF Knows, HoldsTheHead
  <2>5. Continues(entry[p], view[p])
    BY <1>0, <1>1, <1>5 DEF Knows, HoldsItsEntry
  <2>6. HoldsItsEntry(p)'
    BY <1>1, <1>5, <2>1, <2>2, <2>5 DEF HoldsItsEntry
  <2> QED BY <2>3, <2>4, <2>6 DEF Knows
<1> QED BY <1>0, <1>1, <1>3, <1>4, <1>5 DEF LogWrite, Goto, Return, OnLogError

\* A verified append has its line in the log.
LEMMA KnowsAfterLogVerify ==
  ASSUME LockInv, StoreInv, NEW p \in Procs, LogVerify(p)
  PROVE  Knows(p)'
<1>0. ProcStep(p) /\ InCriticalSection(p) /\ pc[p] = "logVerify" /\ op[p] = "append"
  BY HolderPoint, KindOfStep DEF ProcStep, Step, WriteStep, LogVerify, Holding, ReadPoints
<1>1. /\ pc \in [Procs -> PC] /\ op'[p] = op[p] /\ view'[p] = view[p] /\ entry'[p] = entry[p]
      /\ before'[p] = before[p]
      /\ Knows(p) /\ UNCHANGED <<head, snaps>> /\ view[p] \in Seq(Entry) /\ entry[p] \in Entry
  BY <1>0, HolderFacts DEF LogVerify, locals
<1>3. CASE pc'[p] \in {"unlock", "rmFiles", "dropSnap"}
  BY <1>3, NothingToKnowNext
<1>4. CASE UNCHANGED log /\ Len(log.entries) = before[p].len + 1 /\ pc'[p] = "headCheck"
  <2>1. /\ before[p].len = Len(view[p])
        /\ log.entries \in {view[p], Append(view[p], entry[p])}
        /\ Continues(entry[p], view[p])
    BY <1>0, <1>1 DEF Knows, HoldsItsEntry
  <2>2. log.entries = Append(view[p], entry[p])
    <3>1. Len(view[p]) \in Nat
      BY <1>1, LenProperties
    <3> QED BY <1>4, <2>1, <3>1
  <2>3. HoldsTheLog(p)' /\ HoldsTheSnapshots(p)'
    BY <1>0, <1>1, <1>4 DEF HoldsTheLog, HoldsTheSnapshots, ReadPointsUnderLock
  <2>4. HoldsTheHead(p)'
    BY <1>0, <1>1, <1>4 DEF Knows, HoldsTheHead
  <2>6. HoldsItsEntry(p)'
    BY <1>0, <1>1, <1>4, <2>1, <2>2 DEF HoldsItsEntry
  <2> QED BY <2>3, <2>4, <2>6 DEF Knows
<1> QED BY <1>0, <1>1, <1>3, <1>4 DEF LogVerify, Goto, Return, OnLogError

\* The entry of an inspecting operation is published.
LEMMA KnowsAfterHeadWrite ==
  ASSUME LockInv, StoreInv, NEW p \in Procs, HeadWrite(p)
  PROVE  Knows(p)'
<1>0. /\ ProcStep(p) /\ InCriticalSection(p) /\ pc[p] = "headWrite"
      /\ op[p] \in {"import", "append", "adopt"}
  BY HolderPoint, KindOfStep DEF ProcStep, Step, WriteStep, HeadWrite, Holding, ReadPoints
<1>1. /\ pc \in [Procs -> PC] /\ op'[p] = op[p] /\ view'[p] = view[p] /\ entry'[p] = entry[p]
      /\ before'[p] = before[p]
      /\ Knows(p) /\ UNCHANGED <<log, snaps>>
  BY <1>0, HolderFacts DEF HeadWrite, locals
<1>3. CASE pc'[p] \in {"unlock", "rmFiles"}
  BY <1>3, NothingToKnowNext
<1>4. CASE /\ op[p] # "adopt" /\ published' = published \cup {NewHeadEntry(p).h}
           /\ pc'[p] = "inspect"
  <2>1. entry[p].h \in published'
    BY <1>4 DEF NewHeadEntry
  <2>2. HoldsTheLog(p)' /\ HoldsTheSnapshots(p)' /\ HoldsTheHead(p)'
    BY <1>1, <1>4 DEF HoldsTheLog, HoldsTheHead, HoldsTheSnapshots, ReadPointsUnderLock
  <2>3. HoldsItsEntry(p)'
    BY <1>1, <1>4, <2>1 DEF HoldsItsEntry
  <2> QED BY <2>2, <2>3 DEF Knows
<1>5. CASE op[p] = "append" /\ UNCHANGED <<head, published>> /\ pc'[p] = "truncate"
  BY <1>0, <1>1, <1>5
     DEF Knows, HoldsTheLog, HoldsTheHead, HoldsItsEntry, HoldsTheSnapshots, ReadPointsUnderLock
<1> QED BY <1>0, <1>1, <1>3, <1>4, <1>5 DEF HeadWrite, Goto, Return, OnHeadError, AfterHead, Succeed

\* A rebuild goes on while a snapshot is missing.
LEMMA KnowsAfterRebuildWrite ==
  ASSUME LockInv, StoreInv, NEW p \in Procs, RebuildWrite(p)
  PROVE  Knows(p)'
<1>0. /\ ProcStep(p) /\ InCriticalSection(p) /\ pc[p] = "rebuildWrite"
      /\ op[p] \in {"rebuild", "adopt"}
  BY HolderPoint, KindOfStep DEF ProcStep, Step, RebuildStep, RebuildWrite, Holding, ReadPoints
<1>1. /\ pc \in [Procs -> PC] /\ op'[p] = op[p] /\ view'[p] = view[p] /\ entry'[p] = entry[p]
      /\ Knows(p) /\ UNCHANGED <<log, head>> /\ AtItsPoint(p)
      /\ plan \in [Procs -> [missing : SUBSET Nat, head : {"keep", "create", "repair"}]]
  BY <1>0, HolderFacts DEF RebuildWrite, StoreInv, HistoryTypes
<1>2. view[p] = log.entries /\ log.entries # <<>> /\ plan[p].missing \subseteq 1 .. Len(view[p])
  BY <1>0, <1>1 DEF Knows, HoldsTheLog, HoldsTheSnapshots, ReadPointsUnderLock
<1>3. CASE pc'[p] = "unlock"
  BY <1>3, NothingToKnowNext
<1>4. CASE LET rest == plan[p].missing \ {NextMissing(p)}
           IN  plan' = [plan EXCEPT ![p].missing = rest] /\ pc'[p] = AfterPlan(p, rest)
  <2> PICK rest \in SUBSET Nat : rest = plan[p].missing \ {NextMissing(p)}
    BY <1>1
  <2>1. plan'[p].missing = rest /\ rest \subseteq 1 .. Len(view[p])
    BY <1>1, <1>2, <1>4
  <2>2. /\ pc'[p] = "rebuildCheck" => rest # {}
        /\ pc'[p] = "headCheck" => op[p] = "adopt"
        /\ pc'[p] \in {"rebuildCheck", "headCheck", "unlock"}
    BY <1>1, <1>4 DEF AfterPlan, AtItsPoint
  <2>4. CASE pc'[p] = "rebuildCheck"
    BY <1>0, <1>1, <1>2, <2>1, <2>2, <2>4
       DEF Knows, HoldsTheLog, HoldsTheHead, HoldsItsEntry, HoldsTheSnapshots, ReadPointsUnderLock
  <2>5. CASE pc'[p] = "headCheck"
    BY <1>1, <1>2, <2>2, <2>5
       DEF Knows, HoldsTheLog, HoldsTheHead, HoldsItsEntry, HoldsTheSnapshots, ReadPointsUnderLock
  <2> QED BY <1>3, <2>2, <2>4, <2>5
<1> QED BY <1>1, <1>3, <1>4 DEF RebuildWrite, Goto, Return

\* The remaining steps end where nothing is to be known.
LEMMA KnowsAfterOther ==
  ASSUME LockInv, StoreInv, NEW p \in Procs, op[p] # "read",
         LockStep(p) \/ Inspect(p) \/ HeadCreate(p) \/ Truncate(p) \/ DropSnap(p) \/ RmFiles(p)
         \/ RmDir(p) \/ Crash(p) \/ CrashInWrite(p)
  PROVE  Knows(p)'
<1>1. pc \in [Procs -> PC]
  BY DEF LockInv, LockTypes
<1>2. CASE LockStep(p)
  <2>1. pc'[p] \in {"idle", "unlock", "unlink", "acquire", "lockWrite", "readBack", "importCheck",
                    "readLog"}
    BY <1>1, <1>2 DEF LockStep, Mkdir, Acquire, LockWrite, ReadBack, Unlock, Unlink, Goto, Return,
       AfterLock
  <2> QED BY <2>1, NothingToKnowNext
<1>3. CASE Inspect(p) \/ HeadCreate(p) \/ Truncate(p) \/ DropSnap(p)
  <2>1. pc'[p] \in {"unlock", "dropSnap", "rmFiles"}
    BY <1>1, <1>3 DEF Inspect, HeadCreate, Truncate, DropSnap, Goto, Return, OnLogError, Succeed
  <2> QED BY <2>1, NothingToKnowNext
<1>4. CASE RmFiles(p) \/ RmDir(p) \/ Crash(p) \/ CrashInWrite(p)
  <2>1. pc'[p] \in {"idle", "unlock", "rmDir"}
    BY <1>1, <1>4 DEF RmFiles, RmDir, Crash, CrashInWrite, Crashes, Goto, Return
  <2> QED BY <2>1, NothingToKnowNext
<1> QED BY <1>2, <1>3, <1>4

\* The lock holder's knowledge is kept.
LEMMA HolderStep ==
  ASSUME LockInv, StoreInv, Undisplaced, NEW p \in Procs, ProcStep(p)
  PROVE  HolderKnows'
<1>1. ASSUME InCriticalSection(p)'
      PROVE  Knows(p)'
  <2>1. op[p] # "read"
    BY <1>1, HolderFacts DEF InCriticalSection
  <2> QED BY <2>1, KnowsAfterReadLog, KnowsAfterReadHead, KnowsAfterReadSnaps, KnowsAfterValidate,
             KnowsAfterCheck, KnowsAfterSnapWrite, KnowsAfterLogInit, KnowsAfterLogWrite,
             KnowsAfterLogVerify, KnowsAfterHeadWrite, KnowsAfterRebuildWrite, KnowsAfterOther
          DEF ProcStep, Step, ReadStep, WriteStep, ImportStep, RebuildStep
<1>2. ASSUME NEW q \in Procs, InCriticalSection(q)'
      PROVE  Knows(q)'
  BY <1>1, <1>2, OthersKnow
<1> QED BY <1>2 DEF HolderKnows

----------------------------------------------------------------------------
(* The invariant is kept *)

\* A step of a running process
LEMMA StoreInvStep ==
  ASSUME LockInv, StoreInv, Undisplaced, NEW p \in Procs, ProcStep(p)
  PROVE  StoreInv'
<1>1. ChainIsPublished' /\ SnapshotsFold'
  BY FilesAfterStep DEF FilesStaySound
<1> QED BY <1>1, TypesStep, PointsStep, FreshStep, ImportsStep, HolderStep, ProposersStep,
           ReadersStep, StaleStep
        DEF StoreInv

\* What an operation starts with
StartsAs(o, e, l) ==
    \/ /\ o = "import" /\ l = "mkdir" /\ e.h = started + 1 /\ e.rev \in Revs
       /\ e.seq = 1 /\ e.prev = 0 /\ e.src = NoRev
    \/ /\ o = "append" /\ l = "acquire" /\ e.h = started + 1 /\ e.rev \in Revs
       /\ head.state = "whole"
       /\ e.seq = head.at.seq + 1 /\ e.prev = head.at.h /\ e.src = head.at.rev
    \/ o \in {"rebuild", "adopt"} /\ l = "acquire"
    \/ o = "read" /\ l = "readLog"

\* Every operation starts in one of these ways.
LEMMA StartFacts ==
  ASSUME LockInv, StoreInv, NEW p \in Procs, Start(p)
  PROVE  \E o \in AllOperations, e \in Entry, l \in {"mkdir", "acquire", "readLog"} :
            Begin(p, o, e, l) /\ StartsAs(o, e, l)
<1>1. started \in Nat /\ MaxOps \in Nat /\ head.at \in Entry
  BY ConstantsAssumption DEF LockInv, LockTypes, StoreInv, HistoryTypes, HeadFile
<1>2. ASSUME NEW r \in Revs, StartImport(p, r)
      PROVE  \E o \in AllOperations, e \in Entry, l \in {"mkdir", "acquire", "readLog"} :
                Begin(p, o, e, l) /\ StartsAs(o, e, l)
  <2> DEFINE e == [h |-> started + 1, rev |-> r, seq |-> 1, prev |-> 0, src |-> NoRev]
  <2>1. Begin(p, "import", e, "mkdir")
    BY <1>2 DEF StartImport
  <2>2. e \in Entry
    BY <1>1, <2>1 DEF Begin, Entry, Hash
  <2>3. StartsAs("import", e, "mkdir")
    BY DEF StartsAs
  <2> HIDE DEF e
  <2> QED BY <2>1, <2>2, <2>3 DEF AllOperations
<1>3. ASSUME NEW r \in Revs, StartAppend(p, r)
      PROVE  \E o \in AllOperations, e \in Entry, l \in {"mkdir", "acquire", "readLog"} :
                Begin(p, o, e, l) /\ StartsAs(o, e, l)
  <2> DEFINE e == [h |-> started + 1, rev |-> r, seq |-> head.at.seq + 1,
                   prev |-> head.at.h, src |-> head.at.rev]
  <2>1. Begin(p, "append", e, "acquire") /\ head.state = "whole"
    BY <1>3 DEF StartAppend
  <2>2. e \in Entry
    BY <1>1, <2>1 DEF Begin, Entry, Hash
  <2>3. StartsAs("append", e, "acquire")
    BY <2>1 DEF StartsAs
  <2> HIDE DEF e
  <2> QED BY <2>1, <2>2, <2>3 DEF AllOperations
<1>4. NoEntry \in Entry
  BY <1>1 DEF NoEntry, Entry, Hash
<1>5. ASSUME StartRebuild(p) \/ StartAdopt(p) \/ StartRead(p)
      PROVE  \E o \in AllOperations, e \in Entry, l \in {"mkdir", "acquire", "readLog"} :
                Begin(p, o, e, l) /\ StartsAs(o, e, l)
  BY <1>4, <1>5 DEF StartRebuild, StartAdopt, StartRead, StartsAs, AllOperations
<1> QED BY <1>2, <1>3, <1>5 DEF Start

\* A new operation, with a number nobody has used, keeps the invariant.
LEMMA StoreInvStart ==
  ASSUME LockInv, StoreInv, NEW p \in Procs, Start(p)
  PROVE  StoreInv'
<1> PICK o \in AllOperations, e \in Entry, l \in {"mkdir", "acquire", "readLog"} :
            Begin(p, o, e, l) /\ StartsAs(o, e, l)
  BY StartFacts
<1>1. /\ pc[p] = "idle" /\ started' = started + 1 /\ started < MaxOps
      /\ UNCHANGED <<dir, lockTok, lockFull, log, head, snaps, acked, published, displacements>>
  BY DEF Begin, disk, history
<1>2. /\ pc' = [pc EXCEPT ![p] = l] /\ op' = [op EXCEPT ![p] = o]
      /\ tok' = [tok EXCEPT ![p] = started + 1] /\ entry' = [entry EXCEPT ![p] = e]
      /\ view' = [view EXCEPT ![p] = <<>>]
      /\ before' = [before EXCEPT ![p] = [len |-> 0, tail |-> "absent"]]
      /\ plan' = [plan EXCEPT ![p] = [missing |-> {}, head |-> "keep"]]
      /\ floor' = [floor EXCEPT ![p] = acked]
      /\ result' = [result EXCEPT ![p] = "none"]
  BY DEF Begin, Return, Goto
<1>3. /\ pc \in [Procs -> PC] /\ op \in [Procs -> AllOperations] /\ tok \in [Procs -> Nat]
      /\ started \in Nat /\ MaxOps \in Nat
  BY ConstantsAssumption DEF LockInv, LockTypes
<1>4. /\ entry \in [Procs -> Entry] /\ view \in [Procs -> Seq(Entry)]
      /\ before \in [Procs -> [len : Nat, tail : TailState]]
      /\ plan \in [Procs -> [missing : SUBSET Nat, head : {"keep", "create", "repair"}]]
      /\ result \in [Procs -> Results] /\ floor \in [Procs -> SUBSET acked]
      /\ log \in LogFile /\ log.entries \in Seq(Entry)
  BY DEF StoreInv, HistoryTypes, LogFile
<1>5. /\ pc'[p] = l /\ op'[p] = o /\ tok'[p] = started + 1 /\ entry'[p] = e /\ view'[p] = <<>>
      /\ plan'[p].head = "keep" /\ result'[p] = "none"
  BY <1>2, <1>3, <1>4
<1>6. \A q \in Procs \ {p} :
          /\ pc'[q] = pc[q] /\ op'[q] = op[q] /\ tok'[q] = tok[q] /\ entry'[q] = entry[q]
          /\ view'[q] = view[q] /\ before'[q] = before[q] /\ plan'[q] = plan[q]
          /\ result'[q] = result[q] /\ floor'[q] = floor[q]
  BY <1>2, <1>3, <1>4
<1>7. HistoryTypes'
  <2>1. before' \in [Procs -> [len : Nat, tail : TailState]]
    BY <1>2, <1>4 DEF TailState
  <2>2. plan' \in [Procs -> [missing : SUBSET Nat, head : {"keep", "create", "repair"}]]
    BY <1>2, <1>4
  <2>3. result' \in [Procs -> Results] /\ entry' \in [Procs -> Entry]
    BY <1>2, <1>4 DEF Results
  <2>4. view' \in [Procs -> Seq(Entry)]
    BY <1>2, <1>4
  <2>5. floor' \in [Procs -> SUBSET acked']
    BY <1>1, <1>2, <1>4
  <2>6. started' <= MaxOps
    BY <1>1, <1>3
  <2> QED BY <1>1, <2>1, <2>2, <2>3, <2>4, <2>5, <2>6 DEF StoreInv, HistoryTypes
<1>8. OperationsKeepToTheirPoints'
  <2>1. ASSUME NEW q \in Procs PROVE AtItsPoint(q)'
    <3>1. CASE q = p
      BY <1>5, <3>1 DEF AtItsPoint, StartsAs, ReadPoints, ImportPoints, AppendPoints, RebuildPoints,
         AdoptPoints, LockPoints, Locking
    <3>2. CASE q # p
      BY <1>6, <3>2 DEF StoreInv, OperationsKeepToTheirPoints, AtItsPoint
    <3> QED BY <3>1, <3>2
  <2> QED BY <2>1 DEF OperationsKeepToTheirPoints
<1>9. EntriesAreNumbered'
  <2>1. ASSUME NEW q \in Procs
        PROVE  /\ op'[q] \in {"import", "append"} => entry'[q].h = tok'[q] /\ entry'[q].rev \in Revs
               /\ op'[q] = "import" => /\ entry'[q].seq = 1 /\ entry'[q].prev = 0
                                       /\ entry'[q].src = NoRev /\ view'[q] = <<>>
    <3>1. CASE q = p
      BY <1>5, <3>1 DEF StartsAs
    <3>2. CASE q # p
      BY <1>6, <3>2 DEF StoreInv, EntriesAreNumbered
    <3> QED BY <3>1, <3>2
  <2> QED BY <2>1 DEF EntriesAreNumbered
<1>10. HashesAreFresh'
  <2>1. /\ \A h \in Hashes(log.entries) : h \in Int /\ h <= started
        /\ \A q \in Procs : \A h \in Hashes(view[q]) : h \in Int /\ h <= started
    <3>1. ASSUME NEW es \in Seq(Entry), NEW h \in Hashes(es) PROVE h \in Int
      <4> PICK i \in 1 .. Len(es) : h = es[i].h
        BY DEF Hashes
      <4>1. es[i] \in Entry
        OBVIOUS
      <4> QED BY <1>3, <4>1 DEF Entry, Hash
    <3> QED BY <1>4, <3>1 DEF StoreInv, HashesAreFresh
  <2>2. \A q \in Procs : Hashes(view'[q]) \subseteq Hashes(view[q])
    <3>1. Hashes(<<>>) = {}
      BY DEF Hashes
    <3> QED BY <1>5, <1>6, <3>1
  <2>3. \A q \in Procs \ {p} : Unwritten(q)' => Unwritten(q)
    BY <1>6 DEF Unwritten
  <2>4. ASSUME NEW q \in Procs, Unwritten(q)'
        PROVE  tok'[q] \notin Hashes(log.entries) /\ \A x \in Procs : tok'[q] \notin Hashes(view[x])
    <3>1. CASE q = p
      BY <1>3, <1>5, <2>1, <3>1
    <3>2. CASE q # p
      BY <1>6, <2>3, <2>4, <3>2 DEF StoreInv, HashesAreFresh
    <3> QED BY <3>1, <3>2
  <2>5. /\ \A h \in Hashes(log.entries) : h <= started'
        /\ \A q \in Procs : \A h \in Hashes(view'[q]) : h <= started'
    <3>1. \A h \in Int : h <= started => h <= started'
      BY <1>1, <1>3
    <3> QED BY <2>1, <2>2, <3>1
  <2> QED BY <1>1, <2>2, <2>4, <2>5 DEF HashesAreFresh
<1>11. ChainIsPublished' /\ SnapshotsFold'
  BY <1>1 DEF StoreInv, ChainIsPublished, SnapshotsFold
<1>12. ImportIsAlone'
  <2>1. \A q \in Procs : Importing(q)' => q # p /\ Importing(q)
    BY <1>5, <1>6 DEF Importing, StartsAs, Locking
  <2>2. \A q \in Procs \ {p} : pc'[q] = pc[q]
    BY <1>6
  <2> QED BY <1>1, <2>1, <2>2 DEF StoreInv, ImportIsAlone
<1>13. HolderKnows'
  <2>1. Quiet
    BY <1>1 DEF Quiet
  <2>2. ~InCriticalSection(p)'
    BY <1>5 DEF InCriticalSection, Holding, StartsAs
  <2>3. ASSUME NEW q \in Procs \ {p}, InCriticalSection(q)' PROVE Knows(q)'
    <3>1. InCriticalSection(q)
      BY <1>6, <2>3 DEF InCriticalSection
    <3>2. Knows(q)
      BY <3>1 DEF StoreInv, HolderKnows
    <3> QED BY <1>6, <2>1, <3>2, KnowledgeKept
  <2> QED BY <2>2, <2>3 DEF HolderKnows
<1>14. ProposersAreBased'
  <2>1. ASSUME NEW q \in Procs, op'[q] = "append", pc'[q] # "idle"
        PROVE  /\ head.state = "whole"
               /\ \E i \in 1 .. head.at.seq :
                     /\ log.entries[i].h = entry'[q].prev /\ log.entries[i].rev = entry'[q].src
                     /\ entry'[q].seq = i + 1
    <3>1. CASE q = p
      <4>1. /\ head.state = "whole" /\ e.seq = head.at.seq + 1 /\ e.prev = head.at.h
            /\ e.src = head.at.rev
        BY <1>5, <2>1, <3>1 DEF StartsAs
      <4>2. head.at.seq \in 1 .. head.at.seq /\ log.entries[head.at.seq] = head.at
        BY <4>1 DEF StoreInv, ChainIsPublished, HistoryTypes, HeadFile, Entry
      <4> QED BY <1>5, <3>1, <4>1, <4>2
    <3>2. CASE q # p
      BY <1>6, <2>1, <3>2 DEF StoreInv, ProposersAreBased, Live
    <3> QED BY <3>1, <3>2
  <2> QED BY <1>1, <2>1 DEF ProposersAreBased, Live
<1>15. ReadersSawTheChain'
  <2>1. ASSUME NEW q \in Procs, op'[q] = "read" PROVE ReaderSawTheChain(q)'
    <3>1. CASE q = p
      BY <1>5, <2>1, <3>1 DEF ReaderSawTheChain, StartsAs, Live
    <3>2. CASE q # p
      <4>1. ReaderSawTheChain(q)
        BY <1>6, <2>1, <3>2 DEF StoreInv, ReadersSawTheChain
      <4> QED BY <1>1, <1>6, <3>2, <4>1 DEF ReaderSawTheChain, Live
    <3> QED BY <3>1, <3>2
  <2> QED BY <2>1 DEF ReadersSawTheChain
<1>16. LostRaceIsReportedStale'
  BY <1>1, <1>5, <1>6 DEF StoreInv, LostRaceIsReportedStale, Undisplaced
<1> QED BY <1>7, <1>8, <1>9, <1>10, <1>11, <1>12, <1>13, <1>14, <1>15, <1>16 DEF StoreInv

\* What the invariant is about does not include the lock file.
LEMMA StoreInvStutter ==
  ASSUME StoreInv, UNCHANGED <<dir, files, pc, result, locals, started, displacements, history>>
  PROVE  StoreInv'
<1> USE DEF files, locals, history
<1>1. HistoryTypes' /\ OperationsKeepToTheirPoints' /\ EntriesAreNumbered'
  BY DEF StoreInv, HistoryTypes, OperationsKeepToTheirPoints, AtItsPoint, EntriesAreNumbered
<1>2. HashesAreFresh' /\ ChainIsPublished' /\ SnapshotsFold'
  BY DEF StoreInv, HashesAreFresh, Unwritten, ChainIsPublished, SnapshotsFold
<1>3. ImportIsAlone'
  BY DEF StoreInv, ImportIsAlone, Importing
<1>4. HolderKnows'
  BY DEF StoreInv, HolderKnows, InCriticalSection, Knows, HoldsTheLog, HoldsTheHead, HoldsItsEntry,
         HoldsTheSnapshots
<1>5. ProposersAreBased' /\ ReadersSawTheChain'
  BY DEF StoreInv, ProposersAreBased, ReadersSawTheChain, ReaderSawTheChain, Live
<1>6. LostRaceIsReportedStale'
  BY DEF StoreInv, LostRaceIsReportedStale, Undisplaced
<1> QED BY <1>1, <1>2, <1>3, <1>4, <1>5, <1>6 DEF StoreInv

\* The invariant holds before any process has started.
LEMMA StoreInvInit ==
  ASSUME Init
  PROVE  StoreInv
<1>0. NoEntry \in Entry /\ MaxOps \in Nat
  BY ConstantsAssumption DEF NoEntry, Entry, Hash
<1>1. /\ log.entries = <<>> /\ log = NoLog /\ head = NoHead /\ head.state = "absent"
      /\ ~dir /\ published = {} /\ acked = {} /\ started = 0
  BY DEF Init, NoLog, NoHead
<1>2. \A p \in Procs : /\ pc[p] = "idle" /\ op[p] = "read" /\ view[p] = <<>>
                       /\ plan[p].head = "keep" /\ result[p] = "none" /\ floor[p] = {}
  BY DEF Init
<1>3. HistoryTypes
  <2>1. log \in LogFile /\ head \in HeadFile
    BY <1>0, <1>1 DEF NoLog, LogFile, TailState, NoHead, HeadFile, FileState
  <2>2. snaps \in [Revs -> SnapFile]
    BY EmptySnaps DEF Init
  <2>3. /\ entry \in [Procs -> Entry] /\ view \in [Procs -> Seq(Entry)]
        /\ before \in [Procs -> [len : Nat, tail : TailState]]
    BY <1>0 DEF Init, TailState
  <2>4. plan \in [Procs -> [missing : SUBSET Nat, head : {"keep", "create", "repair"}]]
    BY DEF Init
  <2>5. result \in [Procs -> Results] /\ floor \in [Procs -> SUBSET acked] /\ dir \in BOOLEAN
    BY DEF Init, Results
  <2> QED BY <1>0, <1>1, <2>1, <2>2, <2>3, <2>4, <2>5 DEF HistoryTypes
<1>4. OperationsKeepToTheirPoints /\ EntriesAreNumbered
  BY <1>2 DEF OperationsKeepToTheirPoints, AtItsPoint, ReadPoints, EntriesAreNumbered
<1>5. HashesAreFresh
  BY <1>1, <1>2 DEF HashesAreFresh, Hashes, Unwritten
<1>6. ChainIsPublished /\ SnapshotsFold
  BY <1>1 DEF ChainIsPublished, SnapshotsFold, RevsDiffer
<1>7. ImportIsAlone /\ HolderKnows
  BY <1>1, <1>2 DEF ImportIsAlone, Importing, HolderKnows, InCriticalSection, Holding
<1>8. ProposersAreBased /\ ReadersSawTheChain /\ LostRaceIsReportedStale
  BY <1>2
     DEF ProposersAreBased, ReadersSawTheChain, ReaderSawTheChain, LostRaceIsReportedStale, Live
<1> QED BY <1>3, <1>4, <1>5, <1>6, <1>7, <1>8 DEF StoreInv

\* Only the operator removes a live lock.
LEMMA StepKeepsDisplacements ==
  ASSUME NEW p \in Procs, ProcStep(p)
  PROVE  UNCHANGED displacements
<1> USE DEF EnvButIo, env
<1>1. CASE LockStep(p)
  BY <1>1 DEF LockStep, Mkdir, Acquire, LockWrite, ReadBack, Unlock, Unlink
<1>2. CASE ReadStep(p)
  BY <1>2 DEF ReadStep, ReadLog, ReadHead, ReadSnaps, Inspect
<1>3. CASE WriteStep(p)
  BY <1>3 DEF WriteStep, ValidateAppend, SnapCheck, SnapWrite, LogCheck, LogWrite, LogVerify,
              HeadCheck, HeadWrite, HeadCreate, Truncate, DropSnap, StillOwned
<1>4. CASE ImportStep(p) \/ RebuildStep(p)
  BY <1>4 DEF ImportStep, ImportCheck, LogInit, RmFiles, RmDir, RebuildStep, RebuildCheck,
              RebuildWrite, StillOwned
<1>5. CASE Crash(p) \/ CrashInWrite(p)
  BY <1>5 DEF Crash, CrashInWrite, Crashes
<1> QED BY <1>1, <1>2, <1>3, <1>4, <1>5 DEF ProcStep, Step

\* While no live lock has been removed, every step keeps the invariant.
LEMMA StoreInvNext ==
  ASSUME LockInv, Undisplaced => StoreInv, [Next]_vars
  PROVE  (Undisplaced => StoreInv)'
<1> SUFFICES ASSUME Undisplaced' PROVE StoreInv'
  OBVIOUS
<1>0. displacements \in Nat
  BY DEF LockInv, LockTypes
<1>1. ASSUME NEW p \in Procs, Start(p) PROVE StoreInv'
  <2>1. UNCHANGED displacements
    BY <1>1 DEF Start, StartImport, StartAppend, StartRebuild, StartAdopt, StartRead, Begin
  <2> QED BY <1>1, <2>1, StoreInvStart DEF Undisplaced
<1>2. ASSUME NEW p \in Procs, ProcStep(p) PROVE StoreInv'
  <2>1. UNCHANGED displacements
    BY <1>2, StepKeepsDisplacements
  <2> QED BY <1>2, <2>1, StoreInvStep DEF Undisplaced
<1>3. CASE OperatorClearsStaleLock
  <2>1. UNCHANGED <<dir, files, pc, result, locals, started, displacements, history>>
    BY <1>3 DEF OperatorClearsStaleLock, env
  <2> QED BY <2>1, StoreInvStutter DEF Undisplaced
<1>4. CASE OperatorDisplaces
  BY <1>0, <1>4 DEF OperatorDisplaces, Undisplaced
<1>5. CASE UNCHANGED vars
  <2>1. UNCHANGED <<dir, files, pc, result, locals, started, displacements, history>>
    BY <1>5 DEF vars, disk, files, env
  <2> QED BY <2>1, StoreInvStutter DEF Undisplaced
<1> QED BY <1>1, <1>2, <1>3, <1>4, <1>5 DEF Next, ProcStep

\* What the invariant says about the files and the answers
LEMMA StoreInvImplies ==
  ASSUME LockInv, Undisplaced => StoreInv
  PROVE  HistoryIsSound /\ AcknowledgedEntriesStay /\ AnswersAreTrue
<1>1. ChainIntact
  BY DEF ChainIntact, StoreInv, ChainIsPublished
<1>2. HeadLagsByAtMostOne
  BY DEF HeadLagsByAtMostOne, StoreInv, ChainIsPublished
<1>3. LoggedSnapshotsAgree
  BY DEF LoggedSnapshotsAgree, StoreInv, SnapshotsFold
<1>4. AcknowledgedEntriesStay
  <2> SUFFICES ASSUME Undisplaced, NEW h \in acked
               PROVE  \E i \in 1 .. Len(log.entries) : log.entries[i].h = h
    BY DEF AcknowledgedEntriesStay
  <2>1. h \in published /\ head.state = "whole"
    BY DEF StoreInv, ChainIsPublished
  <2>2. /\ head.at.seq \in {Len(log.entries) - 1, Len(log.entries)}
        /\ h \in {log.entries[i].h : i \in 1 .. head.at.seq}
    BY <2>1 DEF StoreInv, ChainIsPublished
  <2>3. Len(log.entries) \in Nat
    BY LogType DEF StoreInv, HistoryTypes, FileTypes
  <2> QED BY <2>2, <2>3
<1>5. ReadsAreCommitted
  BY DEF ReadsAreCommitted, StoreInv, ReadersSawTheChain, ReaderSawTheChain, Hashes
<1>6. LostRaceIsReportedStale
  BY DEF StoreInv, LostRaceIsReportedStale
<1> QED BY <1>1, <1>2, <1>3, <1>4, <1>5, <1>6 DEF HistoryIsSound, AnswersAreTrue

\* The files of a case are sound and its answers true in every reachable state.
LEMMA StoreIsSound ==
  Spec => [](HistoryIsSound /\ AcknowledgedEntriesStay /\ AnswersAreTrue)
<1> DEFINE Inv == LockInv /\ ImportControl /\ (Undisplaced => StoreInv)
<1>1. Init => Inv
  <2>1. Init => ImportControl
    BY DEF Init, ImportControl
  <2> QED BY <2>1, LockInit, StoreInvInit
<1>2. Inv /\ [Next]_vars => Inv'
  BY LockNext, ImportControlStep, StoreInvNext
<1>3. Inv => HistoryIsSound /\ AcknowledgedEntriesStay /\ AnswersAreTrue
  BY StoreInvImplies
<1> QED BY <1>1, <1>2, <1>3, PTL DEF Spec

\* Between any two file-system calls and after any crash the log is one hash
\* chain, the head is at its tail or one entry behind, and every snapshot of a
\* logged revision is what its prefix of the chain folds to, for any number of
\* processes, operations, crashes and failing calls.
THEOREM HistoryIsSoundHolds == Spec => []HistoryIsSound
BY StoreIsSound, PTL

\* No rollback, crash, rebuild or competing writer ever removes an entry whose
\* append or import returned success.
THEOREM AcknowledgedEntriesStayHolds == Spec => []AcknowledgedEntriesStay
BY StoreIsSound, PTL

\* A reader without a lock only returns published states that hold everything
\* acknowledged before it began, and a lost race is reported as one.
THEOREM AnswersAreTrueHolds == Spec => []AnswersAreTrue
BY StoreIsSound, PTL

=============================================================================
