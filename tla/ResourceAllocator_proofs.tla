---------------------- MODULE ResourceAllocator_proofs ----------------------
(***************************************************************************)
(* Proofs about ResourceAllocator and OccupancyIndex.                      *)
(*                                                                         *)
(* Among allocators that take the lock, a process decides every request on *)
(* the whole journal, and the allocator implements AllocatorLedger.  The   *)
(* argument: the files of the directory always hold exactly the events of  *)
(* the journal; a sequence number that is only archived is covered by a    *)
(* checkpoint; what a process has in memory is a prefix of the journal, so *)
(* that a missing file at the next sequence number means that it is all of *)
(* it; and only the holder of the lock publishes.                          *)
(*                                                                         *)
(* The occupancy index adds and subtracts units where the protocol sums    *)
(* them up anew: the sums are shown to be what the index keeps.            *)
(*                                                                         *)
(* A writer that takes no lock publishes with the same create-new link.    *)
(* While nothing is archived every event has its active file, so that the  *)
(* link succeeds only behind the whole journal.                            *)
(***************************************************************************)
EXTENDS ResourceAllocator, OccupancyIndex, SequenceTheorems, FiniteSetTheorems,
        WellFoundedInduction, NaturalsInduction, TLAPS

\* A sequence of events that another one extends
PrefixOf(es, fs) ==
    /\ es \in Seq(Event)
    /\ Len(es) <= Len(fs)
    /\ \A i \in 1 .. Len(es) : es[i] = fs[i]
IsJournalPrefix(es) == PrefixOf(es, journal)

Inside(p) == pc[p] \notin {"idle", "lock"}

JournalInv ==
    /\ journal \in Seq(Event)
    /\ Len(journal) <= MaxEvents
    /\ \A i \in 1 .. Len(journal) : journal[i].h = i

\* What the files hold
DiskInv ==
    /\ active = [n \in Seqs |-> active[n]]
    /\ archive = [n \in Seqs |-> archive[n]]
    /\ \A n \in Seqs : active[n] # NoEvent => n <= Len(journal) /\ active[n] = journal[n]
    /\ \A n \in Seqs : archive[n] # NoEvent => n <= Len(journal) /\ archive[n] = journal[n]
    /\ \A n \in 1 .. Len(journal) : active[n] # NoEvent \/ archive[n] # NoEvent
    /\ \A c \in checkpoints : IsJournalPrefix(c)
    /\ checkpoints # {} => \E c \in checkpoints : \A d \in checkpoints : Len(d) <= Len(c)
    /\ \A n \in 1 .. Len(journal) : active[n] = NoEvent =>
          \E c \in checkpoints : n <= Len(c)

\* The records keep their fields.
CallShape(c) == c = [stage |-> c.stage, request |-> c.request, binding |-> c.binding,
                     proof |-> c.proof, todo |-> c.todo]
CacheShape(c) == c = [set |-> c.set, st |-> [events |-> c.st.events, base |-> c.st.base],
                      checkpoints |-> c.checkpoints, compactions |-> c.compactions]

\* What one process knows at each point of its call
CallInv(p) ==
    /\ CallShape(call[p]) /\ CacheShape(cache[p])
    /\ Inside(p) => lock = p
    /\ IsJournalPrefix(cache[p].st.events)
    /\ pc[p] \in {"decide", "link", "hint"} => cache[p].st.events = journal
    /\ pc[p] = "sync" => /\ Len(journal) = Len(cache[p].st.events) + 1
                         /\ active[Len(journal)] = journal[Len(journal)]
    /\ call[p].stage \in Stages
    /\ call[p].stage \in {"lookup", "append"} => call[p].request \in Requests
    /\ pc[p] = "link" =>
          /\ call[p].stage = "append"
          /\ Len(journal) < MaxEvents
          /\ ~Ledger!KeyUsed(RequestsOf(journal), call[p].request.key)
          /\ Ledger!Admissible(RequestsOf(journal), call[p].request)
    /\ call[p].proof \in Seq(Event)
    /\ pc[p] \in {"archive", "record"} => call[p].proof = <<>> \/ call[p].proof \in checkpoints
    /\ call[p].todo \subseteq Seqs
    /\ \A n \in call[p].todo : \E c \in checkpoints : n <= Len(c)
    /\ pc[p] = "delete" => call[p].todo # {}

ProcsInv ==
    /\ pc = [p \in Procs |-> pc[p]]
    /\ cache = [p \in Procs |-> cache[p]]
    /\ call = [p \in Procs |-> call[p]]
    /\ \A p \in Procs : CallInv(p)

Inv == JournalInv /\ DiskInv /\ ProcsInv

\* The inductive invariant
IndInv == olderWrites \in Nat /\ (OnlyLockedWriters => Inv)

----------------------------------------------------------------------------
(* Replay yields the journal *)

\* The bounds are numbers.
LEMMA Bounds == MaxEvents \in Nat /\ Retain \in Nat /\ MaxOlderWrites \in Nat
BY AllocatorAssumption

\* The size of an interval
LEMMA IntervalSize ==
    ASSUME NEW a \in Int, NEW b \in Int, a <= b + 1
    PROVE  Cardinality(a .. b) = b - a + 1
<1>1. Cardinality(a .. b) = IF a > b THEN 0 ELSE b - a + 1
  BY FS_Interval, Zenon
<1>2. QED
  BY <1>1

\* The length of a sequence written as a function
LEMMA FunctionLength ==
    ASSUME NEW S, NEW n \in Nat, NEW f \in [1 .. n -> S]
    PROVE  f \in Seq(S) /\ Len(f) = n
<1>1. f \in Seq(S)
  BY SeqDef
<1>2. Len(f) \in Nat /\ DOMAIN f = 1 .. Len(f) /\ DOMAIN f = 1 .. n
  BY <1>1, LenProperties
<1>3. QED
  BY <1>1, <1>2

\* A prefix of the journal that is as long as the journal is the journal.
LEMMA WholePrefix ==
    ASSUME NEW es, JournalInv, IsJournalPrefix(es), Len(es) >= Len(journal)
    PROVE  es = journal
<1>1. Len(es) = Len(journal)
  BY LenProperties, SMT DEF JournalInv, IsJournalPrefix, PrefixOf
<1>2. QED
  BY <1>1, SeqEqual DEF JournalInv, IsJournalPrefix, PrefixOf

\* The event file of a sequence number is the journal's event.
LEMMA AtIsJournal ==
    ASSUME JournalInv, DiskInv
    PROVE  /\ Present = 1 .. Len(journal)
           /\ \A n \in 1 .. Len(journal) : At(n) = journal[n]
<1>1. Len(journal) \in Nat /\ \A n \in 1 .. Len(journal) : n \in Seqs
  BY LenProperties, Bounds DEF JournalInv, Seqs
<1>2. ASSUME NEW n \in 1 .. Len(journal)
      PROVE  At(n) = journal[n] /\ At(n) # NoEvent
  <2>1. journal[n] \in Event
    BY ElementOfSeq DEF JournalInv
  <2>2. QED
    BY <1>1, <2>1, NoEventAssumption DEF DiskInv, At
<1>3. ASSUME NEW n \in Seqs, At(n) # NoEvent
      PROVE  n \in 1 .. Len(journal)
  BY <1>1, <1>3, Bounds DEF DiskInv, At, Seqs
<1>4. Present \subseteq 1 .. Len(journal)
  BY <1>3 DEF Present
<1>5. 1 .. Len(journal) \subseteq Present
  BY <1>1, <1>2 DEF Present
<1>6. QED
  BY <1>2, <1>4, <1>5

\* full_replay returns the whole journal.
LEMMA FullReplayIsJournal ==
    ASSUME JournalInv, DiskInv
    PROVE  FullReplay.events = journal
<1> DEFINE es == [n \in 1 .. Cardinality(Present) |-> At(n)]
<1>1. Len(journal) \in Nat /\ journal \in Seq(Event)
  BY LenProperties DEF JournalInv
<1>2. Cardinality(Present) = Len(journal)
  <2> DEFINE one == 1
  <2>1. one \in Int /\ Len(journal) \in Int /\ one <= Len(journal) + 1
    BY <1>1
  <2> HIDE DEF one
  <2>2. Cardinality(one .. Len(journal)) = Len(journal) - one + 1
    BY <2>1, IntervalSize
  <2>3. QED
    BY <1>1, <2>2, AtIsJournal DEF one
<1>3. es = [n \in 1 .. Len(journal) |-> journal[n]]
  BY <1>2, AtIsJournal
<1>4. es = journal
  BY <1>1, <1>3, LenProperties
<1>5. QED
  BY <1>4 DEF FullReplay

\* The newest checkpoint is a checkpoint, and the longest.
LEMMA LatestIsLongest ==
    ASSUME DiskInv, checkpoints # {}
    PROVE  /\ LatestCheckpoint \in checkpoints
           /\ \A d \in checkpoints : Len(d) <= Len(LatestCheckpoint)
BY DEF DiskInv, LatestCheckpoint

\* What lies behind the newest checkpoint is in active files.
LEMMA LatestCoversArchived ==
    ASSUME JournalInv, DiskInv
    PROVE  /\ IsJournalPrefix(LatestCheckpoint)
           /\ {n \in Seqs : n > Len(LatestCheckpoint) /\ active[n] # NoEvent}
                 = Len(LatestCheckpoint) + 1 .. Len(journal)
           /\ \A n \in Len(LatestCheckpoint) + 1 .. Len(journal) : active[n] = journal[n]
<1> DEFINE c == LatestCheckpoint
           suffix == {n \in Seqs : n > Len(c) /\ active[n] # NoEvent}
<1>1. Len(journal) \in Nat /\ journal \in Seq(Event) /\ Len(journal) <= MaxEvents
  BY LenProperties DEF JournalInv
<1>2. IsJournalPrefix(c)
  <2>1. CASE checkpoints = {}
    BY <2>1, <1>1, EmptySeq DEF LatestCheckpoint, IsJournalPrefix, PrefixOf
  <2>2. CASE checkpoints # {}
    BY <2>2, LatestIsLongest DEF DiskInv
  <2>3. QED
    BY <2>1, <2>2
<1>3. c \in Seq(Event) /\ Len(c) \in Nat /\ Len(c) <= Len(journal)
  BY <1>2, LenProperties DEF IsJournalPrefix, PrefixOf
<1>4. ASSUME NEW n \in Len(c) + 1 .. Len(journal)
      PROVE  n \in Seqs /\ active[n] = journal[n] /\ active[n] # NoEvent
  <2>1. n \in Seqs /\ n \in 1 .. Len(journal)
    BY <1>1, <1>3, Bounds DEF Seqs
  <2>2. active[n] # NoEvent
    <3>1. ASSUME active[n] = NoEvent PROVE FALSE
      <4>1. PICK d \in checkpoints : n <= Len(d)
        BY <2>1, <3>1 DEF DiskInv
      <4>2. Len(d) <= Len(c)
        BY <4>1, LatestIsLongest
      <4>3. Len(d) \in Nat
        BY LenProperties DEF DiskInv, IsJournalPrefix, PrefixOf
      <4>4. QED
        BY <1>3, <4>1, <4>2, <4>3
    <3>2. QED
      BY <3>1
  <2>3. QED
    BY <2>1, <2>2 DEF DiskInv
<1>5. ASSUME NEW n \in suffix
      PROVE  n \in Len(c) + 1 .. Len(journal)
  BY <1>1, <1>3, Bounds DEF DiskInv, Seqs
<1>6. suffix = Len(c) + 1 .. Len(journal)
  BY <1>4, <1>5, <1>1, <1>3
<1>7. QED
  BY <1>2, <1>4, <1>6

\* replay, from the newest checkpoint, returns the whole journal.
LEMMA ReplayIsJournal ==
    ASSUME JournalInv, DiskInv
    PROVE  Replay.events = journal
<1> DEFINE c == LatestCheckpoint
           suffix == {n \in Seqs : n > Len(c) /\ active[n] # NoEvent}
           tail == [i \in 1 .. Cardinality(suffix) |-> active[Len(c) + i]]
<1>1. Len(journal) \in Nat /\ journal \in Seq(Event) /\ Len(journal) <= MaxEvents
  BY LenProperties DEF JournalInv
<1>2. IsJournalPrefix(c)
  BY LatestCoversArchived
<1>3. c \in Seq(Event) /\ Len(c) \in Nat /\ Len(c) <= Len(journal)
  BY <1>2, LenProperties DEF IsJournalPrefix, PrefixOf
<1>4. \A n \in Len(c) + 1 .. Len(journal) : active[n] = journal[n]
  BY LatestCoversArchived
<1>6. suffix = Len(c) + 1 .. Len(journal)
  BY LatestCoversArchived
<1>7. Cardinality(suffix) = Len(journal) - Len(c)
  <2> HIDE DEF suffix, c
  <2> DEFINE k == Len(c) + 1
  <2>1. k \in Int /\ Len(journal) \in Int /\ k <= Len(journal) + 1
    BY <1>1, <1>3
  <2> HIDE DEF k
  <2>2. Cardinality(k .. Len(journal)) = Len(journal) - k + 1
    BY <2>1, IntervalSize
  <2>3. QED
    BY <2>2, <1>1, <1>3, <1>6 DEF k
<1>8. tail \in Seq(Event) /\ Len(tail) = Len(journal) - Len(c)
      /\ \A i \in 1 .. Len(tail) : tail[i] = journal[Len(c) + i]
  <2>1. \A i \in 1 .. Len(journal) - Len(c) : active[Len(c) + i] = journal[Len(c) + i]
    BY <1>1, <1>3, <1>4
  <2>2. \A i \in 1 .. Len(journal) - Len(c) : active[Len(c) + i] \in Event
    <3>1. \A j \in 1 .. Len(journal) : journal[j] \in Event
      BY <1>1, ElementOfSeq
    <3> HIDE DEF c
    <3>2. QED
      BY <1>1, <1>3, <2>1, <3>1
  <2>3. tail = [i \in 1 .. Len(journal) - Len(c) |-> active[Len(c) + i]]
    BY <1>7
  <2>4. tail \in [1 .. Len(journal) - Len(c) -> Event]
    BY <2>2, <2>3
  <2>5. Len(journal) - Len(c) \in Nat
    BY <1>1, <1>3
  <2>6. QED
    <3> HIDE DEF c, tail
    <3>1. tail \in Seq(Event) /\ Len(tail) = Len(journal) - Len(c)
      BY <2>4, <2>5, FunctionLength
    <3>2. QED
      BY <3>1, <2>1, <2>3
<1>9. c \o tail = journal
  <2> HIDE DEF c, tail
  <2>1. /\ c \o tail \in Seq(Event) /\ Len(c \o tail) = Len(journal)
        /\ \A i \in 1 .. Len(journal) :
              (c \o tail)[i] = IF i <= Len(c) THEN c[i] ELSE tail[i - Len(c)]
    BY <1>1, <1>3, <1>8, ConcatProperties
  <2>2. \A i \in 1 .. Len(journal) : (c \o tail)[i] = journal[i]
    <3>1. \A i \in 1 .. Len(c) : c[i] = journal[i]
      BY <1>2 DEF IsJournalPrefix, PrefixOf
    <3>2. ASSUME NEW i \in 1 .. Len(journal), i > Len(c)
          PROVE  tail[i - Len(c)] = journal[i]
      <4>1. i - Len(c) \in 1 .. Len(tail) /\ Len(c) + (i - Len(c)) = i
        BY <1>1, <1>3, <1>8, <3>2
      <4>2. QED
        BY <1>8, <4>1
    <3>3. ASSUME NEW i \in 1 .. Len(journal)
          PROVE  (c \o tail)[i] = journal[i]
      <4>1. (c \o tail)[i] = IF i <= Len(c) THEN c[i] ELSE tail[i - Len(c)]
        BY <2>1
      <4>2. CASE i <= Len(c)
        <5>1. i \in 1 .. Len(c)
          BY <1>3, <4>2
        <5>2. QED
          BY <3>1, <4>1, <4>2, <5>1
      <4>3. CASE ~(i <= Len(c))
        <5>1. i > Len(c)
          BY <1>3, <4>3
        <5>2. QED
          BY <3>2, <4>1, <4>3, <5>1
      <4>4. QED
        BY <4>2, <4>3
    <3>4. QED
      BY <3>3
  <2>3. QED
    BY <1>1, <2>1, <2>2, SeqEqual
<1>10. QED
  BY <1>9 DEF Replay

\* No file behind what a process has in memory: it has the whole journal.
LEMMA ProbeFindsEnd ==
    ASSUME NEW es, JournalInv, DiskInv, IsJournalPrefix(es), Len(es) + 1 \notin Present
    PROVE  es = journal
<1>1. Len(es) \in Nat /\ Len(journal) \in Nat
  BY LenProperties DEF JournalInv, IsJournalPrefix, PrefixOf
<1>2. Len(es) >= Len(journal)
  BY <1>1, AtIsJournal
<1>3. QED
  BY <1>2, WholePrefix

----------------------------------------------------------------------------
(* What a step of one process leaves to the others *)

\* Prefixes of the journal stay prefixes when the journal grows.
LEMMA PrefixTransitive ==
    ASSUME NEW es, NEW fs, NEW gs, PrefixOf(es, fs), PrefixOf(fs, gs), gs \in Seq(Event)
    PROVE  PrefixOf(es, gs)
<1>1. Len(es) \in Nat /\ Len(fs) \in Nat /\ Len(gs) \in Nat
  BY LenProperties DEF PrefixOf
<1>2. QED
  BY <1>1 DEF PrefixOf

\* The journal is a prefix of itself.
LEMMA PrefixReflexive ==
    ASSUME NEW es \in Seq(Event)
    PROVE  PrefixOf(es, es)
BY LenProperties DEF PrefixOf

\* A step that touches nothing of a process keeps what the process knows.
LEMMA OtherKeepsInv ==
    ASSUME NEW q \in Procs, CallInv(q),
           pc'[q] = pc[q], call'[q] = call[q], cache'[q] = cache[q],
           PrefixOf(journal, journal'), journal' \in Seq(Event),
           checkpoints \subseteq checkpoints',
           Inside(q) => lock' = q /\ journal' = journal /\ active' = active
    PROVE  CallInv(q)'
<1>1. PrefixOf(cache'[q].st.events, journal')
  <2>1. PrefixOf(cache[q].st.events, journal)
    BY DEF CallInv, IsJournalPrefix
  <2>2. QED
    BY <2>1, PrefixTransitive
<1>2. /\ CallShape(call'[q]) /\ CacheShape(cache'[q])
      /\ call'[q].stage \in Stages
      /\ call'[q].stage \in {"lookup", "append"} => call'[q].request \in Requests
      /\ call'[q].proof \in Seq(Event)
      /\ call'[q].todo \subseteq Seqs
      /\ \A n \in call'[q].todo : \E c \in checkpoints' : n <= Len(c)
  BY DEF CallInv
<1>3. CASE ~Inside(q)
  <2>1. pc'[q] \in {"idle", "lock"}
    BY <1>3 DEF Inside
  <2>2. QED
    BY <1>1, <1>2, <2>1 DEF CallInv, Inside, IsJournalPrefix
<1>4. CASE Inside(q)
  <2>1. lock' = q /\ journal' = journal /\ active' = active
    BY <1>4
  <2>2. /\ pc'[q] \in {"decide", "link", "hint"} => cache'[q].st.events = journal'
        /\ pc'[q] = "sync" => /\ Len(journal') = Len(cache'[q].st.events) + 1
                              /\ active'[Len(journal')] = journal'[Len(journal')]
        /\ pc'[q] = "link" =>
              /\ call'[q].stage = "append"
              /\ Len(journal') < MaxEvents
              /\ ~Ledger!KeyUsed(RequestsOf(journal'), call'[q].request.key)
              /\ Ledger!Admissible(RequestsOf(journal'), call'[q].request)
        /\ pc'[q] \in {"archive", "record"} =>
              call'[q].proof = <<>> \/ call'[q].proof \in checkpoints'
        /\ pc'[q] = "delete" => call'[q].todo # {}
    BY <2>1 DEF CallInv
  <2>3. QED
    BY <1>1, <1>2, <2>1, <2>2 DEF CallInv, Inside, IsJournalPrefix
<1>5. QED
  BY <1>3, <1>4

\* The step changes the variables of process p only.
OnlyOf(p) ==
    /\ pc' = [pc EXCEPT ![p] = pc'[p]]
    /\ call' = [call EXCEPT ![p] = call'[p]]
    /\ cache' = [cache EXCEPT ![p] = cache'[p]]

\* A step of a process keeps ProcsInv when the process itself does.
LEMMA ProcsStep ==
    ASSUME NEW p \in Procs, ProcsInv, OnlyOf(p), CallInv(p)',
           PrefixOf(journal, journal'), journal' \in Seq(Event),
           checkpoints \subseteq checkpoints',
           \A q \in Procs \ {p} :
              Inside(q) => lock' = q /\ journal' = journal /\ active' = active
    PROVE  ProcsInv'
<1>1. ASSUME NEW q \in Procs, q # p PROVE CallInv(q)'
  <2>1. pc'[q] = pc[q] /\ call'[q] = call[q] /\ cache'[q] = cache[q]
    BY <1>1 DEF OnlyOf, ProcsInv
  <2>2. CallInv(q)
    BY DEF ProcsInv
  <2>3. QED
    BY <1>1, <2>1, <2>2, OtherKeepsInv
<1>2. /\ pc' = [q \in Procs |-> pc'[q]]
      /\ cache' = [q \in Procs |-> cache'[q]]
      /\ call' = [q \in Procs |-> call'[q]]
  BY DEF OnlyOf, ProcsInv
<1>3. QED
  BY <1>1, <1>2 DEF ProcsInv

\* The same for a step that leaves the files and the journal alone, of a process
\* that holds the lock.
LEMMA InsideStep ==
    ASSUME NEW p \in Procs, Inv, Inside(p), OnlyOf(p), CallInv(p)',
           journal' = journal, active' = active, archive' = archive,
           checkpoints' = checkpoints
    PROVE  Inv'
<1>1. JournalInv' /\ DiskInv'
  BY DEF Inv, JournalInv, DiskInv, IsJournalPrefix
<1>2. \A q \in Procs \ {p} : ~Inside(q)
  BY DEF Inv, ProcsInv, CallInv
<1>3. ProcsInv'
  <2>1. journal \in Seq(Event) /\ PrefixOf(journal, journal')
    BY PrefixReflexive DEF Inv, JournalInv
  <2>2. QED
    BY <1>2, <2>1, ProcsStep DEF Inv
<1>4. QED
  BY <1>1, <1>3 DEF Inv

----------------------------------------------------------------------------
(* Ends of a call *)

\* What a process outside the lock has to know
OutsideInv(p) ==
    /\ CallShape(call[p]) /\ CacheShape(cache[p])
    /\ IsJournalPrefix(cache[p].st.events)
    /\ call[p].stage \in Stages
    /\ call[p].stage \in {"lookup", "append"} => call[p].request \in Requests
    /\ call[p].proof \in Seq(Event)
    /\ call[p].todo \subseteq Seqs
    /\ \A n \in call[p].todo : \E c \in checkpoints : n <= Len(c)

\* It is all that CallInv asks of it.
LEMMA OutsideSuffices ==
    ASSUME NEW p \in Procs, pc'[p] \in {"idle", "lock"}, OutsideInv(p)'
    PROVE  CallInv(p)'
BY DEF OutsideInv, CallInv, Inside

\* The cleared call and the cleared cache
LEMMA ClearedRecords ==
    /\ CallShape(NoCall) /\ CacheShape(NoCache)
    /\ NoCall.stage = "none" /\ NoCall.stage \in Stages /\ NoCall.proof = <<>> /\ NoCall.todo = {}
    /\ <<>> \in Seq(Event)
    /\ NoCache.st.events = <<>>
BY EmptySeq DEF CallShape, CacheShape, NoCall, NoCache, Stages

\* A call goes to another stage.
LEMMA StageOnly ==
    ASSUME NEW d, CallShape(d), NEW s, NEW c, c = [d EXCEPT !.stage = s]
    PROVE  /\ CallShape(c) /\ c.stage = s /\ c.request = d.request
           /\ c.proof = d.proof /\ c.todo = d.todo
BY DEF CallShape

\* A cache record that is written down has its fields.
LEMMA CacheRecord ==
    ASSUME NEW b, NEW es, NEW base, NEW cs, NEW ds, NEW c,
           c = [set |-> b, st |-> [events |-> es, base |-> base],
                checkpoints |-> cs, compactions |-> ds]
    PROVE  CacheShape(c) /\ c.st.events = es
BY DEF CacheShape

\* The empty sequence is a prefix of every sequence.
LEMMA EmptyPrefix ==
    ASSUME NEW es \in Seq(Event)
    PROVE  PrefixOf(<<>>, es)
BY EmptySeq, LenProperties DEF PrefixOf

\* A call that ends under the lock, with the files as they were
LEMMA FinishStep ==
    ASSUME NEW p \in Procs, NEW r, Inv, Inside(p), Finish(p, r),
           cache' = cache \/ cache' = [cache EXCEPT ![p] = NoCache],
           journal' = journal, active' = active, archive' = archive,
           checkpoints' = checkpoints
    PROVE  Inv'
<1>1. /\ pc' = [pc EXCEPT ![p] = "idle"] /\ pc'[p] = "idle"
      /\ call' = [call EXCEPT ![p] = NoCall] /\ call'[p] = NoCall
  BY DEF Finish, Goto, Inv, ProcsInv
<1>2. CallInv(p) /\ cache'[p] \in {cache[p], NoCache} /\ OnlyOf(p)
  BY <1>1 DEF Inv, ProcsInv, OnlyOf
<1>3. CacheShape(cache'[p]) /\ PrefixOf(cache'[p].st.events, journal')
  BY <1>2, ClearedRecords, EmptyPrefix DEF CallInv, Inv, JournalInv, IsJournalPrefix
<1>4. OutsideInv(p)'
  BY <1>1, <1>3, ClearedRecords DEF OutsideInv, IsJournalPrefix
<1>5. CallInv(p)'
  BY <1>1, <1>4, OutsideSuffices
<1>6. QED
  BY <1>2, <1>5, InsideStep

\* A call that goes on to the next one of its host
LEMMA NextCallStep ==
    ASSUME NEW p \in Procs, NEW c, Inv, Inside(p), NextCall(p, c),
           CallShape(c), c.stage \in Stages,
           c.stage \in {"lookup", "append"} => c.request \in Requests,
           c.proof \in Seq(Event), c.todo \subseteq Seqs,
           \A n \in c.todo : \E d \in checkpoints : n <= Len(d),
           cache' = [cache EXCEPT ![p] = cache'[p]], CacheShape(cache'[p]),
           IsJournalPrefix(cache'[p].st.events),
           journal' = journal, active' = active, archive' = archive,
           checkpoints' = checkpoints
    PROVE  Inv'
<1>1. /\ pc' = [pc EXCEPT ![p] = "lock"] /\ pc'[p] = "lock"
      /\ call' = [call EXCEPT ![p] = c] /\ call'[p] = c
  BY DEF NextCall, Goto, Inv, ProcsInv
<1>2. OnlyOf(p)
  BY <1>1 DEF OnlyOf
<1>3. OutsideInv(p)'
  BY <1>1 DEF OutsideInv, IsJournalPrefix
<1>4. CallInv(p)'
  BY <1>1, <1>3, OutsideSuffices
<1>5. QED
  BY <1>2, <1>4, InsideStep

----------------------------------------------------------------------------
(* The steps of a process *)

\* A call begins.
LEMMA BeginStep ==
    ASSUME NEW p \in Procs, NEW q, NEW s \in Stages, Inv, Begin(p, q, s),
           s \in {"lookup", "append"} => q \in Requests
    PROVE  Inv'
<1>1. UNCHANGED <<active, archive, checkpoints, lock, cache, journal>>
  BY DEF Begin, disk, files, history
<1>2. CallInv(p) /\ CallShape(call[p]) /\ pc[p] = "idle"
  BY DEF Inv, ProcsInv, CallInv, Begin
<1>3. /\ pc' = [pc EXCEPT ![p] = "lock"] /\ pc'[p] = "lock"
      /\ call' = [call EXCEPT ![p] = call'[p]]
      /\ call'[p] = [call[p] EXCEPT !.request = q, !.stage = s]
  BY DEF Begin, Goto, Inv, ProcsInv
<1>4. /\ CallShape(call'[p]) /\ call'[p].request = q /\ call'[p].stage = s
      /\ call'[p].proof = call[p].proof /\ call'[p].todo = call[p].todo
  BY <1>2, <1>3 DEF CallShape
<1>5. OnlyOf(p)
  BY <1>1, <1>3 DEF OnlyOf, Inv, ProcsInv
<1>6. OutsideInv(p)'
  BY <1>1, <1>2, <1>4 DEF OutsideInv, CallInv, IsJournalPrefix
<1>7. CallInv(p)'
  BY <1>3, <1>6, OutsideSuffices
<1>8. JournalInv' /\ DiskInv'
  BY <1>1 DEF Inv, JournalInv, DiskInv, IsJournalPrefix
<1>9. \A r \in Procs : Inside(r) => lock' = r
  BY <1>1 DEF Inv, ProcsInv, CallInv
<1>10. journal \in Seq(Event) /\ PrefixOf(journal, journal')
  BY <1>1, PrefixReflexive DEF Inv, JournalInv
<1>11. QED
  BY <1>1, <1>5, <1>7, <1>8, <1>9, <1>10, ProcsStep DEF Inv

\* A process takes the lock, or gives up.
LEMMA AcquireStep ==
    ASSUME NEW p \in Procs, Inv, AcquireWriterLock(p)
    PROVE  Inv'
<1>1. UNCHANGED <<active, archive, checkpoints, cache, journal>>
  BY DEF AcquireWriterLock, disk, files, history
<1>2. CallInv(p) /\ pc[p] = "lock"
  BY DEF Inv, ProcsInv, AcquireWriterLock
<1>3. JournalInv' /\ DiskInv'
  BY <1>1 DEF Inv, JournalInv, DiskInv, IsJournalPrefix
<1>4. journal \in Seq(Event) /\ PrefixOf(journal, journal')
  BY <1>1, PrefixReflexive DEF Inv, JournalInv
<1>5. CASE lock = NoProc
  <2> DEFINE l == IF Stage(p) \in {"lookup", "append", "snapshot"} THEN "load" ELSE Stage(p)
  <2>1. lock' = p /\ call' = call /\ pc' = [pc EXCEPT ![p] = l] /\ pc'[p] = l
    BY <1>5 DEF AcquireWriterLock, Goto, Inv, ProcsInv
  <2>2. l \notin {"decide", "link", "hint", "sync", "archive", "record", "delete"}
    BY <1>2 DEF CallInv, Stage, Stages
  <2>3. \A r \in Procs : ~Inside(r)
    BY <1>5, AllocatorAssumption DEF Inv, ProcsInv, CallInv
  <2> HIDE DEF l
  <2>4. CallInv(p)'
    BY <1>1, <1>2, <2>1, <2>2 DEF CallInv, Inside, IsJournalPrefix
  <2>5. OnlyOf(p)
    BY <1>1, <2>1 DEF OnlyOf, Inv, ProcsInv
  <2>6. QED
    BY <1>1, <1>3, <1>4, <2>3, <2>4, <2>5, ProcsStep DEF Inv
<1>6. CASE lock # NoProc
  <2>1. /\ lock' = lock /\ pc' = [pc EXCEPT ![p] = "idle"] /\ pc'[p] = "idle"
        /\ call' = [call EXCEPT ![p] = NoCall] /\ call'[p] = NoCall
    BY <1>6 DEF AcquireWriterLock, Goto, Inv, ProcsInv
  <2>2. OutsideInv(p)'
    BY <1>1, <1>2, <2>1, ClearedRecords DEF OutsideInv, CallInv, IsJournalPrefix
  <2>3. CallInv(p)' /\ OnlyOf(p)
    BY <1>1, <2>1, <2>2, OutsideSuffices DEF OnlyOf, Inv, ProcsInv
  <2>4. \A r \in Procs : Inside(r) => lock' = r
    BY <2>1 DEF Inv, ProcsInv, CallInv
  <2>5. QED
    BY <1>1, <1>3, <1>4, <2>3, <2>4, ProcsStep DEF Inv
<1>7. QED
  BY <1>5, <1>6

\* The cached state is used, or the journal is replayed: both are the journal.
LEMMA LoadStep ==
    ASSUME NEW p \in Procs, Inv, Load(p)
    PROVE  Inv'
<1>1. UNCHANGED <<active, archive, checkpoints, journal>> /\ Inside(p)
  BY DEF Load, files, history, Inside
<1>2. CallInv(p) /\ JournalInv /\ DiskInv /\ lock = p
  BY <1>1 DEF Inv, ProcsInv, CallInv
<1>3. CASE CacheValid(p) /\ Goto(p, "decide") /\ UNCHANGED <<lock, call, cache>>
  <2>1. cache[p].st.events = journal
    BY <1>2, <1>3, ProbeFindsEnd DEF CacheValid, CallInv
  <2>2. OnlyOf(p) /\ pc'[p] = "decide"
    BY <1>3 DEF OnlyOf, Goto, Inv, ProcsInv
  <2>3. CallInv(p)'
    BY <1>1, <1>2, <1>3, <2>1, <2>2 DEF CallInv, Inside, IsJournalPrefix
  <2>4. QED
    BY <1>1, <2>2, <2>3, InsideStep
<1>4. CASE /\ cache' = [cache EXCEPT ![p] =
                [set |-> TRUE, st |-> StateOf(Replay),
                 checkpoints |-> checkpoints, compactions |-> compactions]]
           /\ Goto(p, "decide") /\ UNCHANGED <<lock, call>>
  <2>1. /\ OnlyOf(p) /\ pc'[p] = "decide"
        /\ cache'[p] = [set |-> TRUE, st |-> StateOf(Replay),
                        checkpoints |-> checkpoints, compactions |-> compactions]
    BY <1>4 DEF OnlyOf, Goto, Inv, ProcsInv
  <2>2. cache'[p].st.events = journal /\ CacheShape(cache'[p])
    <3>1. StateOf(Replay) = [events |-> journal, base |-> Replay.base]
      BY <1>2, ReplayIsJournal DEF StateOf
    <3>2. QED
      BY <2>1, <3>1, CacheRecord
  <2>3. PrefixOf(journal, journal)
    BY <1>2, PrefixReflexive DEF JournalInv
  <2>4. CallInv(p)'
    BY <1>1, <1>2, <1>4, <2>1, <2>2, <2>3 DEF CallInv, Inside, IsJournalPrefix
  <2>5. QED
    BY <1>1, <2>1, <2>4, InsideStep
<1>5. CASE Finish(p, "Integrity") /\ UNCHANGED cache
  BY <1>1, <1>5, FinishStep
<1>6. CASE Finish(p, "io") /\ UNCHANGED cache
  BY <1>1, <1>6, FinishStep
<1>7. QED
  BY <1>3, <1>4, <1>5, <1>6 DEF Load

\* A reviewed disposition has found its deployment, or has not.
LEMMA LookupStep ==
    ASSUME NEW p \in Procs, Inv, Lookup(p)
    PROVE  Inv'
<1> DEFINE found == BindingByIdentity(State(p), Request(p).id, Request(p).attempt)
           c == [call[p] EXCEPT !.stage = "append", !.binding = found]
<1>1. UNCHANGED <<active, archive, checkpoints, journal, cache>> /\ Inside(p)
  BY DEF Lookup, disk, files, history, Inside
<1>2. CallInv(p) /\ call[p].stage = "lookup"
  BY DEF Inv, ProcsInv, Lookup, Stage
<1>3. CASE Finish(p, "Integrity")
  BY <1>1, <1>3, FinishStep
<1>4. CASE NextCall(p, c)
  <2>1. /\ CallShape(c) /\ c.stage \in Stages /\ c.request \in Requests
        /\ c.proof = call[p].proof /\ c.todo = call[p].todo
    <3> HIDE DEF found
    <3>1. CallShape(call[p]) /\ call[p].request \in Requests
      BY <1>2 DEF CallInv
    <3>2. c = [call[p] EXCEPT !.stage = "append", !.binding = found]
      OBVIOUS
    <3> HIDE DEF c
    <3>3. /\ CallShape(c) /\ c.stage = "append" /\ c.request = call[p].request
          /\ c.proof = call[p].proof /\ c.todo = call[p].todo
      BY <3>1, <3>2 DEF CallShape
    <3>4. QED
      BY <3>1, <3>3 DEF Stages
  <2> HIDE DEF c
  <2>2. /\ c.proof \in Seq(Event) /\ c.todo \subseteq Seqs
        /\ \A n \in c.todo : \E d \in checkpoints : n <= Len(d)
    BY <1>2, <2>1 DEF CallInv
  <2>3. /\ cache' = [cache EXCEPT ![p] = cache'[p]] /\ CacheShape(cache'[p])
        /\ IsJournalPrefix(cache'[p].st.events)
    BY <1>1, <1>2 DEF CallInv, Inv, ProcsInv
  <2>4. QED
    BY <1>1, <1>4, <2>1, <2>2, <2>3, NextCallStep
<1>5. QED
  BY <1>3, <1>4 DEF Lookup

\* The reads, and the answers from the journal
LEMMA AnswerStep ==
    ASSUME NEW p \in Procs, Inv, Report(p) \/ AnswerFromJournal(p)
    PROVE  Inv'
<1>1. UNCHANGED <<active, archive, checkpoints, journal, cache>> /\ Inside(p)
  BY DEF Report, AnswerFromJournal, disk, files, history, Inside
<1>2. \E r \in {"ok", "IdempotencyCollision"} : Finish(p, r)
  BY DEF Report, AnswerFromJournal
<1>3. QED
  BY <1>1, <1>2, FinishStep

\* The requests of a sequence of events
LEMMA RequestsOfLength ==
    ASSUME NEW es \in Seq(Event)
    PROVE  RequestsOf(es) \in Seq(Requests) /\ Len(RequestsOf(es)) = Len(es)
<1>1. Len(es) \in Nat /\ \A i \in 1 .. Len(es) : es[i].req \in Requests
  <2>1. Len(es) \in Nat /\ \A i \in 1 .. Len(es) : es[i] \in Event
    BY LenProperties, ElementOfSeq
  <2>2. \A e \in Event : e.req \in Requests
    BY DEF Event
  <2>3. QED
    BY <2>1, <2>2
<1>2. RequestsOf(es) \in [1 .. Len(es) -> Requests]
  BY <1>1 DEF RequestsOf
<1>3. QED
  BY <1>1, <1>2, FunctionLength

\* A request that passes the checks is admissible after the whole journal.
LEMMA ValidateStep ==
    ASSUME NEW p \in Procs, Inv, Validate(p)
    PROVE  Inv'
<1>1. UNCHANGED <<active, archive, checkpoints, journal>> /\ Inside(p)
  BY DEF Validate, disk, files, history, Inside
<1>2. /\ CallInv(p) /\ pc[p] = "decide" /\ call[p].stage = "append" /\ lock = p
      /\ cache[p].st.events = journal
  BY <1>1 DEF Inv, ProcsInv, CallInv, Validate, Stage
<1>3. CASE Finish(p, "panicked") /\ cache' = [cache EXCEPT ![p] = NoCache]
  BY <1>1, <1>3, FinishStep
<1>4. CASE Finish(p, "refused") /\ UNCHANGED cache
  BY <1>1, <1>4, FinishStep
<1>5. CASE /\ Ledger!Admissible(Committed(p), Request(p)) /\ Len(State(p).events) < MaxEvents
           /\ Goto(p, "link") /\ UNCHANGED <<lock, call, cache>>
  <2>1. OnlyOf(p) /\ pc'[p] = "link"
    BY <1>5 DEF OnlyOf, Goto, Inv, ProcsInv
  <2>2. ~Ledger!KeyUsed(RequestsOf(journal), call[p].request.key)
    <3>1. \A i \in 1 .. Len(journal) : journal[i].req.key # call[p].request.key
      BY <1>2 DEF Validate, ExistingEvent, State, Request
    <3>2. Len(RequestsOf(journal)) = Len(journal)
      BY RequestsOfLength DEF Inv, JournalInv
    <3>3. QED
      BY <3>1, <3>2 DEF RequestsOf, Ledger!KeyUsed
  <2>3. Ledger!Admissible(RequestsOf(journal), call[p].request) /\ Len(journal) < MaxEvents
    BY <1>2, <1>5 DEF Committed, State, Request
  <2>4. CallInv(p)'
    BY <1>1, <1>2, <1>5, <2>1, <2>2, <2>3 DEF CallInv, Inside, IsJournalPrefix
  <2>5. QED
    BY <1>1, <2>1, <2>4, InsideStep
<1>6. QED
  BY <1>3, <1>4, <1>5 DEF Validate

\* The event that a process publishes is an event, and continues the journal.
LEMMA NewEventFits ==
    ASSUME JournalInv, NEW q \in Requests, Len(journal) < MaxEvents
    PROVE  LET e == NewEvent(journal, q)
           IN  /\ e \in Event /\ e.h = Len(journal) + 1 /\ e.req = q
               /\ e.seq = Len(journal) + 1
<1>1. Len(journal) \in Nat
  BY LenProperties DEF JournalInv
<1>2. LastHash(journal) \in 0 .. MaxEvents
  BY <1>1, Bounds DEF JournalInv, LastHash, HashAt
<1>3. QED
  BY <1>1, <1>2, Bounds DEF NewEvent, Event, Seqs

\* hard_link publishes the next event, and never finds the number taken.
LEMMA LinkStep ==
    ASSUME NEW p \in Procs, Inv, Link(p)
    PROVE  /\ Inv'
           /\ \/ journal' = journal
              \/ \E e \in Event : /\ journal' = Append(journal, e)
                                  /\ ~Ledger!KeyUsed(RequestsOf(journal), e.req.key)
                                  /\ Ledger!Admissible(RequestsOf(journal), e.req)
<1> DEFINE e == NewEvent(journal, call[p].request)
           k == Len(journal) + 1
<1>1. UNCHANGED <<archive, checkpoints>> /\ Inside(p)
  BY DEF Link, Inside
<1>2. /\ CallInv(p) /\ pc[p] = "link" /\ call[p].stage = "append" /\ lock = p
      /\ cache[p].st.events = journal /\ call[p].request \in Requests
      /\ JournalInv /\ DiskInv /\ Len(journal) < MaxEvents
      /\ ~Ledger!KeyUsed(RequestsOf(journal), call[p].request.key)
      /\ Ledger!Admissible(RequestsOf(journal), call[p].request)
  BY <1>1 DEF Inv, ProcsInv, CallInv, Link
<1>3. Len(journal) \in Nat /\ journal \in Seq(Event) /\ k \in Seqs
  BY <1>2, LenProperties, Bounds DEF JournalInv, Seqs
<1>4. /\ e \in Event /\ e.h = k /\ e.req = call[p].request /\ e.seq = k
      /\ e = NewEvent(State(p).events, Request(p))
  BY <1>2, NewEventFits DEF State, Request
<1>5. active[k] = NoEvent /\ archive[k] = NoEvent
  BY <1>2, <1>3 DEF DiskInv
<1> HIDE DEF e, k
<1>6. CASE Finish(p, "io") /\ UNCHANGED <<active, journal, cache>>
  BY <1>1, <1>6, FinishStep
<1>7. CASE /\ active' = [active EXCEPT ![e.seq] = e] /\ journal' = Append(journal, e)
           /\ Goto(p, "sync") /\ UNCHANGED <<lock, call, cache>>
  <2>1. /\ journal' \in Seq(Event) /\ Len(journal') = k
        /\ \A i \in 1 .. Len(journal) : journal'[i] = journal[i]
        /\ journal'[k] = e
    BY <1>3, <1>4, <1>7, AppendProperties DEF k
  <2>2. PrefixOf(journal, journal')
    BY <1>3, <2>1 DEF PrefixOf, k
  <2>3. JournalInv'
    BY <1>2, <1>3, <1>4, <2>1, Bounds DEF JournalInv, k
  <2>4. /\ active' = [n \in Seqs |-> active'[n]] /\ active'[k] = e
        /\ \A n \in Seqs : n # k => active'[n] = active[n]
    BY <1>2, <1>3, <1>4, <1>7 DEF DiskInv
  <2>5. DiskInv'
    <3>1. \A n \in Seqs : active'[n] # NoEvent => n <= Len(journal') /\ active'[n] = journal'[n]
      BY <1>2, <1>3, <2>1, <2>4 DEF DiskInv, k, Seqs
    <3>2. \A n \in Seqs : archive'[n] # NoEvent => n <= Len(journal') /\ archive'[n] = journal'[n]
      BY <1>1, <1>2, <1>3, <2>1 DEF DiskInv, k, Seqs
    <3>3. e # NoEvent
      BY <1>4, NoEventAssumption
    <3>4. ASSUME NEW n \in 1 .. Len(journal'), n # k
          PROVE  n \in 1 .. Len(journal) /\ n \in Seqs /\ active'[n] = active[n]
      <4>1. n \in 1 .. Len(journal) /\ n \in Seqs
        BY <1>2, <1>3, <2>1, <3>4, Bounds DEF k, Seqs
      <4>2. QED
        BY <3>4, <4>1, <2>4
    <3>5. \A n \in 1 .. Len(journal') : active'[n] # NoEvent \/ archive'[n] # NoEvent
      BY <1>1, <1>2, <2>4, <3>3, <3>4 DEF DiskInv
    <3>6. \A c \in checkpoints' : PrefixOf(c, journal')
      BY <1>1, <1>2, <2>1, <2>2, PrefixTransitive DEF DiskInv, IsJournalPrefix
    <3>7. \A n \in 1 .. Len(journal') : active'[n] = NoEvent => \E c \in checkpoints' : n <= Len(c)
      BY <1>1, <1>2, <2>4, <3>3, <3>4 DEF DiskInv
    <3>8. QED
      BY <1>1, <1>2, <2>4, <3>1, <3>2, <3>5, <3>6, <3>7 DEF DiskInv, IsJournalPrefix
  <2>6. OnlyOf(p) /\ pc'[p] = "sync"
    BY <1>7 DEF OnlyOf, Goto, Inv, ProcsInv
  <2>7. PrefixOf(cache'[p].st.events, journal')
    BY <1>2, <1>7, <2>2
  <2>8. CallInv(p)'
    BY <1>1, <1>2, <1>7, <2>1, <2>4, <2>6, <2>7 DEF CallInv, Inside, IsJournalPrefix, k
  <2>9. \A q \in Procs \ {p} : ~Inside(q)
    BY <1>1 DEF Inv, ProcsInv, CallInv
  <2>10. ProcsInv'
    BY <1>1, <2>1, <2>2, <2>6, <2>8, <2>9, ProcsStep DEF Inv
  <2>11. Inv'
    BY <2>3, <2>5, <2>10 DEF Inv
  <2>12. QED
    BY <1>2, <1>4, <1>7, <2>11
<1>8. QED
  BY <1>4, <1>5, <1>6, <1>7 DEF Link

\* The published event enters the state in memory.
LEMMA SyncStep ==
    ASSUME NEW p \in Procs, Inv, Sync(p)
    PROVE  Inv'
<1> DEFINE es == cache[p].st.events
           e == active[Len(es) + 1]
<1>1. UNCHANGED <<active, archive, checkpoints, journal>> /\ Inside(p)
  BY DEF Sync, disk, files, history, Inside
<1>2. /\ CallInv(p) /\ pc[p] = "sync" /\ lock = p /\ JournalInv
      /\ CacheShape(cache[p]) /\ PrefixOf(es, journal)
      /\ Len(journal) = Len(es) + 1 /\ e = journal[Len(journal)]
  BY <1>1 DEF Inv, ProcsInv, CallInv, Sync, IsJournalPrefix
<1>3. CASE Finish(p, "io") /\ UNCHANGED cache
  BY <1>1, <1>3, FinishStep
<1>4. CASE /\ cache' = [cache EXCEPT ![p].st.events = Append(State(p).events, e)]
           /\ Goto(p, "hint") /\ UNCHANGED <<lock, call>>
  <2>1. Append(es, e) = journal
    <3> HIDE DEF es, e
    <3>1. /\ es \in Seq(Event) /\ journal \in Seq(Event)
          /\ Len(es) \in Nat /\ e \in Event
      BY <1>2, LenProperties, ElementOfSeq DEF PrefixOf, JournalInv
    <3>2. /\ Append(es, e) \in Seq(Event) /\ Len(Append(es, e)) = Len(journal)
          /\ \A i \in 1 .. Len(es) : Append(es, e)[i] = es[i]
          /\ Append(es, e)[Len(es) + 1] = e
      BY <1>2, <3>1, AppendProperties
    <3>3. \A i \in 1 .. Len(journal) : Append(es, e)[i] = journal[i]
      BY <1>2, <3>1, <3>2 DEF PrefixOf
    <3>4. QED
      BY <3>1, <3>2, <3>3, SeqEqual
  <2>2. cache' = [cache EXCEPT ![p].st.events = journal]
    BY <1>4, <2>1 DEF State
  <2>3. cache' = [cache EXCEPT ![p] = cache'[p]] /\ cache'[p] = [cache[p] EXCEPT !.st.events = journal]
    BY <2>2 DEF Inv, ProcsInv
  <2>4. CacheShape(cache'[p]) /\ cache'[p].st.events = journal
    BY <1>2, <2>3 DEF CacheShape
  <2>5. OnlyOf(p) /\ pc'[p] = "hint"
    BY <1>4, <2>3 DEF OnlyOf, Goto, Inv, ProcsInv
  <2>6. PrefixOf(journal, journal)
    BY <1>2, PrefixReflexive DEF JournalInv
  <2>7. CallInv(p)'
    BY <1>1, <1>2, <1>4, <2>4, <2>5, <2>6 DEF CallInv, Inside, IsJournalPrefix
  <2>8. QED
    BY <1>1, <2>5, <2>7, InsideStep
<1>5. QED
  BY <1>3, <1>4 DEF Sync, State

\* The answer is given, and maintenance may follow.
LEMMA RespondStep ==
    ASSUME NEW p \in Procs, Inv, Respond(p)
    PROVE  Inv'
<1> DEFINE c == [NoCall EXCEPT !.stage = "checkpoint"]
<1>1. UNCHANGED <<active, archive, checkpoints, journal, cache>> /\ Inside(p)
  BY DEF Respond, files, Inside
<1>2. CASE Finish(p, "ok")
  BY <1>1, <1>2, FinishStep
<1>3. CASE NextCall(p, c)
  <2>1. /\ CallShape(c) /\ c.stage = "checkpoint" /\ c.stage \in Stages
        /\ c.proof \in Seq(Event) /\ c.todo = {}
    <3>1. /\ CallShape(c) /\ c.stage = "checkpoint"
          /\ c.proof = NoCall.proof /\ c.todo = NoCall.todo
      BY ClearedRecords, StageOnly
    <3>2. QED
      BY <3>1, ClearedRecords DEF Stages
  <2> HIDE DEF c
  <2>2. /\ cache' = [cache EXCEPT ![p] = cache'[p]] /\ CacheShape(cache'[p])
        /\ IsJournalPrefix(cache'[p].st.events)
    BY <1>1 DEF CallInv, Inv, ProcsInv
  <2>3. QED
    BY <1>1, <1>3, <2>1, <2>2, NextCallStep
<1>4. QED
  BY <1>2, <1>3 DEF Respond

\* A new checkpoint is the whole journal, hence the longest one.
LEMMA CreateCheckpointStep ==
    ASSUME NEW p \in Procs, Inv, CreateCheckpoint(p)
    PROVE  Inv'
<1>1. /\ UNCHANGED <<active, archive, journal, cache>> /\ Inside(p)
      /\ checkpoints' = checkpoints \/ checkpoints' = checkpoints \cup {journal}
  <2>1. FullReplay.events = journal
    BY FullReplayIsJournal DEF Inv
  <2>2. QED
    BY <2>1 DEF CreateCheckpoint, history, Inside
<1>2. CallInv(p) /\ JournalInv /\ DiskInv /\ lock = p
  BY <1>1 DEF Inv, ProcsInv, CallInv
<1>3. JournalInv' /\ PrefixOf(journal, journal) /\ journal \in Seq(Event) /\ Len(journal) \in Nat
  BY <1>1, <1>2, PrefixReflexive, LenProperties DEF JournalInv
<1>4. DiskInv'
  <2>1. CASE checkpoints' = checkpoints
    BY <1>1, <1>2, <2>1 DEF DiskInv, IsJournalPrefix
  <2>2. CASE checkpoints' = checkpoints \cup {journal}
    <3>1. \A c \in checkpoints' : PrefixOf(c, journal') /\ Len(c) <= Len(journal)
      BY <1>1, <1>2, <1>3, <2>2 DEF DiskInv, IsJournalPrefix, PrefixOf
    <3>2. \E c \in checkpoints' : \A d \in checkpoints' : Len(d) <= Len(c)
      BY <2>2, <3>1
    <3>3. \A n \in 1 .. Len(journal') : active'[n] = NoEvent => \E c \in checkpoints' : n <= Len(c)
      BY <1>1, <1>2, <2>2 DEF DiskInv
    <3>4. QED
      BY <1>1, <1>2, <3>1, <3>2, <3>3 DEF DiskInv, IsJournalPrefix
  <2>3. QED
    BY <1>1, <2>1, <2>2
<1>5. CallInv(p)' /\ OnlyOf(p)
  <2>1. CASE Goto(p, "adopt") /\ UNCHANGED <<lock, call>>
    <3>1. OnlyOf(p) /\ pc'[p] = "adopt"
      BY <1>1, <2>1 DEF OnlyOf, Goto, Inv, ProcsInv
    <3>2. QED
      BY <1>1, <1>2, <2>1, <3>1 DEF CallInv, Inside, IsJournalPrefix
  <2>2. CASE \E r \in {"Integrity", "io"} : Finish(p, r)
    <3>1. /\ OnlyOf(p) /\ pc'[p] = "idle" /\ call'[p] = NoCall
      BY <1>1, <2>2 DEF OnlyOf, Finish, Goto, Inv, ProcsInv
    <3>2. OutsideInv(p)'
      BY <1>1, <1>2, <3>1, ClearedRecords DEF OutsideInv, CallInv, IsJournalPrefix
    <3>3. QED
      BY <3>1, <3>2, OutsideSuffices
  <2>3. QED
    BY <2>1, <2>2 DEF CreateCheckpoint
<1>6. \A q \in Procs \ {p} : ~Inside(q)
  BY <1>1 DEF Inv, ProcsInv, CallInv
<1>7. ProcsInv'
  BY <1>1, <1>3, <1>5, <1>6, ProcsStep DEF Inv
<1>8. QED
  BY <1>3, <1>4, <1>7 DEF Inv

\* The state that create_checkpoint replayed is kept.
LEMMA AdoptStep ==
    ASSUME NEW p \in Procs, Inv, AdoptCheckpoint(p)
    PROVE  Inv'
<1> DEFINE c == [call[p] EXCEPT !.stage = "verify"]
<1>1. UNCHANGED <<active, archive, checkpoints, journal>> /\ Inside(p) /\ NextCall(p, c)
  BY DEF AdoptCheckpoint, files, history, Inside
<1>2. CallInv(p) /\ JournalInv /\ DiskInv /\ CallShape(call[p])
  BY DEF Inv, ProcsInv, CallInv
<1>3. c = [call[p] EXCEPT !.stage = "verify"]
  OBVIOUS
<1> HIDE DEF c
<1>4. CallShape(c) /\ c.stage = "verify" /\ c.proof = call[p].proof /\ c.todo = call[p].todo
  BY <1>2, <1>3, StageOnly
<1>5. /\ c.stage \in Stages /\ c.proof \in Seq(Event) /\ c.todo \subseteq Seqs
      /\ \A n \in c.todo : \E d \in checkpoints : n <= Len(d)
  BY <1>2, <1>4 DEF CallInv, Stages
<1>6. /\ cache' = [cache EXCEPT ![p] = cache'[p]]
      /\ cache'[p] = [set |-> TRUE, st |-> StateOf(FullReplay),
                      checkpoints |-> checkpoints, compactions |-> compactions]
  BY DEF AdoptCheckpoint, Inv, ProcsInv
<1>7. StateOf(FullReplay) = [events |-> journal, base |-> FullReplay.base]
  BY <1>2, FullReplayIsJournal DEF StateOf
<1>8. CacheShape(cache'[p]) /\ cache'[p].st.events = journal
  BY <1>6, <1>7, CacheRecord
<1>9. IsJournalPrefix(cache'[p].st.events)
  BY <1>2, <1>8, PrefixReflexive DEF IsJournalPrefix, JournalInv
<1>10. QED
  BY <1>1, <1>4, <1>5, <1>6, <1>8, <1>9, NextCallStep

\* The newest checkpoint is a sequence of events, also when there is none.
LEMMA LatestIsPrefix ==
    ASSUME JournalInv, DiskInv
    PROVE  /\ LatestCheckpoint \in Seq(Event)
           /\ LatestCheckpoint = <<>> \/ LatestCheckpoint \in checkpoints
<1>1. CASE checkpoints = {}
  BY <1>1, EmptySeq DEF LatestCheckpoint
<1>2. CASE checkpoints # {}
  BY <1>2, LatestIsLongest DEF DiskInv, IsJournalPrefix, PrefixOf
<1>3. QED
  BY <1>1, <1>2

\* The newest checkpoint is verified, and compaction follows.
LEMMA VerifyStep ==
    ASSUME NEW p \in Procs, Inv, VerifyLatestCheckpoint(p)
    PROVE  Inv'
<1> DEFINE l == LatestCheckpoint
           c == [call[p] EXCEPT !.stage = "compact", !.proof = l]
<1>1. UNCHANGED <<active, archive, checkpoints, journal, cache>> /\ Inside(p)
  BY DEF VerifyLatestCheckpoint, disk, files, history, Inside
<1>2. CallInv(p) /\ JournalInv /\ DiskInv /\ CallShape(call[p])
  BY DEF Inv, ProcsInv, CallInv
<1>3. l \in Seq(Event)
  BY <1>2, LatestIsPrefix
<1> HIDE DEF l
<1>4. CASE Finish(p, "Integrity")
  BY <1>1, <1>4, FinishStep
<1>5. CASE NextCall(p, c)
  <2>1. c = [call[p] EXCEPT !.stage = "compact", !.proof = l]
    OBVIOUS
  <2> HIDE DEF c
  <2>2. CallShape(c) /\ c.stage = "compact" /\ c.proof = l /\ c.todo = call[p].todo
    BY <1>2, <2>1 DEF CallShape
  <2>3. /\ c.stage \in Stages /\ c.todo \subseteq Seqs
        /\ \A n \in c.todo : \E d \in checkpoints : n <= Len(d)
    BY <1>2, <2>2 DEF CallInv, Stages
  <2>4. /\ cache' = [cache EXCEPT ![p] = cache'[p]] /\ CacheShape(cache'[p])
        /\ IsJournalPrefix(cache'[p].st.events)
    BY <1>1, <1>2 DEF CallInv, Inv, ProcsInv
  <2>5. QED
    BY <1>1, <1>3, <1>5, <2>2, <2>3, <2>4, NextCallStep
<1>6. QED
  BY <1>4, <1>5 DEF VerifyLatestCheckpoint, l

\* What the retention policy lets compaction move is covered by the checkpoint.
LEMMA CoveredByProof ==
    ASSUME NEW p \in Procs, JournalInv, DiskInv, CallInv(p),
           call[p].proof = <<>> \/ call[p].proof \in checkpoints
    PROVE  /\ Covered(p) \subseteq Seqs
           /\ \A n \in Covered(p) : \E c \in checkpoints : n <= Len(c)
<1> DEFINE f == call[p].proof
<1>1. Len(f) \in Nat /\ Retain \in Nat /\ (f = <<>> => Len(f) = 0)
  BY LenProperties, EmptySeq, Bounds DEF CallInv
<1>2. ASSUME NEW n \in Covered(p)
      PROVE  n \in 1 .. Len(f) - Retain /\ active[n] # NoEvent /\ n <= Len(f) /\ f \in checkpoints
  BY <1>1 DEF Covered
<1>3. f \in checkpoints => Len(f) <= MaxEvents
  <2>1. f \in checkpoints => Len(f) <= Len(journal)
    BY DEF DiskInv, IsJournalPrefix, PrefixOf
  <2>2. Len(journal) \in Nat /\ Len(journal) <= MaxEvents
    BY LenProperties DEF JournalInv
  <2>3. QED
    BY <1>1, <2>1, <2>2, Bounds
<1>4. ASSUME NEW n \in Covered(p)
      PROVE  n \in Seqs
  BY <1>1, <1>2, <1>3, <1>4, Bounds DEF Seqs
<1>5. QED
  BY <1>2, <1>4

\* A compaction starts with the files that its checkpoint covers.
LEMMA StartCompactStep ==
    ASSUME NEW p \in Procs, Inv, StartCompact(p)
    PROVE  Inv'
<1>1. UNCHANGED <<active, archive, checkpoints, journal, cache>> /\ Inside(p)
  BY DEF StartCompact, disk, files, history, Inside
<1>2. CallInv(p) /\ CallShape(call[p]) /\ JournalInv /\ DiskInv /\ lock = p
  BY <1>1 DEF Inv, ProcsInv, CallInv
<1>3. CASE Finish(p, "Integrity")
  BY <1>1, <1>3, FinishStep
<1>4. CASE /\ LatestCheckpoint = call[p].proof
           /\ call' = [call EXCEPT ![p].todo = Covered(p)]
           /\ Goto(p, IF Covered(p) = {} THEN "record" ELSE "archive")
           /\ UNCHANGED lock
  <2>1. call[p].proof = <<>> \/ call[p].proof \in checkpoints
    BY <1>2, <1>4, LatestIsPrefix
  <2>2. /\ Covered(p) \subseteq Seqs
        /\ \A n \in Covered(p) : \E c \in checkpoints : n <= Len(c)
    BY <1>2, <2>1, CoveredByProof
  <2>3. /\ OnlyOf(p) /\ pc'[p] \in {"record", "archive"}
        /\ call'[p] = [call[p] EXCEPT !.todo = Covered(p)]
    BY <1>1, <1>4 DEF OnlyOf, Goto, Inv, ProcsInv
  <2>4. /\ CallShape(call'[p]) /\ call'[p].stage = call[p].stage
        /\ call'[p].request = call[p].request
        /\ call'[p].proof = call[p].proof /\ call'[p].todo = Covered(p)
    BY <1>2, <2>3 DEF CallShape
  <2>5. CallInv(p)'
    BY <1>1, <1>2, <1>4, <2>1, <2>2, <2>3, <2>4 DEF CallInv, Inside, IsJournalPrefix
  <2>6. QED
    BY <1>1, <2>3, <2>5, InsideStep
<1>5. QED
  BY <1>3, <1>4 DEF StartCompact

\* An archived copy is a copy.
LEMMA ArchiveStep ==
    ASSUME NEW p \in Procs, Inv, ArchiveOne(p)
    PROVE  Inv'
<1> DEFINE n == FirstTodo(p)
<1>1. UNCHANGED <<active, checkpoints, journal, cache>> /\ Inside(p) /\ pc[p] = "archive"
  BY DEF ArchiveOne, history, Inside
<1>2. CallInv(p) /\ CallShape(call[p]) /\ JournalInv /\ DiskInv /\ lock = p
  BY <1>1 DEF Inv, ProcsInv, CallInv
<1> HIDE DEF n
<1>3. CASE \E r \in {"Integrity", "io"} : Finish(p, r) /\ UNCHANGED archive
  BY <1>1, <1>3, FinishStep
<1>4. CASE /\ archive[n] \in {NoEvent, active[n]}
           /\ archive' = [archive EXCEPT ![n] = active[n]]
           /\ call' = [call EXCEPT ![p].todo = @ \ {n}]
           /\ Goto(p, IF call[p].todo = {n} THEN "record" ELSE "archive")
           /\ UNCHANGED lock
  <2>1. \A m \in Seqs : archive'[m] \in {archive[m], active[m]}
    BY <1>2, <1>4 DEF DiskInv
  <2>2. \A m \in Seqs : archive[m] # NoEvent => archive'[m] # NoEvent
    BY <1>2, <1>4 DEF DiskInv
  <2>3. Len(journal) \in Nat /\ \A m \in 1 .. Len(journal) : m \in Seqs
    BY <1>2, LenProperties, Bounds DEF JournalInv, Seqs
  <2>4. DiskInv'
    <3>1. archive' = [m \in Seqs |-> archive'[m]]
      BY <1>2, <1>4 DEF DiskInv
    <3>2. \A m \in Seqs : archive'[m] # NoEvent => m <= Len(journal) /\ archive'[m] = journal[m]
      BY <1>2, <2>1 DEF DiskInv
    <3>3. \A m \in 1 .. Len(journal) : active[m] # NoEvent \/ archive'[m] # NoEvent
      BY <1>2, <2>2, <2>3 DEF DiskInv
    <3>4. QED
      BY <1>1, <1>2, <3>1, <3>2, <3>3 DEF DiskInv, IsJournalPrefix
  <2>5. /\ OnlyOf(p) /\ pc'[p] \in {"record", "archive"}
        /\ call'[p] = [call[p] EXCEPT !.todo = call[p].todo \ {n}]
    BY <1>1, <1>4 DEF OnlyOf, Goto, Inv, ProcsInv
  <2>6. /\ CallShape(call'[p]) /\ call'[p].stage = call[p].stage
        /\ call'[p].request = call[p].request
        /\ call'[p].proof = call[p].proof /\ call'[p].todo = call[p].todo \ {n}
    BY <1>2, <2>5 DEF CallShape
  <2>7. CallInv(p)'
    BY <1>1, <1>2, <1>4, <2>5, <2>6 DEF CallInv, Inside, IsJournalPrefix
  <2>8. \A q \in Procs \ {p} : ~Inside(q)
    BY <1>1 DEF Inv, ProcsInv, CallInv
  <2>9. JournalInv' /\ journal' \in Seq(Event) /\ PrefixOf(journal, journal')
    BY <1>1, <1>2, PrefixReflexive DEF JournalInv
  <2>10. ProcsInv'
    BY <1>1, <2>5, <2>7, <2>8, <2>9, ProcsStep DEF Inv
  <2>11. QED
    BY <2>4, <2>9, <2>10 DEF Inv
<1>5. QED
  BY <1>3, <1>4 DEF ArchiveOne, n

\* The record of the compaction is published.
LEMMA RecordStep ==
    ASSUME NEW p \in Procs, Inv, PublishRecord(p)
    PROVE  Inv'
<1>1. UNCHANGED <<active, archive, checkpoints, journal, cache>> /\ Inside(p) /\ pc[p] = "record"
  BY DEF PublishRecord, history, Inside
<1>2. CallInv(p) /\ CallShape(call[p]) /\ JournalInv /\ DiskInv /\ lock = p
  BY <1>1 DEF Inv, ProcsInv, CallInv
<1>3. CASE \E r \in {"ok", "io"} : Finish(p, r)
  BY <1>1, <1>3, FinishStep
<1>4. CASE /\ Covered(p) # {}
           /\ call' = [call EXCEPT ![p].todo = Covered(p)]
           /\ Goto(p, "delete") /\ UNCHANGED lock
  <2>1. /\ Covered(p) \subseteq Seqs
        /\ \A n \in Covered(p) : \E c \in checkpoints : n <= Len(c)
    BY <1>1, <1>2, CoveredByProof DEF CallInv
  <2>2. /\ OnlyOf(p) /\ pc'[p] = "delete"
        /\ call'[p] = [call[p] EXCEPT !.todo = Covered(p)]
    BY <1>1, <1>4 DEF OnlyOf, Goto, Inv, ProcsInv
  <2>3. /\ CallShape(call'[p]) /\ call'[p].stage = call[p].stage
        /\ call'[p].request = call[p].request
        /\ call'[p].proof = call[p].proof /\ call'[p].todo = Covered(p)
    BY <1>2, <2>2 DEF CallShape
  <2>4. CallInv(p)'
    BY <1>1, <1>2, <1>4, <2>1, <2>2, <2>3 DEF CallInv, Inside, IsJournalPrefix
  <2>5. QED
    BY <1>1, <2>2, <2>4, InsideStep
<1>5. QED
  BY <1>3, <1>4 DEF PublishRecord

\* A set of numbers that is not empty has a smallest one.
LEMMA SmallestExists ==
    ASSUME NEW S, S \subseteq Nat, S # {}
    PROVE  \E n \in S : \A m \in S : n <= m
<1>1. PICK n \in S : \A m \in S : ~(<<m, n>> \in OpToRel(<, Nat))
  BY NatLessThanWellFounded, WFMin
<1>2. \A m \in S : ~(m < n)
  BY <1>1 DEF OpToRel
<1>3. QED
  BY <1>2

\* A file is deleted when its copy is archived and a checkpoint covers it.
LEMMA DeleteStep ==
    ASSUME NEW p \in Procs, Inv, DeleteOne(p)
    PROVE  Inv'
<1> DEFINE n == FirstTodo(p)
<1>1. /\ UNCHANGED <<archive, checkpoints, journal, cache>> /\ Inside(p) /\ pc[p] = "delete"
  BY DEF DeleteOne, history, Inside
<1>2. CallInv(p) /\ CallShape(call[p]) /\ JournalInv /\ DiskInv /\ lock = p
  BY <1>1 DEF Inv, ProcsInv, CallInv
<1>3. n \in call[p].todo
  <2>1. call[p].todo \subseteq Nat /\ call[p].todo # {}
    BY <1>1, <1>2 DEF CallInv, Seqs
  <2>2. QED
    BY <2>1, SmallestExists DEF FirstTodo
<1>4. n \in Seqs /\ \E c \in checkpoints : n <= Len(c)
  BY <1>2, <1>3 DEF CallInv
<1> HIDE DEF n
<1>5. CASE \E r \in {"Integrity", "io"} : Finish(p, r) /\ UNCHANGED active
  BY <1>1, <1>5, FinishStep
<1>6. CASE /\ ArchivedCopy(n)
           /\ active' = [active EXCEPT ![n] = NoEvent]
           /\ IF call[p].todo = {n} THEN Finish(p, "ok")
              ELSE /\ call' = [call EXCEPT ![p].todo = @ \ {n}]
                   /\ Goto(p, "delete")
                   /\ UNCHANGED <<lock, result>>
  <2>1. Len(journal) \in Nat /\ \A m \in 1 .. Len(journal) : m \in Seqs
    BY <1>2, LenProperties, Bounds DEF JournalInv, Seqs
  <2>2. /\ active' = [m \in Seqs |-> active'[m]] /\ active'[n] = NoEvent
        /\ \A m \in Seqs : m # n => active'[m] = active[m]
    BY <1>2, <1>4, <1>6 DEF DiskInv
  <2>3. DiskInv'
    <3>1. \A m \in Seqs : active'[m] # NoEvent => m <= Len(journal) /\ active'[m] = journal[m]
      BY <1>2, <2>2 DEF DiskInv
    <3>2. \A m \in 1 .. Len(journal) : active'[m] # NoEvent \/ archive[m] # NoEvent
      BY <1>2, <1>6, <2>1, <2>2 DEF DiskInv, ArchivedCopy
    <3>3. \A m \in 1 .. Len(journal) : active'[m] = NoEvent => \E c \in checkpoints : m <= Len(c)
      BY <1>2, <1>4, <2>1, <2>2 DEF DiskInv
    <3>4. QED
      BY <1>1, <1>2, <2>2, <3>1, <3>2, <3>3 DEF DiskInv, IsJournalPrefix
  <2>4. CallInv(p)' /\ OnlyOf(p)
    <3>1. CASE Finish(p, "ok")
      <4>1. /\ OnlyOf(p) /\ pc'[p] = "idle" /\ call'[p] = NoCall
        BY <1>1, <3>1 DEF OnlyOf, Finish, Goto, Inv, ProcsInv
      <4>2. OutsideInv(p)'
        BY <1>1, <1>2, <4>1, ClearedRecords DEF OutsideInv, CallInv, IsJournalPrefix
      <4>3. QED
        BY <4>1, <4>2, OutsideSuffices
    <3>2. CASE /\ call[p].todo # {n} /\ call' = [call EXCEPT ![p].todo = @ \ {n}]
               /\ Goto(p, "delete") /\ UNCHANGED lock
      <4>1. /\ OnlyOf(p) /\ pc'[p] = "delete"
            /\ call'[p] = [call[p] EXCEPT !.todo = call[p].todo \ {n}]
        BY <1>1, <3>2 DEF OnlyOf, Goto, Inv, ProcsInv
      <4>2. /\ CallShape(call'[p]) /\ call'[p].stage = call[p].stage
            /\ call'[p].request = call[p].request
            /\ call'[p].proof = call[p].proof /\ call'[p].todo = call[p].todo \ {n}
        BY <1>2, <4>1 DEF CallShape
      <4>3. call'[p].todo # {}
        BY <1>3, <3>2, <4>2
      <4>4. QED
        BY <1>1, <1>2, <3>2, <4>1, <4>2, <4>3 DEF CallInv, Inside, IsJournalPrefix
    <3>3. QED
      BY <1>6, <3>1, <3>2
  <2>5. \A q \in Procs \ {p} : ~Inside(q)
    BY <1>1 DEF Inv, ProcsInv, CallInv
  <2>6. JournalInv' /\ journal' \in Seq(Event) /\ PrefixOf(journal, journal')
    BY <1>1, <1>2, PrefixReflexive DEF JournalInv
  <2>7. ProcsInv'
    BY <1>1, <2>4, <2>5, <2>6, ProcsStep DEF Inv
  <2>8. QED
    BY <2>3, <2>6, <2>7 DEF Inv
<1>7. QED
  BY <1>5, <1>6 DEF DeleteOne, n

\* A killed process gives up its lock and its memory.
LEMMA CrashStep ==
    ASSUME NEW p \in Procs, Inv, Crash(p)
    PROVE  Inv'
<1>1. UNCHANGED <<active, archive, checkpoints, journal>>
  BY DEF Crash, files, history
<1>2. /\ pc' = [pc EXCEPT ![p] = "idle"] /\ pc'[p] = "idle"
      /\ call' = [call EXCEPT ![p] = NoCall] /\ call'[p] = NoCall
      /\ cache' = [cache EXCEPT ![p] = NoCache] /\ cache'[p] = NoCache
  BY DEF Crash, Goto, Inv, ProcsInv
<1>3. JournalInv' /\ DiskInv' /\ journal \in Seq(Event) /\ PrefixOf(journal, journal')
  BY <1>1, PrefixReflexive DEF Inv, JournalInv, DiskInv, IsJournalPrefix
<1>4. OutsideInv(p)'
  BY <1>1, <1>2, <1>3, ClearedRecords, EmptyPrefix DEF OutsideInv, IsJournalPrefix
<1>5. CallInv(p)' /\ OnlyOf(p)
  BY <1>2, <1>4, OutsideSuffices DEF OnlyOf
<1>6. \A q \in Procs \ {p} : Inside(q) => lock' = q
  BY DEF Crash, Inv, ProcsInv, CallInv
<1>7. QED
  BY <1>1, <1>3, <1>5, <1>6, ProcsStep DEF Inv

\* A step that changes nothing the invariant mentions
LEMMA StutterStep ==
    ASSUME Inv, UNCHANGED <<active, archive, checkpoints, journal, lock, pc, call, cache>>
    PROVE  Inv'
<1>1. JournalInv' /\ DiskInv'
  BY DEF Inv, JournalInv, DiskInv, IsJournalPrefix
<1>2. ProcsInv'
  BY DEF Inv, ProcsInv, CallInv, Inside, IsJournalPrefix
<1>3. QED
  BY <1>1, <1>2 DEF Inv

----------------------------------------------------------------------------
(* The theorems *)

\* What a step does to the journal: nothing, or one admissible request more
JournalStep ==
    \/ journal' = journal
    \/ \E e \in Event : /\ journal' = Append(journal, e)
                        /\ ~Ledger!KeyUsed(RequestsOf(journal), e.req.key)
                        /\ Ledger!Admissible(RequestsOf(journal), e.req)

\* A step of a process starts a call.
LEMMA StartKeepsInv ==
    ASSUME NEW p \in Procs, Inv, Start(p)
    PROVE  Inv' /\ JournalStep
<1>1. CASE \E q \in Requests : StartRequest(p, q)
  <2>1. PICK q \in Requests : StartRequest(p, q)
    BY <1>1
  <2>2. PICK s \in {"lookup", "append"} : Begin(p, q, s)
    BY <2>1 DEF StartRequest
  <2>3. s \in Stages
    BY DEF Stages
  <2>4. QED
    BY <2>2, <2>3, BeginStep DEF JournalStep, Begin, history
<1>2. CASE \E s \in {"snapshot", "checkpoint"} : Begin(p, NoRequest, s)
  <2>1. PICK s \in {"snapshot", "checkpoint"} : Begin(p, NoRequest, s)
    BY <1>2
  <2>2. s \in Stages /\ s \notin {"lookup", "append"}
    BY DEF Stages
  <2>3. QED
    BY <2>1, <2>2, BeginStep DEF JournalStep, Begin, history
<1>3. QED
  BY <1>1, <1>2 DEF Start, StartSnapshot, StartMaintenance

\* Every step of a running call keeps the invariant.
LEMMA StepKeepsInv ==
    ASSUME NEW p \in Procs, Inv, Step(p)
    PROVE  Inv' /\ JournalStep
<1>1. CASE Link(p)
  BY <1>1, LinkStep DEF JournalStep
<1>2. CASE AcquireWriterLock(p)
  BY <1>2, AcquireStep DEF JournalStep, AcquireWriterLock, history
<1>3. CASE Load(p)
  BY <1>3, LoadStep DEF JournalStep, Load, history
<1>4. CASE Lookup(p)
  BY <1>4, LookupStep DEF JournalStep, Lookup, history
<1>5. CASE Report(p) \/ AnswerFromJournal(p)
  BY <1>5, AnswerStep DEF JournalStep, Report, AnswerFromJournal, history
<1>6. CASE Validate(p)
  BY <1>6, ValidateStep DEF JournalStep, Validate, history
<1>7. CASE Sync(p)
  BY <1>7, SyncStep DEF JournalStep, Sync, history
<1>8. CASE Respond(p)
  BY <1>8, RespondStep DEF JournalStep, Respond, history
<1>9. CASE CreateCheckpoint(p)
  BY <1>9, CreateCheckpointStep DEF JournalStep, CreateCheckpoint, history
<1>10. CASE AdoptCheckpoint(p)
  BY <1>10, AdoptStep DEF JournalStep, AdoptCheckpoint, history
<1>11. CASE VerifyLatestCheckpoint(p)
  BY <1>11, VerifyStep DEF JournalStep, VerifyLatestCheckpoint, history
<1>12. CASE StartCompact(p)
  BY <1>12, StartCompactStep DEF JournalStep, StartCompact, history
<1>13. CASE ArchiveOne(p)
  BY <1>13, ArchiveStep DEF JournalStep, ArchiveOne, history
<1>14. CASE PublishRecord(p)
  BY <1>14, RecordStep DEF JournalStep, PublishRecord, history
<1>15. CASE DeleteOne(p)
  BY <1>15, DeleteStep DEF JournalStep, DeleteOne, history
<1>16. QED
  BY <1>1, <1>2, <1>3, <1>4, <1>5, <1>6, <1>7, <1>8, <1>9, <1>10, <1>11, <1>12, <1>13,
     <1>14, <1>15 DEF Step, AppendStep, MaintenanceStep

\* A step that is not an older writer's keeps the invariant and the journal's order.
LEMMA NextKeepsInv ==
    ASSUME Inv, [Next]_vars, ~\E q \in Requests : OlderWriterLinks(q)
    PROVE  Inv' /\ JournalStep
<1>1. CASE \E p \in Procs : Start(p)
  BY <1>1, StartKeepsInv
<1>2. CASE \E p \in Procs : Step(p)
  BY <1>2, StepKeepsInv
<1>3. CASE \E p \in Procs : Crash(p)
  BY <1>3, CrashStep DEF JournalStep, Crash, history
<1>4. CASE OlderWriterReads
  BY <1>4, StutterStep DEF JournalStep, OlderWriterReads, disk, files, history
<1>5. CASE UNCHANGED vars
  BY <1>5, StutterStep DEF JournalStep, vars, disk, files, history
<1>6. QED
  BY <1>1, <1>2, <1>3, <1>4, <1>5 DEF Next

\* The empty directory satisfies the invariant.
LEMMA InitInv ==
    ASSUME Init
    PROVE  IndInv
<1>1. journal = <<>> /\ journal \in Seq(Event) /\ Len(journal) = 0
  BY EmptySeq DEF Init
<1>2. JournalInv
  BY <1>1, Bounds DEF JournalInv
<1>3. DiskInv
  BY <1>1 DEF Init, DiskInv
<1>4. ASSUME NEW p \in Procs PROVE CallInv(p)
  <2>1. call[p] = NoCall /\ cache[p] = NoCache /\ pc[p] = "idle"
    BY DEF Init
  <2>2. IsJournalPrefix(<<>>)
    BY <1>1, EmptyPrefix DEF IsJournalPrefix
  <2>3. QED
    BY <2>1, <2>2, ClearedRecords DEF CallInv, Inside
<1>5. ProcsInv
  BY <1>4 DEF Init, ProcsInv
<1>6. QED
  BY <1>2, <1>3, <1>5 DEF IndInv, Inv, Init

\* Nothing takes an older writer's event back.
LEMMA OlderWritesStep ==
    ASSUME olderWrites \in Nat, [Next]_vars
    PROVE  \/ olderWrites' = olderWrites /\ ~\E q \in Requests : OlderWriterLinks(q)
           \/ /\ olderWrites' = olderWrites + 1
              /\ \E q \in Requests : OlderWriterLinks(q)
<1>1. CASE \E q \in Requests : OlderWriterLinks(q)
  BY <1>1 DEF OlderWriterLinks
<1>2. CASE ~\E q \in Requests : OlderWriterLinks(q)
  <2>1. CASE \E p \in Procs : Start(p)
    BY <1>2, <2>1 DEF Start, StartRequest, StartSnapshot, StartMaintenance, Begin
  <2>2. CASE \E p \in Procs : AppendStep(p)
    BY <1>2, <2>2 DEF AppendStep, AcquireWriterLock, Load, Lookup, Report, AnswerFromJournal,
                      Validate, Link, Sync, Respond, env, EnvButIo
  <2>3. CASE \E p \in Procs : MaintenanceStep(p)
    BY <1>2, <2>3 DEF MaintenanceStep, CreateCheckpoint, AdoptCheckpoint,
                      VerifyLatestCheckpoint, StartCompact, ArchiveOne, PublishRecord,
                      DeleteOne, env, EnvButIo
  <2>4. CASE \E p \in Procs : Crash(p)
    BY <1>2, <2>4 DEF Crash
  <2>5. CASE OlderWriterReads
    BY <1>2, <2>5 DEF OlderWriterReads
  <2>6. CASE UNCHANGED vars
    BY <1>2, <2>6 DEF vars, env
  <2>7. QED
    BY <1>2, <2>1, <2>2, <2>3, <2>4, <2>5, <2>6 DEF Next, Step
<1>3. QED
  BY <1>1, <1>2

\* The inductive invariant
THEOREM IndInvHolds == Spec => []IndInv
<1>1. Init => IndInv
  BY InitInv
<1>2. IndInv /\ [Next]_vars => IndInv'
  <2> SUFFICES ASSUME IndInv, [Next]_vars PROVE IndInv'
    OBVIOUS
  <2>1. CASE olderWrites' = olderWrites /\ ~\E q \in Requests : OlderWriterLinks(q)
    BY <2>1, NextKeepsInv DEF IndInv, OnlyLockedWriters
  <2>2. CASE olderWrites' = olderWrites + 1
    BY <2>2 DEF IndInv, OnlyLockedWriters
  <2>3. QED
    BY <2>1, <2>2, OlderWritesStep DEF IndInv
<1>3. QED
  BY <1>1, <1>2, PTL DEF Spec

\* For every number of hosts, requests, crashes and compactions: a host decides a
\* request only on the whole committed journal, however its cache, the hint, the
\* checkpoints and the archive came about.
THEOREM DecidesOnWholeJournalHolds == Spec => []DecidesOnWholeJournal
<1>1. IndInv => DecidesOnWholeJournal
  BY DEF IndInv, Inv, ProcsInv, CallInv, DecidesOnWholeJournal, State
<1>2. QED
  BY <1>1, IndInvHolds, PTL

\* The requests of the journal after an event more
LEMMA RequestsOfAppend ==
    ASSUME NEW es \in Seq(Event), NEW e \in Event
    PROVE  RequestsOf(Append(es, e)) = Append(RequestsOf(es), e.req)
<1> DEFINE a == RequestsOf(Append(es, e))
           b == Append(RequestsOf(es), e.req)
<1>1. /\ Append(es, e) \in Seq(Event) /\ Len(Append(es, e)) = Len(es) + 1
      /\ \A i \in 1 .. Len(es) : Append(es, e)[i] = es[i]
      /\ Append(es, e)[Len(es) + 1] = e /\ Len(es) \in Nat /\ e.req \in Requests
  BY AppendProperties, LenProperties DEF Event
<1>2. a \in Seq(Requests) /\ Len(a) = Len(es) + 1
  BY <1>1, RequestsOfLength
<1>3. RequestsOf(es) \in Seq(Requests) /\ Len(RequestsOf(es)) = Len(es)
  BY RequestsOfLength
<1>4. /\ b \in Seq(Requests) /\ Len(b) = Len(es) + 1
      /\ \A i \in 1 .. Len(es) : b[i] = RequestsOf(es)[i]
      /\ b[Len(es) + 1] = e.req
  BY <1>1, <1>3, AppendProperties
<1>5. \A i \in 1 .. Len(es) + 1 : a[i] = Append(es, e)[i].req
  BY <1>1 DEF RequestsOf
<1>6. \A i \in 1 .. Len(es) : RequestsOf(es)[i] = es[i].req
  BY DEF RequestsOf
<1> HIDE DEF a, b
<1>7. \A i \in 1 .. Len(es) + 1 : a[i] = b[i]
  BY <1>1, <1>4, <1>5, <1>6
<1>8. a = b
  BY <1>2, <1>4, <1>7, SeqEqual
<1>9. QED
  BY <1>8 DEF a, b

\* Hosts that all take the lock implement the ledger: every step commits one
\* admissible request under a new key, or nothing.
THEOREM LedgerImplemented ==
    ASSUME MaxOlderWrites = 0
    PROVE  Spec => ImplementsLedger
<1>1. Init => Ledger!Init
  BY DEF Init, Ledger!Init
<1>2. Init => olderWrites = 0
  BY DEF Init
<1>3. olderWrites = 0 /\ [Next]_vars => (olderWrites = 0)' /\ ~\E q \in Requests : OlderWriterLinks(q)
  <2>1. olderWrites = 0 => ~\E q \in Requests : OlderWriterLinks(q)
    BY DEF OlderWriterLinks
  <2>2. QED
    BY <2>1, OlderWritesStep
<1>4. IndInv /\ olderWrites = 0 /\ [Next]_vars
        => [Ledger!Next]_([i \in 1 .. Len(journal) |-> journal[i].req])
  <2> SUFFICES ASSUME Inv, JournalStep
               PROVE  \/ Ledger!Next
                      \/ RequestsOf(journal)' = RequestsOf(journal)
    BY <1>3, NextKeepsInv DEF IndInv, OnlyLockedWriters, RequestsOf
  <2>1. CASE journal' = journal
    BY <2>1 DEF RequestsOf
  <2>2. CASE journal' # journal
    <3>1. PICK e \in Event : /\ journal' = Append(journal, e)
                              /\ ~Ledger!KeyUsed(RequestsOf(journal), e.req.key)
                              /\ Ledger!Admissible(RequestsOf(journal), e.req)
      BY <2>2 DEF JournalStep
    <3>2. RequestsOf(journal') = Append(RequestsOf(journal), e.req) /\ e.req \in Requests
      BY <3>1, RequestsOfAppend DEF Inv, JournalInv, Event
    <3>3. Ledger!Commit(e.req)
      BY <3>1, <3>2 DEF Ledger!Commit, RequestsOf
    <3>4. QED
      BY <3>2, <3>3 DEF Ledger!Next
  <2>3. QED
    BY <2>1, <2>2
<1>5. QED
  BY <1>1, <1>2, <1>3, <1>4, IndInvHolds, PTL DEF Spec, ImplementsLedger, Ledger!Spec

----------------------------------------------------------------------------
(* What was answered is in the journal once, and the journal reads back *)

\* Answers name committed events.
AckedInv ==
    \A a \in acked :
        \E i \in 1 .. Len(journal) : a = <<journal[i].req.key, journal[i].h>>

\* A compaction record names what the archive holds and a published checkpoint.
RecordsInv ==
    \A c \in compactions :
        /\ c.checkpoint \in checkpoints
        /\ \A e \in c.archived : e \in Event /\ e.seq \in Seqs /\ archive[e.seq] = e

\* What a process knows of the event it published and of the files it moves
ProgressInv(p) ==
    /\ call[p].stage = "compact" => call[p].proof # <<>>
    /\ pc[p] \in {"compact", "archive", "record"} => call[p].stage = "compact"
    /\ pc[p] \in {"sync", "hint"} =>
          Len(journal) # 0 /\ journal[Len(journal)].req = call[p].request
    /\ pc[p] = "archive" =>
          /\ call[p].todo # {}
          /\ \A n \in Covered(p) : n \in call[p].todo \/ archive[n] = active[n]
    /\ pc[p] = "record" => \A n \in Covered(p) : archive[n] = active[n]

SoundInv ==
    /\ Chain(journal) /\ AckedInv /\ RecordsInv
    /\ \A p \in Procs : ProgressInv(p)

\* The first events of a sequence of events
LEMMA PrefixIs ==
    ASSUME NEW es \in Seq(Event), NEW n \in 0 .. Len(es)
    PROVE  /\ Prefix(es, n) \in Seq(Event) /\ Len(Prefix(es, n)) = n
           /\ \A i \in 1 .. n : Prefix(es, n)[i] = es[i]
<1>1. Len(es) \in Nat
  BY LenProperties
<1>2. es \in [1 .. Len(es) -> Event]
  BY LenProperties, ElementOfSeq
<1>3. Prefix(es, n) = [i \in 1 .. n |-> es[i]]
  BY <1>1 DEF Prefix
<1>4. Prefix(es, n) \in [1 .. n -> Event]
  BY <1>1, <1>2, <1>3
<1>5. QED
  BY <1>1, <1>3, <1>4, FunctionLength

\* Sequences that agree have the same prefixes.
LEMMA SamePrefix ==
    ASSUME NEW es \in Seq(Event), NEW fs \in Seq(Event),
           NEW n \in Nat, n <= Len(es), n <= Len(fs),
           \A i \in 1 .. n : es[i] = fs[i]
    PROVE  Prefix(es, n) = Prefix(fs, n)
<1>1. Len(es) \in Nat /\ Len(fs) \in Nat
  BY LenProperties
<1>2. n \in 0 .. Len(es) /\ n \in 0 .. Len(fs)
  BY <1>1
<1>3. /\ Prefix(es, n) \in Seq(Event) /\ Len(Prefix(es, n)) = n
      /\ Prefix(fs, n) \in Seq(Event) /\ Len(Prefix(fs, n)) = n
      /\ \A i \in 1 .. n : Prefix(es, n)[i] = Prefix(fs, n)[i]
  BY <1>2, PrefixIs
<1>4. QED
  BY <1>3, SeqEqual

\* A prefix of a chain is a chain.
LEMMA PrefixChain ==
    ASSUME NEW es, NEW fs \in Seq(Event), PrefixOf(es, fs), Chain(fs)
    PROVE  Chain(es)
<1>1. es \in Seq(Event) /\ Len(es) \in Nat /\ Len(fs) \in Nat /\ Len(es) <= Len(fs)
  BY LenProperties DEF PrefixOf
<1>2. ASSUME NEW i \in 1 .. Len(es) PROVE Applies(Prefix(es, i - 1), es[i])
  <2>1. i - 1 \in Nat /\ i - 1 <= Len(es) /\ i - 1 <= Len(fs) /\ i \in 1 .. Len(fs)
    BY <1>1
  <2>2. \A j \in 1 .. (i - 1) : es[j] = fs[j]
    BY <1>1 DEF PrefixOf
  <2>3. Prefix(es, i - 1) = Prefix(fs, i - 1)
    BY <1>1, <2>1, <2>2, SamePrefix
  <2>4. es[i] = fs[i]
    BY DEF PrefixOf
  <2>5. QED
    BY <2>1, <2>3, <2>4 DEF Chain
<1>3. QED
  BY <1>2 DEF Chain

\* An event that applies continues a chain.
LEMMA ChainAppend ==
    ASSUME NEW es \in Seq(Event), NEW e \in Event, Chain(es), Applies(es, e)
    PROVE  Chain(Append(es, e))
<1> DEFINE fs == Append(es, e)
<1>1. /\ fs \in Seq(Event) /\ Len(fs) = Len(es) + 1 /\ Len(es) \in Nat
      /\ \A i \in 1 .. Len(es) : fs[i] = es[i]
      /\ fs[Len(es) + 1] = e
  BY AppendProperties, LenProperties
<1> HIDE DEF fs
<1>2. ASSUME NEW i \in 1 .. Len(fs) PROVE Applies(Prefix(fs, i - 1), fs[i])
  <2>1. i - 1 \in Nat /\ i - 1 <= Len(es) /\ i - 1 <= Len(fs)
    BY <1>1
  <2>2. \A j \in 1 .. (i - 1) : fs[j] = es[j]
    BY <1>1
  <2>3. Prefix(fs, i - 1) = Prefix(es, i - 1)
    BY <1>1, <2>1, <2>2, SamePrefix
  <2>4. CASE i = Len(es) + 1
    <3>1. Len(es) \in 0 .. Len(es)
      BY <1>1
    <3>2. Prefix(es, Len(es)) = es
      BY <3>1, PrefixIs, SeqEqual
    <3>3. Prefix(es, i - 1) = es /\ fs[i] = e
      BY <1>1, <2>4, <3>2
    <3>4. QED
      BY <2>3, <3>3
  <2>5. CASE i # Len(es) + 1
    BY <1>1, <2>3, <2>5 DEF Chain
  <2>6. QED
    BY <2>4, <2>5
<1>3. QED
  BY <1>2 DEF Chain, fs

\* In a chain an event stands at its number, and no two have the same key.
LEMMA ChainKeys ==
    ASSUME NEW es \in Seq(Event), Chain(es)
    PROVE  /\ \A i \in 1 .. Len(es) : es[i].seq = i
           /\ \A i, j \in 1 .. Len(es) : es[i].req.key = es[j].req.key => i = j
<1>1. Len(es) \in Nat
  BY LenProperties
<1>2. ASSUME NEW i \in 1 .. Len(es)
      PROVE  es[i].seq = i /\ \A j \in 1 .. (i - 1) : es[j].req.key # es[i].req.key
  <2>1. Applies(Prefix(es, i - 1), es[i])
    BY DEF Chain
  <2>2. i - 1 \in 0 .. Len(es)
    BY <1>1
  <2>3. /\ Prefix(es, i - 1) \in Seq(Event) /\ Len(Prefix(es, i - 1)) = i - 1
        /\ \A j \in 1 .. (i - 1) : Prefix(es, i - 1)[j] = es[j]
    BY <2>2, PrefixIs
  <2>4. Len(RequestsOf(Prefix(es, i - 1))) = i - 1
    BY <2>3, RequestsOfLength
  <2>5. \A j \in 1 .. (i - 1) : RequestsOf(Prefix(es, i - 1))[j] = es[j].req
    BY <2>3 DEF RequestsOf
  <2>6. ~Ledger!KeyUsed(RequestsOf(Prefix(es, i - 1)), es[i].req.key)
    BY <2>1 DEF Applies
  <2>7. \A j \in 1 .. (i - 1) : es[j].req.key # es[i].req.key
    BY <2>4, <2>5, <2>6 DEF Ledger!KeyUsed
  <2>8. es[i].seq = i
    BY <1>1, <2>1, <2>3 DEF Applies
  <2>9. QED
    BY <2>7, <2>8
<1>3. ASSUME NEW i \in 1 .. Len(es), NEW j \in 1 .. Len(es), es[i].req.key = es[j].req.key
      PROVE  i = j
  <2>1. CASE i < j
    <3>1. i \in 1 .. (j - 1)
      BY <1>1, <2>1
    <3>2. QED
      BY <1>2, <1>3, <3>1
  <2>2. CASE j < i
    <3>1. j \in 1 .. (i - 1)
      BY <1>1, <2>2
    <3>2. QED
      BY <1>2, <1>3, <3>1
  <2>3. QED
    BY <1>1, <2>1, <2>2
<1>4. QED
  BY <1>2, <1>3

\* What a step of one process leaves to the progress of the others
LEMMA ProgressStep ==
    ASSUME NEW p \in Procs, Inv, SoundInv, OnlyOf(p), ProgressInv(p)',
           Inside(p) \/ UNCHANGED <<journal, active, archive>>
    PROVE  \A q \in Procs : ProgressInv(q)'
<1>1. ASSUME NEW q \in Procs, q # p PROVE ProgressInv(q)'
  <2>1. pc'[q] = pc[q] /\ call'[q] = call[q]
    BY <1>1 DEF OnlyOf, Inv, ProcsInv
  <2>2. ProgressInv(q)
    BY DEF SoundInv
  <2>3. CASE Inside(p)
    <3>1. ~Inside(q)
      BY <1>1, <2>3 DEF Inv, ProcsInv, CallInv
    <3>2. QED
      BY <2>1, <2>2, <3>1 DEF ProgressInv, Inside
  <2>4. CASE UNCHANGED <<journal, active, archive>>
    BY <2>1, <2>2, <2>4 DEF ProgressInv, Covered
  <2>5. QED
    BY <2>3, <2>4
<1>2. QED
  BY <1>1

\* A step that touches neither the journal, the event files nor the answers
LEMMA QuietStep ==
    ASSUME NEW p \in Procs, Inv, SoundInv, OnlyOf(p), ProgressInv(p)',
           UNCHANGED <<journal, active, archive, compactions, acked>>,
           checkpoints \subseteq checkpoints'
    PROVE  SoundInv'
<1>1. \A q \in Procs : ProgressInv(q)'
  BY ProgressStep
<1>2. Chain(journal)' /\ AckedInv' /\ RecordsInv'
  BY DEF SoundInv, Chain, AckedInv, RecordsInv
<1>3. QED
  BY <1>1, <1>2 DEF SoundInv

\* Most points of a call have nothing more to know.
LEMMA PlainProgress ==
    ASSUME NEW p \in Procs,
           pc'[p] \notin {"compact", "archive", "record", "sync", "hint"},
           call'[p].stage = "compact" => call'[p].proof # <<>>
    PROVE  ProgressInv(p)'
BY DEF ProgressInv

\* What Finish and NextCall do to the process
LEMMA FinishIs ==
    ASSUME NEW p \in Procs, NEW r, Inv, Finish(p, r)
    PROVE  /\ pc' = [pc EXCEPT ![p] = "idle"] /\ pc'[p] = "idle"
           /\ call' = [call EXCEPT ![p] = NoCall] /\ call'[p].stage = "none"
           /\ call' = [call EXCEPT ![p] = call'[p]] /\ pc' = [pc EXCEPT ![p] = pc'[p]]
           /\ ProgressInv(p)'
<1>1. /\ pc' = [pc EXCEPT ![p] = "idle"] /\ pc'[p] = "idle"
      /\ call' = [call EXCEPT ![p] = NoCall] /\ call'[p] = NoCall
  BY DEF Finish, Goto, Inv, ProcsInv
<1>2. QED
  BY <1>1, ClearedRecords, PlainProgress

\* What going on to the next call does to a process, and what it knows then
LEMMA NextCallIs ==
    ASSUME NEW p \in Procs, NEW c, Inv, NextCall(p, c), c.stage = "compact" => c.proof # <<>>
    PROVE  /\ pc' = [pc EXCEPT ![p] = pc'[p]] /\ call' = [call EXCEPT ![p] = call'[p]]
           /\ ProgressInv(p)'
<1>1. /\ pc' = [pc EXCEPT ![p] = "lock"] /\ pc'[p] = "lock"
      /\ call' = [call EXCEPT ![p] = c] /\ call'[p] = c
  BY DEF NextCall, Goto, Inv, ProcsInv
<1>2. QED
  BY <1>1, PlainProgress

\* What Goto does to a process whose call stays as it is
LEMMA GotoIs ==
    ASSUME NEW p \in Procs, NEW l, Inv, SoundInv, Goto(p, l)
    PROVE  /\ pc' = [pc EXCEPT ![p] = pc'[p]] /\ pc'[p] = l
           /\ call' = call => /\ call' = [call EXCEPT ![p] = call'[p]]
                              /\ l \notin {"compact", "archive", "record", "sync", "hint"}
                                    => ProgressInv(p)'
<1>1. pc' = [pc EXCEPT ![p] = l] /\ pc'[p] = l
  BY DEF Goto, Inv, ProcsInv
<1>2. ASSUME call' = call PROVE call' = [call EXCEPT ![p] = call'[p]]
  BY <1>2 DEF Inv, ProcsInv
<1>3. ASSUME call' = call, l \notin {"compact", "archive", "record", "sync", "hint"}
      PROVE  ProgressInv(p)'
  <2>1. call'[p].stage = "compact" => call'[p].proof # <<>>
    BY <1>3 DEF SoundInv, ProgressInv
  <2>2. QED
    BY <1>1, <1>3, <2>1, PlainProgress
<1>4. QED
  BY <1>1, <1>2, <1>3

\* A step that changes the replay state of one process leaves the others' alone.
LEMMA SameCache ==
    ASSUME NEW p \in Procs, Inv,
           \/ cache' = cache \/ (\E c : cache' = [cache EXCEPT ![p] = c])
           \/ (\E s : cache' = [cache EXCEPT ![p].st = s])
           \/ (\E s : cache' = [cache EXCEPT ![p].st.events = s])
    PROVE  cache' = [cache EXCEPT ![p] = cache'[p]]
BY DEF Inv, ProcsInv

\* The steps that only read, decide or go on
LEMMA QuietActions ==
    ASSUME NEW p \in Procs, Inv, SoundInv,
           \/ \E q, s : Begin(p, q, s) /\ s # "compact"
           \/ AcquireWriterLock(p) \/ Load(p) \/ Lookup(p) \/ Report(p) \/ Validate(p)
           \/ CreateCheckpoint(p) \/ AdoptCheckpoint(p) \/ VerifyLatestCheckpoint(p)
           \/ StartCompact(p) \/ Sync(p) \/ Crash(p)
    PROVE  SoundInv'
<1>0. CallInv(p) /\ CallShape(call[p]) /\ ProgressInv(p)
  BY DEF Inv, ProcsInv, CallInv, SoundInv
<1>1. CASE \E q, s : Begin(p, q, s) /\ s # "compact"
  <2>1. PICK q, s : Begin(p, q, s) /\ s # "compact"
    BY <1>1
  <2>2. /\ UNCHANGED <<journal, active, archive, checkpoints, compactions, acked, cache>>
        /\ pc' = [pc EXCEPT ![p] = "lock"] /\ pc'[p] = "lock"
        /\ call' = [call EXCEPT ![p] = call'[p]]
        /\ call'[p] = [call[p] EXCEPT !.request = q, !.stage = s]
    BY <2>1 DEF Begin, Goto, Inv, ProcsInv, disk, files, history
  <2>3. call'[p].stage = s
    BY <1>0, <2>2 DEF CallShape
  <2>4. OnlyOf(p)
    BY <2>2, SameCache DEF OnlyOf
  <2>5. QED
    BY <2>1, <2>2, <2>3, <2>4, QuietStep, PlainProgress
<1>2. CASE AcquireWriterLock(p)
  <2>1. UNCHANGED <<journal, active, archive, checkpoints, compactions, acked, cache>>
    BY <1>2 DEF AcquireWriterLock, disk, files, history
  <2>2. CASE \E l : Goto(p, l) /\ UNCHANGED call /\ l \in {"load", Stage(p)}
    <3>1. PICK l : Goto(p, l) /\ UNCHANGED call /\ l \in {"load", Stage(p)}
      BY <2>2
    <3>2. OnlyOf(p) /\ pc'[p] = l /\ call'[p] = call[p]
      BY <2>1, <3>1, GotoIs, SameCache DEF OnlyOf
    <3>3. l \notin {"archive", "record", "sync", "hint"}
      BY <1>0, <3>1 DEF CallInv, Stages, Stage
    <3>4. ProgressInv(p)'
      BY <1>0, <3>1, <3>2, <3>3 DEF ProgressInv, Stage
    <3>5. QED
      BY <2>1, <3>2, <3>4, QuietStep
  <2>3. CASE Goto(p, "idle") /\ call' = [call EXCEPT ![p] = NoCall]
    <3>1. OnlyOf(p) /\ pc'[p] = "idle" /\ call'[p] = NoCall
      BY <2>1, <2>3, GotoIs, SameCache DEF OnlyOf, Inv, ProcsInv
    <3>2. QED
      BY <2>1, <3>1, ClearedRecords, QuietStep, PlainProgress
  <2>4. QED
    BY <1>2, <2>2, <2>3 DEF AcquireWriterLock
<1>3. CASE Load(p)
  <2>1. UNCHANGED <<journal, active, archive, checkpoints, compactions, acked>>
    BY <1>3 DEF Load, files, history
  <2>2. cache' = [cache EXCEPT ![p] = cache'[p]]
    <3>1. cache' = cache \/ \E c : cache' = [cache EXCEPT ![p] = c]
      BY <1>3 DEF Load
    <3>2. QED
      BY <3>1, SameCache
  <2>3. CASE Goto(p, "decide") /\ UNCHANGED call
    BY <2>1, <2>2, <2>3, GotoIs, QuietStep DEF OnlyOf
  <2>4. CASE \E r : Finish(p, r)
    BY <2>1, <2>2, <2>4, FinishIs, QuietStep DEF OnlyOf
  <2>5. QED
    BY <1>3, <2>3, <2>4 DEF Load
<1>4. CASE Lookup(p)
  <2>1. UNCHANGED <<journal, active, archive, checkpoints, compactions, acked, cache>>
    BY <1>4 DEF Lookup, disk, files, history
  <2>2. cache' = [cache EXCEPT ![p] = cache'[p]]
    BY <2>1, SameCache
  <2>3. CASE \E r : Finish(p, r)
    BY <2>1, <2>2, <2>3, FinishIs, QuietStep DEF OnlyOf
  <2>4. CASE \E b : NextCall(p, [call[p] EXCEPT !.stage = "append", !.binding = b])
    <3>1. PICK b : NextCall(p, [call[p] EXCEPT !.stage = "append", !.binding = b])
      BY <2>4
    <3>2. PICK c : c = [call[p] EXCEPT !.stage = "append", !.binding = b]
      OBVIOUS
    <3>3. c.stage # "compact"
      BY <1>0, <3>2 DEF CallShape
    <3>4. NextCall(p, c)
      BY <3>1, <3>2
    <3>5. QED
      BY <2>1, <2>2, <3>3, <3>4, NextCallIs, QuietStep DEF OnlyOf
  <2>5. QED
    BY <1>4, <2>3, <2>4 DEF Lookup
<1>5. CASE Report(p)
  <2>1. UNCHANGED <<journal, active, archive, checkpoints, compactions, acked, cache>> /\ Finish(p, "ok")
    BY <1>5 DEF Report, disk, files, history
  <2>2. QED
    BY <2>1, FinishIs, QuietStep, SameCache DEF OnlyOf
<1>6. CASE Validate(p)
  <2>1. UNCHANGED <<journal, active, archive, checkpoints, compactions, acked>>
    BY <1>6 DEF Validate, disk, files, history
  <2>2. cache' = [cache EXCEPT ![p] = cache'[p]]
    <3>1. cache' = cache \/ \E c : cache' = [cache EXCEPT ![p] = c]
      BY <1>6 DEF Validate
    <3>2. QED
      BY <3>1, SameCache
  <2>3. CASE Goto(p, "link") /\ UNCHANGED call
    BY <2>1, <2>2, <2>3, GotoIs, QuietStep DEF OnlyOf
  <2>4. CASE \E r : Finish(p, r)
    BY <2>1, <2>2, <2>4, FinishIs, QuietStep DEF OnlyOf
  <2>5. QED
    BY <1>6, <2>3, <2>4 DEF Validate
<1>7. CASE CreateCheckpoint(p)
  <2>1. UNCHANGED <<journal, active, archive, compactions, acked, cache>>
    BY <1>7 DEF CreateCheckpoint, history
  <2>2. checkpoints \subseteq checkpoints'
    BY <1>7 DEF CreateCheckpoint
  <2>3. CASE Goto(p, "adopt") /\ UNCHANGED call
    BY <2>1, <2>2, <2>3, GotoIs, QuietStep, SameCache DEF OnlyOf
  <2>4. CASE \E r : Finish(p, r)
    BY <2>1, <2>2, <2>4, FinishIs, QuietStep, SameCache DEF OnlyOf
  <2>5. QED
    BY <1>7, <2>3, <2>4 DEF CreateCheckpoint
<1>8. CASE AdoptCheckpoint(p)
  <2>1. UNCHANGED <<journal, active, archive, checkpoints, compactions, acked>>
    BY <1>8 DEF AdoptCheckpoint, files, history
  <2>2. \E c : cache' = [cache EXCEPT ![p] = c]
    BY <1>8 DEF AdoptCheckpoint
  <2>3. PICK c : c = [call[p] EXCEPT !.stage = "verify"]
    OBVIOUS
  <2>4. NextCall(p, c) /\ c.stage # "compact"
    BY <1>0, <1>8, <2>3, StageOnly DEF AdoptCheckpoint
  <2>5. QED
    BY <2>1, <2>2, <2>4, NextCallIs, QuietStep, SameCache DEF OnlyOf
<1>9. CASE VerifyLatestCheckpoint(p)
  <2>1. UNCHANGED <<journal, active, archive, checkpoints, compactions, acked, cache>>
    BY <1>9 DEF VerifyLatestCheckpoint, disk, files, history
  <2>2. CASE \E r : Finish(p, r)
    BY <2>1, <2>2, FinishIs, QuietStep, SameCache DEF OnlyOf
  <2>3. CASE /\ LatestCheckpoint # <<>>
             /\ NextCall(p, [call[p] EXCEPT !.stage = "compact", !.proof = LatestCheckpoint])
    <3>1. PICK c : c = [call[p] EXCEPT !.stage = "compact", !.proof = LatestCheckpoint]
      OBVIOUS
    <3>2. c.proof # <<>>
      BY <1>0, <2>3, <3>1 DEF CallShape
    <3>3. NextCall(p, c)
      BY <2>3, <3>1
    <3>4. QED
      BY <2>1, <3>2, <3>3, NextCallIs, QuietStep, SameCache DEF OnlyOf
  <2>4. QED
    BY <1>9, <2>2, <2>3 DEF VerifyLatestCheckpoint
<1>10. CASE StartCompact(p)
  <2>1. UNCHANGED <<journal, active, archive, checkpoints, compactions, acked, cache>>
    BY <1>10 DEF StartCompact, disk, files, history
  <2>2. CASE Finish(p, "Integrity")
    BY <2>1, <2>2, FinishIs, QuietStep, SameCache DEF OnlyOf
  <2>3. CASE /\ call' = [call EXCEPT ![p].todo = Covered(p)]
             /\ Goto(p, IF Covered(p) = {} THEN "record" ELSE "archive")
    <3>1. /\ call' = [call EXCEPT ![p] = call'[p]]
          /\ call'[p] = [call[p] EXCEPT !.todo = Covered(p)]
      BY <2>3 DEF Inv, ProcsInv
    <3>2. call'[p].todo = Covered(p) /\ call'[p].stage = call[p].stage /\ call'[p].proof = call[p].proof
      BY <1>0, <3>1 DEF CallShape
    <3>3. Covered(p)' = Covered(p)
      BY <2>1, <3>2 DEF Covered
    <3>4. pc'[p] = IF Covered(p) = {} THEN "record" ELSE "archive"
      BY <2>3, GotoIs
    <3>5. call[p].stage = "compact"
      BY <1>0, <1>10 DEF StartCompact, ProgressInv
    <3>6. ProgressInv(p)'
      BY <1>0, <3>2, <3>3, <3>4, <3>5 DEF ProgressInv
    <3>7. OnlyOf(p)
      BY <2>1, <2>3, <3>1, GotoIs, SameCache DEF OnlyOf
    <3>8. QED
      BY <2>1, <3>6, <3>7, QuietStep
  <2>4. QED
    BY <1>10, <2>2, <2>3 DEF StartCompact
<1>11. CASE Sync(p)
  <2>1. UNCHANGED <<journal, active, archive, checkpoints, compactions, acked>>
    BY <1>11 DEF Sync, disk, files, history
  <2>2. cache' = [cache EXCEPT ![p] = cache'[p]]
    <3>1. cache' = cache \/ \E s : cache' = [cache EXCEPT ![p].st.events = s]
      BY <1>11 DEF Sync
    <3>2. QED
      BY <3>1, SameCache
  <2>3. CASE Goto(p, "hint") /\ UNCHANGED call
    <3>1. OnlyOf(p) /\ pc'[p] = "hint"
      BY <2>2, <2>3, GotoIs DEF OnlyOf
    <3>2. ProgressInv(p)'
      BY <1>0, <1>11, <2>1, <2>3, <3>1 DEF ProgressInv, Sync
    <3>3. QED
      BY <2>1, <3>1, <3>2, QuietStep
  <2>4. CASE \E r : Finish(p, r)
    BY <2>1, <2>2, <2>4, FinishIs, QuietStep DEF OnlyOf
  <2>5. QED
    BY <1>11, <2>3, <2>4 DEF Sync
<1>12. CASE Crash(p)
  <2>1. UNCHANGED <<journal, active, archive, checkpoints, compactions, acked>>
    BY <1>12 DEF Crash, files, history
  <2>2. /\ Goto(p, "idle") /\ call' = [call EXCEPT ![p] = NoCall] /\ call'[p] = NoCall
        /\ cache' = [cache EXCEPT ![p] = NoCache]
    BY <1>12 DEF Crash, Inv, ProcsInv
  <2>3. OnlyOf(p) /\ pc'[p] = "idle"
    BY <2>2, GotoIs, SameCache DEF OnlyOf
  <2>4. QED
    BY <2>1, <2>2, <2>3, ClearedRecords, QuietStep, PlainProgress
<1>13. QED
  BY <1>1, <1>2, <1>3, <1>4, <1>5, <1>6, <1>7, <1>8, <1>9, <1>10, <1>11, <1>12

\* The answers name events of the journal.
LEMMA AnswerIsSound ==
    ASSUME NEW p \in Procs, Inv, SoundInv, AnswerFromJournal(p) \/ Respond(p)
    PROVE  SoundInv'
<1>0. CallInv(p) /\ ProgressInv(p) /\ JournalInv
  BY DEF Inv, ProcsInv, SoundInv
<1>1. UNCHANGED <<journal, active, archive, checkpoints, compactions, cache>>
  BY DEF AnswerFromJournal, Respond, disk, files, history
<1>2. OnlyOf(p) /\ ProgressInv(p)'
  <2>1. CASE \E r : Finish(p, r)
    BY <1>1, <2>1, FinishIs, SameCache DEF OnlyOf
  <2>2. CASE NextCall(p, [NoCall EXCEPT !.stage = "checkpoint"])
    <3>1. PICK c : c = [NoCall EXCEPT !.stage = "checkpoint"]
      OBVIOUS
    <3>2. c.stage # "compact" /\ NextCall(p, c)
      BY <2>2, <3>1, ClearedRecords, StageOnly
    <3>3. QED
      BY <1>1, <3>2, NextCallIs, SameCache DEF OnlyOf
  <2>3. QED
    BY <2>1, <2>2 DEF AnswerFromJournal, Respond
<1>3. AckedInv'
  <2>1. \/ acked' = acked
        \/ \E i \in 1 .. Len(journal) :
              acked' = acked \cup {<<journal[i].req.key, journal[i].h>>}
    <3>1. CASE AnswerFromJournal(p)
      <4>1. State(p).events = journal
        BY <1>0, <3>1 DEF AnswerFromJournal, CallInv, State
      <4>2. QED
        BY <3>1, <4>1 DEF AnswerFromJournal, ExistingEvent
    <3>2. CASE Respond(p)
      <4>1. /\ State(p).events = journal /\ Len(journal) # 0
            /\ journal[Len(journal)].req = call[p].request
        BY <1>0, <3>2 DEF Respond, CallInv, State, ProgressInv
      <4>2. Len(journal) \in 1 .. Len(journal)
        BY <1>0, <4>1, LenProperties DEF JournalInv
      <4>3. LastHash(journal) = journal[Len(journal)].h
        BY <4>1 DEF LastHash, HashAt
      <4>4. acked' = acked \cup {<<Request(p).key, LastHash(State(p).events)>>}
        BY <3>2 DEF Respond
      <4>5. QED
        BY <4>1, <4>2, <4>3, <4>4 DEF Request
    <3>3. QED
      BY <3>1, <3>2
  <2>2. QED
    BY <1>1, <2>1 DEF SoundInv, AckedInv
<1>4. Chain(journal)' /\ RecordsInv'
  BY <1>1 DEF SoundInv, Chain, RecordsInv
<1>5. \A q \in Procs : ProgressInv(q)'
  BY <1>1, <1>2, ProgressStep
<1>6. QED
  BY <1>3, <1>4, <1>5 DEF SoundInv

\* The event that is published continues the chain.
LEMMA LinkIsSound ==
    ASSUME NEW p \in Procs, Inv, SoundInv, Link(p)
    PROVE  SoundInv'
<1> DEFINE q == call[p].request
           e == NewEvent(journal, q)
<1>1. /\ CallInv(p) /\ ProgressInv(p) /\ JournalInv /\ Inside(p) /\ pc[p] = "link"
      /\ cache[p].st.events = journal /\ q \in Requests /\ Len(journal) < MaxEvents
      /\ ~Ledger!KeyUsed(RequestsOf(journal), q.key)
      /\ Ledger!Admissible(RequestsOf(journal), q)
  BY DEF Inv, ProcsInv, SoundInv, CallInv, Link, Inside
<1>2. UNCHANGED <<archive, checkpoints, compactions, acked>>
  BY DEF Link
<1>3. CASE /\ journal' = Append(journal, e) /\ Goto(p, "sync") /\ UNCHANGED <<call, cache>>
  <2>1. e \in Event /\ e.req = q /\ e.seq = Len(journal) + 1 /\ e.prior = LastHash(journal)
    <3>1. e \in Event /\ e.req = q /\ e.seq = Len(journal) + 1
      BY <1>1, NewEventFits
    <3>2. e.prior = LastHash(journal)
      BY DEF NewEvent
    <3>3. QED
      BY <3>1, <3>2
  <2> HIDE DEF e
  <2>2. journal \in Seq(Event) /\ Len(journal) \in Nat
    BY <1>1, LenProperties DEF JournalInv
  <2>3. Applies(journal, e)
    BY <1>1, <2>1 DEF Applies
  <2>4. Chain(journal')
    BY <1>3, <2>1, <2>2, <2>3, ChainAppend DEF SoundInv
  <2>5. /\ Len(journal') = Len(journal) + 1 /\ journal'[Len(journal) + 1] = e
        /\ \A i \in 1 .. Len(journal) : journal'[i] = journal[i]
    BY <1>3, <2>1, <2>2, AppendProperties
  <2>6. AckedInv'
    <3>1. \A i \in 1 .. Len(journal) : i \in 1 .. Len(journal')
      BY <2>2, <2>5
    <3>2. QED
      BY <1>2, <2>5, <3>1 DEF SoundInv, AckedInv
  <2>7. RecordsInv'
    BY <1>2 DEF SoundInv, RecordsInv
  <2>8. OnlyOf(p) /\ pc'[p] = "sync"
    BY <1>3, GotoIs, SameCache DEF OnlyOf
  <2>9. ProgressInv(p)'
    BY <1>1, <1>3, <2>1, <2>2, <2>5, <2>8 DEF ProgressInv
  <2>10. \A r \in Procs : ProgressInv(r)'
    BY <1>1, <2>8, <2>9, ProgressStep
  <2>11. QED
    BY <2>4, <2>6, <2>7, <2>10 DEF SoundInv, Chain
<1>4. CASE UNCHANGED <<active, journal>>
  <2>1. cache' = [cache EXCEPT ![p] = cache'[p]]
    <3>1. cache' = cache \/ \E s : cache' = [cache EXCEPT ![p].st = s]
      BY DEF Link
    <3>2. QED
      BY <3>1, SameCache
  <2>2. CASE Goto(p, "decide") /\ UNCHANGED call
    BY <1>2, <1>4, <2>1, <2>2, GotoIs, QuietStep DEF OnlyOf
  <2>3. CASE \E r : Finish(p, r)
    BY <1>2, <1>4, <2>1, <2>3, FinishIs, QuietStep DEF OnlyOf
  <2>4. CASE Goto(p, "sync") /\ journal' = Append(journal, e) /\ UNCHANGED <<call, cache>>
    BY <1>3, <2>4
  <2>5. QED
    BY <1>1, <2>2, <2>3, <2>4 DEF Link, State, Request
<1>5. QED
  BY <1>1, <1>3, <1>4 DEF Link, State, Request

\* Copying into the archive brings the files to be recorded there, and changes none that
\* a record names.
LEMMA ArchiveIsSound ==
    ASSUME NEW p \in Procs, Inv, SoundInv, ArchiveOne(p)
    PROVE  SoundInv'
<1> DEFINE n == FirstTodo(p)
<1>1. /\ UNCHANGED <<active, checkpoints, compactions, journal, cache, acked>>
      /\ Inside(p) /\ pc[p] = "archive"
  BY DEF ArchiveOne, history, Inside
<1>2. CallInv(p) /\ CallShape(call[p]) /\ JournalInv /\ DiskInv /\ ProgressInv(p)
  BY DEF Inv, ProcsInv, CallInv, SoundInv
<1> HIDE DEF n
<1>3. CASE \E r : Finish(p, r) /\ UNCHANGED archive
  BY <1>1, <1>3, FinishIs, QuietStep, SameCache DEF OnlyOf
<1>4. CASE /\ archive[n] \in {NoEvent, active[n]}
           /\ archive' = [archive EXCEPT ![n] = active[n]]
           /\ call' = [call EXCEPT ![p].todo = @ \ {n}]
           /\ Goto(p, IF call[p].todo = {n} THEN "record" ELSE "archive")
  <2>1. \A m \in Seqs : /\ archive[m] # NoEvent => archive'[m] = archive[m]
                        /\ archive[m] = active[m] \/ m = n => archive'[m] = active[m]
    BY <1>2, <1>4 DEF DiskInv
  <2>2. RecordsInv'
    <3>1. \A e \in Event : e # NoEvent
      BY NoEventAssumption
    <3>2. ASSUME NEW c \in compactions, NEW e \in c.archived
          PROVE  e \in Event /\ e.seq \in Seqs /\ archive'[e.seq] = e
      <4>1. e \in Event /\ e.seq \in Seqs /\ archive[e.seq] = e
        BY DEF SoundInv, RecordsInv
      <4>2. QED
        BY <2>1, <3>1, <4>1
    <3>3. QED
      BY <1>1, <3>2 DEF SoundInv, RecordsInv
  <2>3. /\ call' = [call EXCEPT ![p] = call'[p]]
        /\ call'[p] = [call[p] EXCEPT !.todo = call[p].todo \ {n}]
    BY <1>4 DEF Inv, ProcsInv
  <2>4. /\ call'[p].stage = call[p].stage /\ call'[p].proof = call[p].proof
        /\ call'[p].todo = call[p].todo \ {n}
    BY <1>2, <2>3 DEF CallShape
  <2>5. Covered(p)' = Covered(p)
    BY <1>1, <2>4 DEF Covered
  <2>6. Covered(p) \subseteq Seqs
    BY <1>1, <1>2, CoveredByProof DEF CallInv
  <2>7. pc'[p] = IF call[p].todo = {n} THEN "record" ELSE "archive"
    BY <1>4, GotoIs
  <2>8. \A m \in Covered(p) : m \in call'[p].todo \/ archive'[m] = active[m]
    <3>1. \A m \in Covered(p) : m \in call[p].todo \/ archive[m] = active[m]
      BY <1>1, <1>2 DEF ProgressInv
    <3>2. QED
      BY <2>1, <2>4, <2>6, <3>1
  <2>9. call[p].todo # {} /\ call[p].stage = "compact" /\ call[p].proof # <<>>
    BY <1>1, <1>2 DEF ProgressInv
  <2>10. call[p].todo # {n} => call'[p].todo # {}
    BY <2>4, <2>9
  <2>11. call[p].todo = {n} => call'[p].todo = {}
    BY <2>4
  <2>12. ProgressInv(p)'
    BY <1>1, <2>4, <2>5, <2>7, <2>8, <2>9, <2>10, <2>11 DEF ProgressInv
  <2>13. OnlyOf(p)
    BY <1>1, <1>4, <2>3, GotoIs, SameCache DEF OnlyOf
  <2>14. \A q \in Procs : ProgressInv(q)'
    BY <1>1, <2>12, <2>13, ProgressStep
  <2>15. QED
    BY <1>1, <2>2, <2>14 DEF SoundInv, Chain, AckedInv
<1>5. QED
  BY <1>3, <1>4 DEF ArchiveOne, n

\* A record names archived files only, and deletion touches none of them.
LEMMA RecordIsSound ==
    ASSUME NEW p \in Procs, Inv, SoundInv, PublishRecord(p) \/ DeleteOne(p)
    PROVE  SoundInv'
<1>1. UNCHANGED <<archive, checkpoints, journal, cache, acked>> /\ Inside(p)
  BY DEF PublishRecord, DeleteOne, history, Inside
<1>2. CallInv(p) /\ CallShape(call[p]) /\ JournalInv /\ DiskInv /\ ProgressInv(p)
  BY DEF Inv, ProcsInv, CallInv, SoundInv
<1>3. OnlyOf(p) /\ ProgressInv(p)'
  <2>1. CASE \E r : Finish(p, r)
    BY <1>1, <2>1, FinishIs, SameCache DEF OnlyOf
  <2>2. CASE \E t : call' = [call EXCEPT ![p].todo = t] /\ Goto(p, "delete")
    <3>1. PICK t : call' = [call EXCEPT ![p].todo = t] /\ Goto(p, "delete")
      BY <2>2
    <3>2. call' = [call EXCEPT ![p] = call'[p]] /\ call'[p] = [call[p] EXCEPT !.todo = t]
      BY <3>1 DEF Inv, ProcsInv
    <3>3. call'[p].stage = call[p].stage /\ call'[p].proof = call[p].proof
      BY <1>2, <3>2 DEF CallShape
    <3>4. pc'[p] = "delete" /\ OnlyOf(p)
      BY <1>1, <3>1, <3>2, GotoIs, SameCache DEF OnlyOf
    <3>5. QED
      BY <1>2, <3>3, <3>4, PlainProgress DEF ProgressInv
  <2>3. QED
    BY <2>1, <2>2 DEF PublishRecord, DeleteOne
<1>4. \A q \in Procs : ProgressInv(q)'
  BY <1>1, <1>3, ProgressStep
<1>5. RecordsInv'
  <2> DEFINE record == [checkpoint |-> call[p].proof, archived |-> {active[n] : n \in Covered(p)}]
  <2>1. CASE compactions' = compactions
    BY <1>1, <2>1 DEF SoundInv, RecordsInv
  <2>2. CASE compactions' = compactions \cup {record} /\ pc[p] = "record"
    <3>1. call[p].proof \in checkpoints
      BY <1>2, <2>2 DEF CallInv, ProgressInv
    <3>2. ASSUME NEW n \in Covered(p)
          PROVE  active[n] \in Event /\ active[n].seq = n /\ n \in Seqs /\ archive[n] = active[n]
      <4>1. n \in Seqs
        BY <1>2, <3>1, CoveredByProof
      <4>2. active[n] # NoEvent /\ archive[n] = active[n]
        BY <1>2, <2>2 DEF Covered, ProgressInv
      <4>3. n \in 1 .. Len(journal) /\ active[n] = journal[n]
        BY <1>2, <4>1, <4>2, LenProperties DEF DiskInv, JournalInv, Seqs
      <4>4. journal \in Seq(Event) /\ Chain(journal)
        BY <1>2 DEF SoundInv, JournalInv
      <4>5. journal[n] \in Event /\ journal[n].seq = n
        BY <4>3, <4>4, ChainKeys, ElementOfSeq
      <4>6. QED
        BY <4>1, <4>2, <4>3, <4>5
    <3>3. /\ record.checkpoint \in checkpoints
          /\ \A e \in record.archived : e \in Event /\ e.seq \in Seqs /\ archive[e.seq] = e
      BY <3>1, <3>2
    <3> HIDE DEF record
    <3>4. QED
      BY <1>1, <2>2, <3>3 DEF SoundInv, RecordsInv
  <2>3. QED
    BY <2>1, <2>2 DEF PublishRecord, DeleteOne
<1>6. QED
  BY <1>1, <1>4, <1>5 DEF SoundInv, Chain, AckedInv

\* Every step keeps what was answered and what can be read back.
LEMMA NextKeepsSound ==
    ASSUME Inv, SoundInv, [Next]_vars, ~\E q \in Requests : OlderWriterLinks(q)
    PROVE  SoundInv'
<1>1. ASSUME NEW p \in Procs, Start(p) PROVE SoundInv'
  <2>1. \E q, s : Begin(p, q, s) /\ s # "compact"
    <3>1. CASE \E q \in Requests : StartRequest(p, q)
      <4>1. PICK q \in Requests : StartRequest(p, q)
        BY <3>1
      <4>2. PICK s \in {"lookup", "append"} : Begin(p, q, s)
        BY <4>1 DEF StartRequest
      <4>3. QED
        BY <4>2
    <3>2. QED
      BY <1>1, <3>1 DEF Start, StartSnapshot, StartMaintenance
  <2>2. QED
    BY <2>1, QuietActions
<1>2. ASSUME NEW p \in Procs, Step(p) PROVE SoundInv'
  BY <1>2, QuietActions, AnswerIsSound, LinkIsSound, ArchiveIsSound, RecordIsSound
     DEF Step, AppendStep, MaintenanceStep
<1>3. ASSUME NEW p \in Procs, Crash(p) PROVE SoundInv'
  BY <1>3, QuietActions
<1>4. ASSUME OlderWriterReads \/ UNCHANGED vars PROVE SoundInv'
  <2>1. UNCHANGED <<journal, active, archive, checkpoints, compactions, acked, pc, call>>
    BY <1>4 DEF OlderWriterReads, vars, disk, files, history
  <2>2. QED
    BY <2>1 DEF SoundInv, Chain, AckedInv, RecordsInv, ProgressInv, Covered
<1>5. QED
  BY <1>1, <1>2, <1>3, <1>4 DEF Next

\* Answers name one event each, and it is in the journal once.
LEMMA AnswersCommittedOnce ==
    ASSUME JournalInv, SoundInv
    PROVE  CommittedOnce
<1>1. \A i, j \in 1 .. Len(journal) : journal[i].req.key = journal[j].req.key => i = j
  BY ChainKeys DEF JournalInv, SoundInv
<1>2. ASSUME NEW a \in acked
      PROVE  /\ \A b \in acked : a[1] = b[1] => a = b
             /\ Cardinality({i \in 1 .. Len(journal) : journal[i].req.key = a[1]}) = 1
             /\ \E i \in 1 .. Len(journal) : journal[i].h = a[2] /\ journal[i].req.key = a[1]
  <2>1. PICK i \in 1 .. Len(journal) : a = <<journal[i].req.key, journal[i].h>>
    BY DEF SoundInv, AckedInv
  <2>2. a[1] = journal[i].req.key /\ a[2] = journal[i].h
    BY <2>1
  <2>3. ASSUME NEW b \in acked, a[1] = b[1] PROVE a = b
    <3>1. PICK j \in 1 .. Len(journal) : b = <<journal[j].req.key, journal[j].h>>
      BY DEF SoundInv, AckedInv
    <3>2. i = j
      BY <1>1, <2>2, <2>3, <3>1
    <3>3. QED
      BY <2>1, <3>1, <3>2
  <2>4. {j \in 1 .. Len(journal) : journal[j].req.key = a[1]} = {i}
    BY <1>1, <2>2
  <2>5. Cardinality({i}) = 1
    BY FS_Singleton
  <2>6. QED
    BY <2>2, <2>3, <2>4, <2>5
<1>3. QED
  BY <1>2 DEF CommittedOnce

\* Both ways of reading the journal back succeed, and yield it.
LEMMA BothReplaysSucceed ==
    ASSUME JournalInv, DiskInv, SoundInv
    PROVE  /\ FullReplay.ok /\ FullReplay.events = journal
           /\ Replay.ok /\ Replay.events = journal
<1>1. journal \in Seq(Event) /\ Len(journal) \in Nat /\ Chain(journal)
  BY LenProperties DEF JournalInv, SoundInv
<1>2. ASSUME NEW b \in BOOLEAN PROVE CompactionsValid(b)
  <2>1. \A e \in Event : e # NoEvent
    BY NoEventAssumption
  <2>2. QED
    BY <2>1 DEF SoundInv, RecordsInv, CompactionsValid
<1>3. CheckpointsValid
  <2>1. ASSUME NEW c \in checkpoints PROVE Chain(c)
    BY <1>1, PrefixChain DEF DiskInv, IsJournalPrefix
  <2>2. ASSUME NEW c \in checkpoints, NEW d \in checkpoints, Len(c) = Len(d) PROVE c = d
    <3>1. /\ c \in Seq(Event) /\ d \in Seq(Event)
          /\ \A i \in 1 .. Len(c) : c[i] = journal[i]
          /\ \A i \in 1 .. Len(d) : d[i] = journal[i]
      BY DEF DiskInv, IsJournalPrefix, PrefixOf
    <3>2. QED
      BY <2>2, <3>1, SeqEqual
  <2>3. QED
    BY <2>1, <2>2 DEF CheckpointsValid
<1>4. FullReplay.ok
  <2> DEFINE es == [n \in 1 .. Cardinality(Present) |-> At(n)]
  <2>1. FullReplay.events = es /\ es = journal
    BY FullReplayIsJournal DEF FullReplay
  <2> HIDE DEF es
  <2>2. \A n \in Seqs : active[n] # NoEvent /\ archive[n] # NoEvent => active[n] = archive[n]
    BY DEF DiskInv
  <2>3. Present = 1 .. Len(es) /\ Chain(es)
    BY <1>1, <2>1, AtIsJournal
  <2>4. CompactionsValid(TRUE)
    BY <1>2
  <2>5. FullReplay.ok <=> /\ CompactionsValid(TRUE)
                          /\ \A n \in Seqs : active[n] # NoEvent /\ archive[n] # NoEvent
                                               => active[n] = archive[n]
                          /\ Present = 1 .. Len(es)
                          /\ Chain(es)
    BY DEF FullReplay, es
  <2>6. QED
    BY <2>2, <2>3, <2>4, <2>5
<1>5. Replay.ok
  <2> DEFINE c == LatestCheckpoint
             suffix == {n \in Seqs : n > Len(c) /\ active[n] # NoEvent}
             es == c \o [i \in 1 .. Cardinality(suffix) |-> active[Len(c) + i]]
  <2>1. Replay.events = es /\ es = journal
    BY ReplayIsJournal DEF Replay
  <2>2. IsJournalPrefix(c)
    BY LatestCoversArchived
  <2>3. suffix = Len(c) + 1 .. Len(journal)
    BY LatestCoversArchived
  <2>4. \A n \in 1 .. Len(c) : At(n) = c[n]
    <3>1. Len(c) \in Nat /\ Len(c) <= Len(journal) /\ \A n \in 1 .. Len(c) : c[n] = journal[n]
      BY <2>2, LenProperties DEF IsJournalPrefix, PrefixOf
    <3> HIDE DEF c
    <3>2. QED
      BY <1>1, <3>1, AtIsJournal
  <2>5. Replay.ok <=> /\ CompactionsValid(FALSE)
                      /\ CheckpointsValid
                      /\ \A n \in 1 .. Len(c) : At(n) = c[n]
                      /\ suffix = Len(c) + 1 .. Len(es)
                      /\ Chain(es)
    BY DEF Replay
  <2>6. CompactionsValid(FALSE)
    BY <1>2
  <2> HIDE DEF c, suffix, es
  <2>7. QED
    BY <1>1, <1>3, <2>1, <2>3, <2>4, <2>5, <2>6
<1>6. QED
  BY <1>4, <1>5, FullReplayIsJournal, ReplayIsJournal

\* Hosts that all take the lock: what was answered stays in the journal, once, and in
\* every state, between any two steps of a compaction and after every crash, the journal
\* reads back completely, with and without the newest checkpoint.
THEOREM JournalIsSoundHolds ==
    ASSUME MaxOlderWrites = 0
    PROVE  Spec => []JournalIsSound
<1>1. Init => SoundInv /\ olderWrites = 0
  <2> SUFFICES ASSUME Init PROVE SoundInv
    BY DEF Init
  <2>1. journal = <<>> /\ Len(journal) = 0 /\ acked = {} /\ compactions = {}
    BY EmptySeq DEF Init
  <2>2. ASSUME NEW p \in Procs PROVE ProgressInv(p)
    BY ClearedRecords DEF Init, ProgressInv
  <2>3. QED
    BY <2>1, <2>2 DEF SoundInv, Chain, AckedInv, RecordsInv
<1>2. /\ olderWrites = 0 /\ [Next]_vars
      => (olderWrites = 0)' /\ ~\E q \in Requests : OlderWriterLinks(q)
  <2>1. olderWrites = 0 => ~\E q \in Requests : OlderWriterLinks(q)
    BY DEF OlderWriterLinks
  <2>2. QED
    BY <2>1, OlderWritesStep
<1>3. IndInv /\ olderWrites = 0 /\ SoundInv /\ [Next]_vars => SoundInv'
  BY <1>2, NextKeepsSound DEF IndInv, OnlyLockedWriters
<1>4. IndInv /\ olderWrites = 0 /\ SoundInv => JournalIsSound
  <2> SUFFICES ASSUME Inv, SoundInv PROVE JournalIsSound
    BY DEF IndInv, OnlyLockedWriters
  <2>1. JournalInv /\ DiskInv
    BY DEF Inv
  <2>2. QED
    BY <2>1, AnswersCommittedOnce, BothReplaysSucceed DEF JournalIsSound, ReplayPathsAgree
<1>5. QED
  BY <1>1, <1>2, <1>3, <1>4, IndInvHolds, PTL DEF Spec

----------------------------------------------------------------------------
(* Sums of units *)

\* The recursion of MapThenFoldSet for a sum of f over the subsets of a set
Pick(s) == CHOOSE x \in s : TRUE
IsSum(it, f, D) ==
    it = [s \in D |-> IF s = {} THEN 0 ELSE f[Pick(s)] + it[s \ {Pick(s)}]]

\* The subsets with at most n elements, and the sum over a set
UpTo(S, n) == {s \in SUBSET S : Cardinality(s) <= n}
Total(f, S) == (CHOOSE it : IsSum(it, f, SUBSET S))[S]

\* An element is taken from a set that has one, and the rest is smaller.
LEMMA PickShrinks ==
    ASSUME NEW s, IsFiniteSet(s), s # {}
    PROVE  /\ Pick(s) \in s /\ IsFiniteSet(s \ {Pick(s)})
           /\ Cardinality(s) \in Nat \ {0}
           /\ Cardinality(s \ {Pick(s)}) = Cardinality(s) - 1
<1>1. Pick(s) \in s
  BY DEF Pick
<1>2. QED
  BY <1>1, FS_RemoveElement, FS_CardinalityType, FS_EmptySet

\* A recursion over the subsets with at most n elements has a solution.
LEMMA SumUpToExists ==
    ASSUME NEW S, IsFiniteSet(S), NEW f
    PROVE  \A n \in Nat : \E it : IsSum(it, f, UpTo(S, n))
<1> DEFINE Bad == {n \in Nat : ~\E it : IsSum(it, f, UpTo(S, n))}
<1> SUFFICES ASSUME Bad # {} PROVE FALSE
  OBVIOUS
<1>1. PICK n \in Bad : \A m \in Bad : ~(<<m, n>> \in OpToRel(<, Nat))
  <2>1. Bad \subseteq Nat
    OBVIOUS
  <2> HIDE DEF Bad
  <2>2. QED
    BY <2>1, WFMin, NatLessThanWellFounded
<1>2. n \in Nat /\ \A m \in Nat : m < n => \E it : IsSum(it, f, UpTo(S, m))
  BY <1>1 DEF OpToRel
<1>3. \A s \in SUBSET S : IsFiniteSet(s) /\ Cardinality(s) \in Nat
  BY FS_Subset, FS_CardinalityType
<1>4. CASE n = 0
  <2>1. \A s \in UpTo(S, n) : s = {}
    BY <1>3, <1>4, FS_EmptySet DEF UpTo
  <2>2. IsSum([s \in UpTo(S, n) |-> 0], f, UpTo(S, n))
    BY <2>1 DEF IsSum
  <2>3. QED
    BY <2>2, <1>1
<1>5. CASE n # 0
  <2>1. n - 1 \in Nat /\ n - 1 < n
    BY <1>2, <1>5
  <2>2. PICK it : IsSum(it, f, UpTo(S, n - 1))
    BY <1>2, <2>1
  <2> DEFINE jt == [s \in UpTo(S, n) |-> IF s = {} THEN 0 ELSE f[Pick(s)] + it[s \ {Pick(s)}]]
  <2>3. ASSUME NEW s \in UpTo(S, n), s # {}
        PROVE  jt[s \ {Pick(s)}] = it[s \ {Pick(s)}]
    <3> DEFINE t == s \ {Pick(s)}
    <3>1. IsFiniteSet(s) /\ s \in SUBSET S /\ Cardinality(s) <= n /\ Cardinality(s) \in Nat
      BY <1>3 DEF UpTo
    <3>2. t \in SUBSET S /\ Cardinality(t) <= n - 1 /\ Cardinality(t) <= n
      BY <2>3, <3>1, <1>2, PickShrinks
    <3>3. t \in UpTo(S, n - 1) /\ t \in UpTo(S, n)
      BY <3>2 DEF UpTo
    <3>4. jt[t] = IF t = {} THEN 0 ELSE f[Pick(t)] + it[t \ {Pick(t)}]
      BY <3>3
    <3>5. it[t] = IF t = {} THEN 0 ELSE f[Pick(t)] + it[t \ {Pick(t)}]
      BY <3>3, <2>2 DEF IsSum
    <3>6. QED
      BY <3>4, <3>5
  <2>4. IsSum(jt, f, UpTo(S, n))
    BY <2>3 DEF IsSum
  <2>5. QED
    BY <2>4, <1>1
<1>6. QED
  BY <1>4, <1>5

\* So has the recursion over all subsets of a finite set.
LEMMA SumExists ==
    ASSUME NEW S, IsFiniteSet(S), NEW f
    PROVE  \E it : IsSum(it, f, SUBSET S)
<1> DEFINE n == Cardinality(S)
<1>1. n \in Nat
  BY FS_CardinalityType
<1>2. UpTo(S, n) = SUBSET S
  BY FS_Subset DEF UpTo
<1> HIDE DEF n
<1>3. \E it : IsSum(it, f, UpTo(S, n))
  BY <1>1, SumUpToExists
<1>4. QED
  BY <1>2, <1>3

\* Functions that agree on a set, and what sums of them give for a set
SameValues(f, g, S) == \A x \in S : f[x] = g[x] /\ f[x] \in Nat
SumFacts(it, jt, f, s) ==
    /\ it[s] = jt[s] /\ it[s] \in Nat
    /\ \A x \in s : it[s] = f[x] + it[s \ {x}]

\* What sums of functions that agree on a set give for it does not depend on the
\* sets they recur over, and every element may be taken out first.
LEMMA SumsAgree ==
    ASSUME NEW S, NEW T, IsFiniteSet(S), NEW f, NEW g, NEW it, NEW jt,
           IsSum(it, f, SUBSET S), IsSum(jt, g, SUBSET T),
           SameValues(f, g, S \cap T)
    PROVE  \A s \in SUBSET (S \cap T) : SumFacts(it, jt, f, s)
<1> DEFINE Good(s) == /\ it[s] = jt[s] /\ it[s] \in Nat
                      /\ \A x \in s : it[s] = f[x] + it[s \ {x}]
           Bad == {n \in Nat : \E s \in SUBSET (S \cap T) : Cardinality(s) = n /\ ~Good(s)}
<1>1. \A s \in SUBSET (S \cap T) : IsFiniteSet(s) /\ Cardinality(s) \in Nat /\ s \in SUBSET S /\ s \in SUBSET T
  BY FS_Subset, FS_CardinalityType
<1>0. \A x \in S \cap T : f[x] = g[x] /\ f[x] \in Nat
  BY DEF SameValues
<1> SUFFICES ASSUME Bad # {} PROVE FALSE
  BY <1>1 DEF SumFacts
<1>2. PICK n \in Bad : \A m \in Bad : ~(<<m, n>> \in OpToRel(<, Nat))
  <2>1. Bad \subseteq Nat
    OBVIOUS
  <2> HIDE DEF Bad
  <2>2. QED
    BY <2>1, WFMin, NatLessThanWellFounded
<1>3. PICK s \in SUBSET (S \cap T) : Cardinality(s) = n /\ ~Good(s)
  BY <1>2
<1>4. \A t \in SUBSET (S \cap T) : Cardinality(t) < n => Good(t)
  <2> SUFFICES ASSUME NEW t \in SUBSET (S \cap T), Cardinality(t) < n, ~Good(t) PROVE FALSE
    OBVIOUS
  <2>1. Cardinality(t) \in Nat /\ Cardinality(t) \in Bad
    BY <1>1
  <2> HIDE DEF Bad
  <2>2. n \in Nat
    BY <1>1, <1>3
  <2>3. QED
    BY <2>1, <2>2, <1>2 DEF OpToRel
<1>5. /\ it[s] = IF s = {} THEN 0 ELSE f[Pick(s)] + it[s \ {Pick(s)}]
      /\ jt[s] = IF s = {} THEN 0 ELSE g[Pick(s)] + jt[s \ {Pick(s)}]
  BY <1>1 DEF IsSum
<1>6. ASSUME NEW t \in SUBSET (S \cap T), NEW x \in t, Cardinality(t) <= n
      PROVE  t \ {x} \in SUBSET (S \cap T) /\ Cardinality(t \ {x}) < n /\ Good(t \ {x})
  <2>1. t \ {x} \in SUBSET (S \cap T) /\ IsFiniteSet(t) /\ Cardinality(t) \in Nat /\ n \in Nat
    BY <1>1, <1>3
  <2>2. Cardinality(t \ {x}) = Cardinality(t) - 1
    BY <2>1, FS_RemoveElement
  <2>3. Cardinality(t \ {x}) < n
    BY <2>1, <2>2, <1>6
  <2> HIDE DEF Good
  <2>4. QED
    BY <2>1, <2>3, <1>4
<1>6a. Cardinality(s) <= n
  BY <1>1, <1>3
<1>7. CASE s = {}
  BY <1>3, <1>5, <1>7
<1>8. CASE s # {}
  <2> DEFINE y == Pick(s)
             u == s \ {y}
  <2>1. y \in s /\ y \in S \cap T
    BY <1>8 DEF Pick
  <2>2. Good(u) /\ u \in SUBSET (S \cap T) /\ Cardinality(u) < n
    <3> HIDE DEF Good
    <3> QED BY <2>1, <1>6, <1>6a
  <2>3. it[s] = f[y] + it[u] /\ jt[s] = g[y] + jt[u]
    BY <1>5, <1>8
  <2> HIDE DEF y, u
  <2>4. it[s] = jt[s] /\ it[s] \in Nat
    BY <2>1, <2>2, <2>3, <1>0
  <2>5. ASSUME NEW x \in s PROVE it[s] = f[x] + it[s \ {x}]
    <3>1. CASE x = y
      BY <2>3, <3>1 DEF u
    <3>2. CASE x # y
      <4> DEFINE v == s \ {x}
                 w == u \ {x}
      <4>1. Good(v) /\ v \in SUBSET (S \cap T)
        <5> HIDE DEF Good
        <5> QED BY <1>6, <1>6a
      <4>2. x \in u /\ y \in v /\ v \ {y} = w
        BY <2>1, <3>2 DEF u
      <4>3. it[u] = f[x] + it[w] /\ it[v] = f[y] + it[w]
        BY <2>2, <4>1, <4>2
      <4>4. f[x] \in Nat /\ f[y] \in Nat /\ it[u] \in Nat /\ it[v] \in Nat
        BY <2>1, <2>2, <4>1, <1>0
      <4>5. Good(w)
        <5>1. Cardinality(u) <= n
          BY <2>2, <1>1, <1>3
        <5>2. QED
          BY <2>2, <4>2, <1>6, <5>1
      <4>6. it[w] \in Nat
        BY <4>5
      <4> HIDE DEF v, w
      <4>7. it[s] = f[x] + it[v]
        BY <2>3, <4>3, <4>4, <4>6
      <4>8. QED
        BY <4>7 DEF v
    <3>3. QED
      BY <3>1, <3>2
  <2>6. QED
    BY <1>3, <2>4, <2>5
<1>9. QED
  BY <1>7, <1>8

\* The sum over a set: zero for none, and one more element adds its value.
LEMMA TotalSteps ==
    ASSUME NEW S, IsFiniteSet(S), NEW f, \A x \in S : f[x] \in Nat
    PROVE  /\ Total(f, S) \in Nat
           /\ S = {} => Total(f, S) = 0
           /\ \A x \in S : Total(f, S) = f[x] + Total(f, S \ {x})
           /\ \A g : (\A x \in S : g[x] = f[x]) => Total(g, S) = Total(f, S)
<1> DEFINE it == CHOOSE i : IsSum(i, f, SUBSET S)
<1>1. IsSum(it, f, SUBSET S)
  BY SumExists
<1>2. it[S] = Total(f, S)
  BY DEF Total
<1> HIDE DEF it
<1>3. it[S] \in Nat /\ \A x \in S : it[S] = f[x] + it[S \ {x}]
  <2>1. SameValues(f, f, S \cap S)
    BY DEF SameValues
  <2>2. \A s \in SUBSET (S \cap S) : SumFacts(it, it, f, s)
    BY <1>1, <2>1, SumsAgree
  <2>3. S \in SUBSET (S \cap S)
    OBVIOUS
  <2>4. QED
    BY <2>2, <2>3 DEF SumFacts
<1>4. S = {} => it[S] = 0
  BY <1>1 DEF IsSum
<1>5. ASSUME NEW T \in SUBSET S, NEW g, \A x \in T : g[x] = f[x]
      PROVE  Total(g, T) = it[T]
  <2> DEFINE jt == CHOOSE i : IsSum(i, g, SUBSET T)
  <2>1. IsFiniteSet(T)
    BY FS_Subset
  <2>2. IsSum(jt, g, SUBSET T)
    BY <2>1, SumExists
  <2>3. jt[T] = Total(g, T)
    BY DEF Total
  <2> HIDE DEF jt
  <2>4. \A s \in SUBSET (S \cap T) : it[s] = jt[s]
    <3>1. SameValues(f, g, S \cap T)
      BY <1>5 DEF SameValues
    <3>2. \A s \in SUBSET (S \cap T) : SumFacts(it, jt, f, s)
      BY <1>1, <2>2, <3>1, SumsAgree
    <3>3. QED
      BY <3>2 DEF SumFacts
  <2>5. T \in SUBSET (S \cap T)
    OBVIOUS
  <2>6. QED
    BY <2>3, <2>4, <2>5
<1>6. \A x \in S : Total(f, S \ {x}) = it[S \ {x}]
  BY <1>5
<1>7. \A g : (\A x \in S : g[x] = f[x]) => Total(g, S) = it[S]
  BY <1>5
<1>8. QED
  BY <1>2, <1>3, <1>4, <1>6, <1>7

\* The units of a reservation, as a sum
LEMMA UnitsAreTotal ==
    ASSUME NEW r, NEW k, IsFiniteSet({g \in r.grants : g.group = k})
    PROVE  ReservationUnits(r, k)
              = Total([g \in {h \in r.grants : h.group = k} |-> g.units], {g \in r.grants : g.group = k})
<1> DEFINE S == {g \in r.grants : g.group = k}
           F == [g \in S |-> g.units]
           P(it) == it = [s \in SUBSET S |-> IF s = {} THEN 0
                             ELSE (CHOOSE x \in s : TRUE).units + it[s \ {CHOOSE x \in s : TRUE}]]
<1>1. ReservationUnits(r, k) = (CHOOSE it : P(it))[S]
  BY DEF ReservationUnits, MapThenSumSet, MapThenFoldSet
<1>2. ASSUME NEW it PROVE P(it) <=> IsSum(it, F, SUBSET S)
  <2>1. \A s \in SUBSET S : s # {} => F[Pick(s)] = (CHOOSE x \in s : TRUE).units
                                      /\ Pick(s) = (CHOOSE x \in s : TRUE)
    <3> SUFFICES ASSUME NEW s \in SUBSET S, s # {} PROVE F[Pick(s)] = (CHOOSE x \in s : TRUE).units
      BY DEF Pick
    <3>1. Pick(s) \in S
      BY DEF Pick
    <3>2. QED
      BY <3>1 DEF Pick
  <2> HIDE DEF S, F
  <2>2. QED
    BY <2>1 DEF IsSum
<1>3. (CHOOSE it : P(it)) = (CHOOSE it : IsSum(it, F, SUBSET S))
  BY <1>2
<1>4. QED
  BY <1>1, <1>3 DEF Total

\* The units that a set of reservations holds, as a sum
LEMMA HeldIsTotal ==
    ASSUME NEW A, NEW k, IsFiniteSet(A)
    PROVE  UnitsHeld(A, k) = Total([r \in A |-> ReservationUnits(r, k)], A)
<1> DEFINE F == [r \in A |-> ReservationUnits(r, k)]
           P(it) == it = [s \in SUBSET A |-> IF s = {} THEN 0
                             ELSE ReservationUnits(CHOOSE x \in s : TRUE, k) + it[s \ {CHOOSE x \in s : TRUE}]]
<1>1. UnitsHeld(A, k) = (CHOOSE it : P(it))[A]
  BY DEF UnitsHeld, MapThenSumSet, MapThenFoldSet
<1>2. ASSUME NEW it PROVE P(it) <=> IsSum(it, F, SUBSET A)
  <2>1. \A s \in SUBSET A : s # {} => F[Pick(s)] = ReservationUnits(CHOOSE x \in s : TRUE, k)
                                      /\ Pick(s) = (CHOOSE x \in s : TRUE)
    <3> SUFFICES ASSUME NEW s \in SUBSET A, s # {} PROVE F[Pick(s)] = ReservationUnits(CHOOSE x \in s : TRUE, k)
      BY DEF Pick
    <3>1. Pick(s) \in A
      BY DEF Pick
    <3>2. QED
      BY <3>1 DEF Pick
  <2>2. QED
    BY <2>1 DEF IsSum
<1>3. (CHOOSE it : P(it)) = (CHOOSE it : IsSum(it, F, SUBSET A))
  BY <1>2
<1>4. QED
  BY <1>1, <1>3 DEF Total

\* Reservations whose grants can be added up
Countable(r) == IsFiniteSet(r.grants) /\ \A g \in r.grants : g.units \in Nat

\* A reservation consumes a number of units of a group, at least those of each of its
\* grants, and none when it has no grant of the group.
LEMMA UnitsOfReservation ==
    ASSUME NEW r, Countable(r), NEW k
    PROVE  /\ ReservationUnits(r, k) \in Nat
           /\ \A g \in r.grants : g.group = k => g.units <= ReservationUnits(r, k)
           /\ (\A g \in r.grants : g.group # k) => ReservationUnits(r, k) = 0
<1> DEFINE S == {g \in r.grants : g.group = k}
           F == [g \in S |-> g.units]
<1>1. IsFiniteSet(S)
  BY FS_Subset DEF Countable
<1>2. \A x \in S : F[x] \in Nat
  BY DEF Countable
<1>3. ReservationUnits(r, k) = Total(F, S)
  BY <1>1, UnitsAreTotal
<1>4. ASSUME NEW x \in S PROVE Total(F, S \ {x}) \in Nat
  <2>1. IsFiniteSet(S \ {x}) /\ \A y \in S \ {x} : F[y] \in Nat
    BY <1>1, <1>2, FS_RemoveElement
  <2> HIDE DEF S, F
  <2>2. QED
    BY <2>1, TotalSteps
<1>5. /\ Total(F, S) \in Nat
      /\ S = {} => Total(F, S) = 0
      /\ \A x \in S : Total(F, S) = F[x] + Total(F, S \ {x})
  <2> HIDE DEF S, F
  <2> QED BY <1>1, <1>2, TotalSteps
<1>6. ASSUME NEW g \in r.grants, g.group = k PROVE g.units <= ReservationUnits(r, k)
  <2>1. g \in S /\ F[g] = g.units /\ F[g] \in Nat
    BY <1>6, <1>2
  <2>2. PICK t \in Nat : t = Total(F, S \ {g})
    BY <2>1, <1>4
  <2>3. Total(F, S) = F[g] + t
    BY <2>1, <2>2, <1>5
  <2>4. PICK u \in Nat : u = g.units
    BY <2>1
  <2>5. ReservationUnits(r, k) = u + t
    BY <1>3, <2>1, <2>3, <2>4
  <2>6. QED
    BY <2>4, <2>5
<1>7. QED
  BY <1>3, <1>5, <1>6

\* What a set of reservations holds of a group grows with each by what it consumes.
LEMMA UnitsHeldSteps ==
    ASSUME NEW A, IsFiniteSet(A), \A r \in A : Countable(r), NEW k
    PROVE  /\ UnitsHeld(A, k) \in Nat
           /\ A = {} => UnitsHeld(A, k) = 0
           /\ \A r \in A : UnitsHeld(A, k) = ReservationUnits(r, k) + UnitsHeld(A \ {r}, k)
<1> DEFINE F == [r \in A |-> ReservationUnits(r, k)]
<1>1. \A r \in A : F[r] \in Nat
  BY UnitsOfReservation
<1>2. UnitsHeld(A, k) = Total(F, A)
  BY HeldIsTotal
<1>3. ASSUME NEW r \in A PROVE UnitsHeld(A \ {r}, k) = Total(F, A \ {r})
  <2> DEFINE B == A \ {r}
             G == [s \in B |-> ReservationUnits(s, k)]
  <2>1. IsFiniteSet(B)
    BY FS_RemoveElement
  <2>2. UnitsHeld(B, k) = Total(G, B)
    BY <2>1, HeldIsTotal
  <2>3. \A s \in B : F[s] \in Nat /\ G[s] = F[s]
    BY <1>1
  <2>4. Total(G, B) = Total(F, B)
    <3> HIDE DEF F, G, B
    <3> QED BY <2>1, <2>3, TotalSteps
  <2>5. QED
    BY <2>2, <2>4
<1>4. /\ Total(F, A) \in Nat
      /\ A = {} => Total(F, A) = 0
      /\ \A x \in A : Total(F, A) = F[x] + Total(F, A \ {x})
  <2> HIDE DEF F
  <2> QED BY <1>1, TotalSteps
<1>5. QED
  BY <1>2, <1>3, <1>4

\* One more reservation
LEMMA UnitsHeldAdd ==
    ASSUME NEW A, IsFiniteSet(A), \A r \in A : Countable(r), NEW r, Countable(r), r \notin A, NEW k
    PROVE  UnitsHeld(A \cup {r}, k) = ReservationUnits(r, k) + UnitsHeld(A, k)
<1> DEFINE B == A \cup {r}
<1>1. IsFiniteSet(B) /\ (\A s \in B : Countable(s)) /\ r \in B /\ B \ {r} = A
  BY FS_AddElement
<1> HIDE DEF B
<1>2. UnitsHeld(B, k) = ReservationUnits(r, k) + UnitsHeld(B \ {r}, k)
  BY <1>1, UnitsHeldSteps
<1>3. QED
  BY <1>1, <1>2 DEF B

\* Fewer reservations hold no more, and reservations that consume nothing hold nothing.
LEMMA UnitsHeldBounds ==
    ASSUME NEW A, IsFiniteSet(A), \A r \in A : Countable(r), NEW k
    PROVE  /\ \A B \in SUBSET A : UnitsHeld(B, k) <= UnitsHeld(A, k)
           /\ (\A r \in A : ReservationUnits(r, k) = 0) => UnitsHeld(A, k) = 0
<1> DEFINE Good(S) == /\ \A B \in SUBSET S : UnitsHeld(B, k) <= UnitsHeld(S, k)
                      /\ (\A r \in A : ReservationUnits(r, k) = 0) => UnitsHeld(S, k) = 0
           Bad == {n \in Nat : \E S \in SUBSET A : Cardinality(S) = n /\ ~Good(S)}
<1>1. ASSUME NEW S \in SUBSET A
      PROVE  /\ IsFiniteSet(S) /\ Cardinality(S) \in Nat
             /\ \A r \in S : Countable(r) /\ ReservationUnits(r, k) \in Nat
             /\ UnitsHeld(S, k) \in Nat
             /\ S = {} => UnitsHeld(S, k) = 0
             /\ \A r \in S : UnitsHeld(S, k) = ReservationUnits(r, k) + UnitsHeld(S \ {r}, k)
  <2>1. IsFiniteSet(S) /\ Cardinality(S) \in Nat /\ \A r \in S : Countable(r)
    BY FS_Subset, FS_CardinalityType
  <2>2. QED
    BY <2>1, UnitsHeldSteps, UnitsOfReservation
<1>2. SUFFICES ASSUME Bad # {} PROVE FALSE
  <2>1. A \in SUBSET A /\ Cardinality(A) \in Nat
    BY <1>1
  <2>2. Bad = {} => Good(A)
    BY <2>1
  <2>3. QED
    BY <2>2
<1>3. PICK n \in Bad : \A m \in Bad : ~(<<m, n>> \in OpToRel(<, Nat))
  <2>1. Bad \subseteq Nat
    OBVIOUS
  <2> HIDE DEF Bad
  <2>2. QED
    BY <1>2, <2>1, WFMin, NatLessThanWellFounded
<1>4. PICK S \in SUBSET A : Cardinality(S) = n /\ ~Good(S)
  BY <1>3
<1>5. ASSUME NEW r \in S PROVE Good(S \ {r}) /\ S \ {r} \in SUBSET A
  <2> DEFINE T == S \ {r}
  <2>1. T \in SUBSET A /\ Cardinality(T) = n - 1 /\ Cardinality(T) \in Nat /\ n \in Nat
    BY <1>1, <1>4, FS_RemoveElement
  <2>2. Cardinality(T) \in Bad => FALSE
    <3>1. PICK j \in Nat : j = Cardinality(T)
      BY <2>1
    <3>2. j = n - 1 /\ n \in Nat
      BY <2>1, <3>1
    <3>3. <<j, n>> \in OpToRel(<, Nat)
      <4>1. j < n
        BY <3>2
      <4>2. QED
        BY <3>2, <4>1 DEF OpToRel
    <3> HIDE DEF Bad, T
    <3>4. QED
      BY <3>1, <3>3, <1>3
  <2>3. QED
    <3> HIDE DEF Good
    <3> QED BY <2>1, <2>2
<1>6. \A B \in SUBSET S : UnitsHeld(B, k) <= UnitsHeld(S, k)
  <2> SUFFICES ASSUME NEW B \in SUBSET S PROVE UnitsHeld(B, k) <= UnitsHeld(S, k)
    OBVIOUS
  <2>1. CASE B = S
    BY <2>1, <1>1
  <2>2. CASE B # S
    <3>1. PICK r \in S : r \notin B
      BY <2>2
    <3>2. B \in SUBSET (S \ {r}) /\ B \in SUBSET A
      BY <3>1
    <3>3. UnitsHeld(B, k) <= UnitsHeld(S \ {r}, k)
      BY <3>2, <1>5
    <3>4. UnitsHeld(S, k) = ReservationUnits(r, k) + UnitsHeld(S \ {r}, k) /\ ReservationUnits(r, k) \in Nat
      BY <1>1
    <3>5. UnitsHeld(S \ {r}, k) \in Nat /\ UnitsHeld(B, k) \in Nat
      BY <3>2, <1>5, <1>1
    <3>6. QED
      BY <3>3, <3>4, <3>5
  <2>3. QED
    BY <2>1, <2>2
<1>7. ASSUME \A r \in A : ReservationUnits(r, k) = 0 PROVE UnitsHeld(S, k) = 0
  <2>1. CASE S = {}
    BY <2>1, <1>1
  <2>2. CASE S # {}
    <3>1. PICK r \in S : TRUE
      BY <2>2
    <3>2. UnitsHeld(S, k) = ReservationUnits(r, k) + UnitsHeld(S \ {r}, k)
      BY <1>1
    <3>3. UnitsHeld(S \ {r}, k) = 0 /\ ReservationUnits(r, k) = 0
      BY <1>5, <1>7
    <3>4. QED
      BY <3>2, <3>3
  <2>3. QED
    BY <2>1, <2>2
<1>8. QED
  BY <1>4, <1>6, <1>7

\* Fewer reservations are compatible if the others were.
LEMMA CompatibleSubset ==
    ASSUME NEW A, IsFiniteSet(A), \A r \in A : Countable(r), Compatible(A), NEW B \in SUBSET A
    PROVE  Compatible(B)
<1>1. IsFiniteSet(B) /\ \A r \in B : Countable(r)
  BY FS_Subset
<1>2. ASSUME NEW k \in Groups PROVE UnitsHeld(B, k) <= Capacity[k]
  <2>1. UnitsHeld(B, k) <= UnitsHeld(A, k) /\ UnitsHeld(B, k) \in Nat /\ UnitsHeld(A, k) \in Nat
    BY <1>1, UnitsHeldBounds, UnitsHeldSteps
  <2>2. UnitsHeld(A, k) <= Capacity[k] /\ Capacity[k] \in Nat
    BY CapacityAssumption DEF Compatible, WithinCapacity
  <2>3. QED
    BY <2>1, <2>2
<1>3. QED
  BY <1>2 DEF Compatible, WithinCapacity

\* A reservation that may be granted is compatible with the active ones.
LEMMA CompatibleGrant ==
    ASSUME NEW A, Compatible(A), NEW r, Grantable(A, r)
    PROVE  Compatible(A \cup {r})
<1>1. WithinCapacity(A \cup {r})
  BY DEF Grantable
<1>2. ASSUME NEW s \in A \cup {r}, NEW t \in A \cup {r}, s # t
      PROVE  /\ s.id # t.id /\ s.attempt # t.attempt
             /\ \A g \in s.grants, h \in t.grants : ~Conflicts(g, h)
  <2>1. CASE s \in A /\ t \in A
    BY <1>2, <2>1 DEF Compatible
  <2>2. CASE s = r /\ t \in A
    BY <2>2 DEF Grantable
  <2>3. CASE t = r /\ s \in A
    <3>1. t.id # s.id /\ t.attempt # s.attempt /\ \A g \in t.grants, h \in s.grants : ~Conflicts(g, h)
      BY <2>3 DEF Grantable
    <3>2. \A g \in s.grants, h \in t.grants : Conflicts(g, h) => Conflicts(h, g)
      BY DEF Conflicts
    <3>3. QED
      BY <3>1, <3>2
  <2>4. QED
    BY <1>2, <2>1, <2>2, <2>3
<1>3. QED
  BY <1>1, <1>2 DEF Compatible

----------------------------------------------------------------------------
(* The occupancy index *)

\* The inductive invariant of the index
IndexInv ==
    /\ held \subseteq Candidates /\ IsFiniteSet(held)
    /\ \A r \in held : GroupsKnown(r)
    /\ IndexIsDerived /\ RemovalNeverFails /\ ActiveCompatible

\* What the candidates are assumed to be
LEMMA CandidatesCount ==
    /\ \A r \in Candidates : Countable(r)
    /\ \A r \in Candidates : \A g \in r.grants :
          /\ g.mode \in Modes /\ g.resource \in Resources /\ g.units \in Nat
          /\ g.group # NoGroup => g.group \in AllGroups /\ g.units > 0
<1>1. \A r \in Candidates : Countable(r)
  BY CandidatesAssumption DEF Countable
<1>2. ASSUME NEW r \in Candidates, NEW g \in r.grants
      PROVE  /\ g.mode \in Modes /\ g.resource \in Resources /\ g.units \in Nat
             /\ g.group # NoGroup => g.group \in AllGroups /\ g.units > 0
  <2>1. g \in UNION {s.grants : s \in Candidates}
    OBVIOUS
  <2>2. g.resource \in Resources /\ (g.group # NoGroup => g.group \in AllGroups)
    BY <2>1 DEF Resources, AllGroups
  <2>3. g.mode \in Modes /\ g.units \in Nat /\ (g.group = NoGroup <=> g.units = 0)
    BY CandidatesAssumption
  <2>4. g.group # NoGroup => g.units > 0
    BY <2>3
  <2>5. QED
    BY <2>2, <2>3, <2>4
<1>3. QED
  BY <1>1, <1>2

\* A reservation whose groups are all known consumes nothing of the others, and nobody
\* consumes a group that no candidate names.
LEMMA UnknownGroupsUnused ==
    ASSUME NEW r \in Candidates, NEW k, k # NoGroup
    PROVE  /\ GroupsKnown(r) /\ k \notin Groups => ReservationUnits(r, k) = 0
           /\ k \notin AllGroups => ReservationUnits(r, k) = 0
<1>1. Countable(r)
  BY CandidatesCount
<1>2. ASSUME GroupsKnown(r) /\ k \notin Groups PROVE \A g \in r.grants : g.group # k
  BY <1>2 DEF GroupsKnown
<1>3. ASSUME k \notin AllGroups PROVE \A g \in r.grants : g.group # k
  BY <1>3, CandidatesCount
<1>4. QED
  BY <1>1, <1>2, <1>3, UnitsOfReservation

\* The index sees a colliding holder exactly when two grants conflict.
LEMMA HoldersAgree ==
    ASSUME IndexInv, NEW r \in Candidates
    PROVE  (\A g \in r.grants : \A m \in CollidingModes(g.mode) : index.holders[g.resource][m] = {})
              <=> (\A s \in held : \A g \in r.grants, h \in s.grants : ~Conflicts(g, h))
<1>1. ASSUME NEW g \in r.grants, NEW m \in Modes
      PROVE  index.holders[g.resource][m] = {} <=>
                \A s \in held : \A h \in s.grants : ~(h.resource = g.resource /\ h.mode = m)
  <2>1. g.resource \in Resources
    BY CandidatesCount
  <2>2. index.holders[g.resource][m] = {s.id : s \in {t \in held : HasGrant(t, g.resource, m)}}
    BY <2>1 DEF IndexInv, IndexIsDerived
  <2>3. QED
    BY <2>2 DEF HasGrant
<1>2. ASSUME NEW g \in r.grants, NEW s \in held, NEW h \in s.grants
      PROVE  Conflicts(g, h) <=> h.resource = g.resource /\ h.mode \in CollidingModes(g.mode)
  <2>1. g.mode \in Modes /\ h.mode \in Modes
    BY CandidatesCount DEF IndexInv
  <2>2. QED
    BY <2>1 DEF Conflicts, CollidingModes, Modes
<1>3. \A g \in r.grants : CollidingModes(g.mode) \subseteq Modes
  BY DEF CollidingModes, Modes
<1>4. QED
  BY <1>1, <1>2, <1>3

\* The index refuses a group exactly when the rules do.
LEMMA CapacityAgrees ==
    ASSUME IndexInv, NEW r \in Candidates \ held
    PROVE  (\A x \in AllGroups :
               LET used == index.units[x] + ReservationUnits(r, x)
               IN  used = 0 \/ (x \in Groups /\ used <= Capacity[x]))
              <=> GroupsKnown(r) /\ WithinCapacity(held \cup {r})
<1> DEFINE used(x) == index.units[x] + ReservationUnits(r, x)
<1>1. /\ IsFiniteSet(held) /\ held \subseteq Candidates /\ (\A s \in held : Countable(s)) /\ Countable(r)
      /\ IsFiniteSet(held \cup {r}) /\ \A s \in held \cup {r} : Countable(s) /\ s \in Candidates
  BY CandidatesCount, FS_AddElement DEF IndexInv
<1>2. ASSUME NEW k
      PROVE  /\ UnitsHeld(held \cup {r}, k) = ReservationUnits(r, k) + UnitsHeld(held, k)
             /\ ReservationUnits(r, k) \in Nat /\ UnitsHeld(held, k) \in Nat
  BY <1>1, UnitsHeldAdd, UnitsOfReservation, UnitsHeldSteps
<1>3. ASSUME NEW x \in AllGroups
      PROVE  used(x) = UnitsHeld(held \cup {r}, x) /\ used(x) \in Nat /\ x # NoGroup
  <2>1. index.units[x] = UnitsHeld(held, x)
    BY DEF IndexInv, IndexIsDerived
  <2>2. x # NoGroup
    BY DEF AllGroups
  <2>3. QED
    BY <1>2, <2>1, <2>2
<1>4. ASSUME \A x \in AllGroups : used(x) = 0 \/ (x \in Groups /\ used(x) <= Capacity[x])
      PROVE  GroupsKnown(r) /\ WithinCapacity(held \cup {r})
  <2>1. ASSUME NEW g \in r.grants, g.group # NoGroup PROVE g.group \in Groups
    <3>1. g.group \in AllGroups /\ g.units > 0 /\ g.units \in Nat
      BY <2>1, CandidatesCount
    <3>2. g.units <= ReservationUnits(r, g.group)
      BY <1>1, UnitsOfReservation
    <3>3. index.units[g.group] = UnitsHeld(held, g.group)
      BY <3>1 DEF IndexInv, IndexIsDerived
    <3>4. PICK u \in Nat, a \in Nat, b \in Nat :
             u = g.units /\ a = ReservationUnits(r, g.group) /\ b = index.units[g.group]
      BY <1>2, <3>1, <3>3
    <3>5. b + a # 0
      BY <3>1, <3>2, <3>4
    <3>6. used(g.group) # 0
      BY <3>4, <3>5
    <3>7. QED
      BY <1>4, <3>1, <3>6
  <2>2. ASSUME NEW k \in Groups PROVE UnitsHeld(held \cup {r}, k) <= Capacity[k]
    <3>1. Capacity[k] \in Nat /\ k # NoGroup
      BY CapacityAssumption
    <3>2. CASE k \in AllGroups
      BY <1>3, <1>4, <3>1, <3>2
    <3>3. CASE k \notin AllGroups
      <4>1. \A s \in held \cup {r} : ReservationUnits(s, k) = 0
        BY <1>1, <3>1, <3>3, UnknownGroupsUnused
      <4>2. UnitsHeld(held \cup {r}, k) = 0
        BY <1>1, <4>1, UnitsHeldBounds
      <4>3. QED
        BY <4>2, <3>1
    <3>4. QED
      BY <3>2, <3>3
  <2>3. QED
    BY <2>1, <2>2 DEF GroupsKnown, WithinCapacity
<1>5. ASSUME GroupsKnown(r), WithinCapacity(held \cup {r}), NEW x \in AllGroups
      PROVE  used(x) = 0 \/ (x \in Groups /\ used(x) <= Capacity[x])
  <2>1. CASE x \in Groups
    BY <1>3, <1>5, <2>1 DEF WithinCapacity
  <2>2. CASE x \notin Groups
    <3>1. \A s \in held \cup {r} : GroupsKnown(s)
      BY <1>5 DEF IndexInv
    <3>2. \A s \in held \cup {r} : ReservationUnits(s, x) = 0
      BY <1>1, <1>3, <2>2, <3>1, UnknownGroupsUnused
    <3>3. UnitsHeld(held \cup {r}, x) = 0
      BY <1>1, <3>2, UnitsHeldBounds
    <3>4. QED
      BY <1>3, <3>3
  <2>3. QED
    BY <2>1, <2>2
<1>6. QED
  <2> HIDE DEF used
  <2>1. (\A x \in AllGroups : used(x) = 0 \/ (x \in Groups /\ used(x) <= Capacity[x]))
           <=> GroupsKnown(r) /\ WithinCapacity(held \cup {r})
    BY <1>4, <1>5
  <2>2. QED
    BY <2>1 DEF used

\* A decision taken from the index is the decision of the rules.
LEMMA IndexDecidesAlike ==
    ASSUME IndexInv
    PROVE  DecisionsAgree
<1> SUFFICES ASSUME NEW r \in Candidates \ held PROVE IndexGrants(index, r) <=> Grantable(held, r)
  BY DEF DecisionsAgree
<1>1. r.id \notin index.ids /\ r.attempt \notin index.attempts
         <=> \A s \in held : s.id # r.id /\ s.attempt # r.attempt
  BY DEF IndexInv, IndexIsDerived
<1>2. QED
  BY <1>1, HoldersAgree, CapacityAgrees DEF IndexGrants, Grantable

\* An active reservation can be taken back.
LEMMA RemovalSucceeds ==
    ASSUME IndexInv, NEW r \in held
    PROVE  RemovalRefusal(index, r) = "ok"
<1>1. r.id \in index.ids /\ r.attempt \in index.attempts
  BY DEF IndexInv, IndexIsDerived
<1>2. ASSUME NEW g \in r.grants PROVE r.id \in index.holders[g.resource][g.mode]
  <2>1. g.resource \in Resources /\ g.mode \in Modes
    BY CandidatesCount DEF IndexInv
  <2>2. HasGrant(r, g.resource, g.mode)
    BY DEF HasGrant
  <2>3. QED
    BY <2>1, <2>2 DEF IndexInv, IndexIsDerived
<1>3. ASSUME NEW x \in AllGroups PROVE ~(index.units[x] < ReservationUnits(r, x))
  <2>1. IsFiniteSet(held) /\ \A s \in held : Countable(s)
    BY CandidatesCount DEF IndexInv
  <2>2. IsFiniteSet(held \ {r}) /\ \A s \in held \ {r} : Countable(s)
    BY <2>1, FS_RemoveElement
  <2>3. UnitsHeld(held \ {r}, x) \in Nat
    BY <2>2, UnitsHeldSteps
  <2>4. UnitsHeld(held, x) = ReservationUnits(r, x) + UnitsHeld(held \ {r}, x)
    BY <2>1, UnitsHeldSteps
  <2>5. ReservationUnits(r, x) \in Nat
    BY <2>1, UnitsOfReservation
  <2>6. index.units[x] = UnitsHeld(held, x)
    BY DEF IndexInv, IndexIsDerived
  <2>7. QED
    BY <2>3, <2>4, <2>5, <2>6
<1>4. QED
  BY <1>1, <1>2, <1>3 DEF RemovalRefusal

\* A granted reservation enters the index as it enters the active reservations.
LEMMA ReserveKeepsIndex ==
    ASSUME IndexInv, NEW r \in Candidates, Reserve(r)
    PROVE  IndexInv'
<1>1. /\ index' = Insert(index, r) /\ held' = held \cup {r} /\ removal' = removal
      /\ IndexGrants(index, r)
  BY DEF Reserve
<1>2. r \notin held
  BY <1>1 DEF IndexGrants, IndexInv, IndexIsDerived
<1>3. Grantable(held, r)
  BY <1>1, <1>2, IndexDecidesAlike DEF DecisionsAgree
<1>4. held' \subseteq Candidates /\ IsFiniteSet(held') /\ \A s \in held' : GroupsKnown(s)
  <2>1. IsFiniteSet(held \cup {r})
    BY FS_AddElement DEF IndexInv
  <2>2. QED
    BY <1>1, <1>3, <2>1 DEF IndexInv, Grantable
<1>5. Compatible(held')
  BY <1>1, <1>3, CompatibleGrant DEF IndexInv, ActiveCompatible
<1>6. /\ index'.ids = index.ids \cup {r.id} /\ index'.attempts = index.attempts \cup {r.attempt}
      /\ \A x \in Resources, m \in Modes : index'.holders[x][m] =
            IF HasGrant(r, x, m) THEN index.holders[x][m] \cup {r.id} ELSE index.holders[x][m]
      /\ \A x \in AllGroups : index'.units[x] = index.units[x] + ReservationUnits(r, x)
  BY <1>1 DEF Insert
<1>7. ASSUME NEW x \in Resources, NEW m \in Modes
      PROVE  index'.holders[x][m] = {s.id : s \in {t \in held' : HasGrant(t, x, m)}}
  <2>1. index.holders[x][m] = {s.id : s \in {t \in held : HasGrant(t, x, m)}}
    BY DEF IndexInv, IndexIsDerived
  <2>2. CASE HasGrant(r, x, m)
    <3>1. {t \in held' : HasGrant(t, x, m)} = {t \in held : HasGrant(t, x, m)} \cup {r}
      BY <1>1, <2>2
    <3>2. {s.id : s \in {t \in held : HasGrant(t, x, m)} \cup {r}}
             = {s.id : s \in {t \in held : HasGrant(t, x, m)}} \cup {r.id}
      OBVIOUS
    <3>3. QED
      BY <1>6, <2>1, <2>2, <3>1, <3>2
  <2>3. CASE ~HasGrant(r, x, m)
    <3>1. {t \in held' : HasGrant(t, x, m)} = {t \in held : HasGrant(t, x, m)}
      BY <1>1, <2>3
    <3>2. QED
      BY <1>6, <2>1, <2>3, <3>1
  <2>4. QED
    BY <2>2, <2>3
<1>8. ASSUME NEW x \in AllGroups PROVE index'.units[x] = UnitsHeld(held', x)
  <2>1. index.units[x] = UnitsHeld(held, x)
    BY DEF IndexInv, IndexIsDerived
  <2>2. IsFiniteSet(held) /\ (\A s \in held : Countable(s)) /\ Countable(r)
    BY CandidatesCount DEF IndexInv
  <2>3. UnitsHeld(held \cup {r}, x) = ReservationUnits(r, x) + UnitsHeld(held, x)
    BY <1>2, <2>2, UnitsHeldAdd
  <2>4. ReservationUnits(r, x) \in Nat /\ UnitsHeld(held, x) \in Nat
    BY <2>2, UnitsOfReservation, UnitsHeldSteps
  <2>5. QED
    BY <1>1, <1>6, <2>1, <2>3, <2>4
<1>9. index'.ids = {s.id : s \in held'} /\ index'.attempts = {s.attempt : s \in held'}
  BY <1>1, <1>6 DEF IndexInv, IndexIsDerived
<1>10. QED
  BY <1>1, <1>4, <1>5, <1>7, <1>8, <1>9
     DEF IndexInv, IndexIsDerived, RemovalNeverFails, ActiveCompatible

\* A disposed reservation leaves the index as it leaves the active reservations.
LEMMA DisposeKeepsIndex ==
    ASSUME IndexInv, NEW r \in Candidates, Dispose(r)
    PROVE  IndexInv'
<1>1. /\ r \in held /\ removal' = "ok"
      /\ index' = Remove(index, r) /\ held' = held \ {r}
  BY RemovalSucceeds DEF Dispose
<1>2. IsFiniteSet(held) /\ (\A s \in held : Countable(s)) /\ Countable(r)
  BY CandidatesCount DEF IndexInv
<1>3. held' \subseteq Candidates /\ IsFiniteSet(held') /\ \A s \in held' : GroupsKnown(s)
  <2>1. IsFiniteSet(held \ {r})
    BY <1>2, FS_RemoveElement
  <2>2. QED
    BY <1>1, <2>1 DEF IndexInv
<1>4. Compatible(held')
  BY <1>1, <1>2, CompatibleSubset DEF IndexInv, ActiveCompatible
<1>5. \A s \in held : s # r => s.id # r.id /\ s.attempt # r.attempt
  BY <1>1 DEF IndexInv, ActiveCompatible, Compatible
<1>6. /\ index'.ids = index.ids \ {r.id} /\ index'.attempts = index.attempts \ {r.attempt}
      /\ \A x \in Resources, m \in Modes : index'.holders[x][m] =
            IF HasGrant(r, x, m) THEN index.holders[x][m] \ {r.id} ELSE index.holders[x][m]
      /\ \A x \in AllGroups : index'.units[x] = index.units[x] - ReservationUnits(r, x)
  BY <1>1 DEF Remove
<1>7. ASSUME NEW x \in Resources, NEW m \in Modes
      PROVE  index'.holders[x][m] = {s.id : s \in {t \in held' : HasGrant(t, x, m)}}
  <2>1. index.holders[x][m] = {s.id : s \in {t \in held : HasGrant(t, x, m)}}
    BY DEF IndexInv, IndexIsDerived
  <2>2. CASE HasGrant(r, x, m)
    <3>1. {t \in held' : HasGrant(t, x, m)} = {t \in held : HasGrant(t, x, m)} \ {r}
      BY <1>1
    <3>2. {s.id : s \in {t \in held : HasGrant(t, x, m)} \ {r}}
             = {s.id : s \in {t \in held : HasGrant(t, x, m)}} \ {r.id}
      BY <1>5
    <3>3. QED
      BY <1>6, <2>1, <2>2, <3>1, <3>2
  <2>3. CASE ~HasGrant(r, x, m)
    <3>1. {t \in held' : HasGrant(t, x, m)} = {t \in held : HasGrant(t, x, m)}
      BY <1>1, <2>3
    <3>2. QED
      BY <1>6, <2>1, <2>3, <3>1
  <2>4. QED
    BY <2>2, <2>3
<1>8. ASSUME NEW x \in AllGroups PROVE index'.units[x] = UnitsHeld(held', x)
  <2>1. index.units[x] = UnitsHeld(held, x)
    BY DEF IndexInv, IndexIsDerived
  <2>2. UnitsHeld(held, x) = ReservationUnits(r, x) + UnitsHeld(held \ {r}, x)
    BY <1>1, <1>2, UnitsHeldSteps
  <2>3. IsFiniteSet(held \ {r}) /\ (\A s \in held \ {r} : Countable(s))
    BY <1>2, FS_RemoveElement
  <2>4. ReservationUnits(r, x) \in Nat /\ UnitsHeld(held \ {r}, x) \in Nat
    BY <1>2, <2>3, UnitsOfReservation, UnitsHeldSteps
  <2>5. QED
    BY <1>1, <1>6, <2>1, <2>2, <2>4
<1>9. index'.ids = {s.id : s \in held'} /\ index'.attempts = {s.attempt : s \in held'}
  BY <1>1, <1>5, <1>6 DEF IndexInv, IndexIsDerived
<1>10. QED
  BY <1>1, <1>3, <1>4, <1>7, <1>8, <1>9
     DEF IndexInv, IndexIsDerived, RemovalNeverFails, ActiveCompatible

\* However reservations are granted and disposed, for any candidates, groups and
\* capacities, the index is what the active reservations give, decides as they do, can take
\* each of them back, and has admitted no two that collide.
THEOREM IndexIsFaithfulHolds == IndexSpec => []IndexIsFaithful
<1>1. IndexInit => IndexInv
  <2> SUFFICES ASSUME IndexInit PROVE IndexInv
    OBVIOUS
  <2>1. held = {} /\ IsFiniteSet(held) /\ removal = "ok" /\ index = EmptyIndex
    BY FS_EmptySet DEF IndexInit
  <2>2. ASSUME NEW k PROVE UnitsHeld(held, k) = 0
    BY <2>1, UnitsHeldSteps
  <2>3. IndexIsDerived
    BY <2>1, <2>2 DEF IndexIsDerived, EmptyIndex
  <2>4. Compatible(held)
    BY <2>1, <2>2, CapacityAssumption DEF Compatible, WithinCapacity
  <2>5. QED
    BY <2>1, <2>3, <2>4 DEF IndexInv, RemovalNeverFails, ActiveCompatible
<1>2. IndexInv /\ [IndexNext]_indexVars => IndexInv'
  <2>1. ASSUME IndexInv, UNCHANGED indexVars PROVE IndexInv'
    BY <2>1 DEF IndexInv, IndexIsDerived, RemovalNeverFails, ActiveCompatible, indexVars
  <2>2. QED
    BY <2>1, ReserveKeepsIndex, DisposeKeepsIndex DEF IndexNext
<1>3. IndexInv => IndexIsFaithful
  BY IndexDecidesAlike DEF IndexInv, IndexIsFaithful
<1>4. QED
  BY <1>1, <1>2, <1>3, PTL DEF IndexSpec

----------------------------------------------------------------------------
(* What the journal leaves active *)

\* The rules are the same through the ledger.
LEMMA SameRules ==
    /\ \A A : Ledger!Compatible(A) <=> Compatible(A)
    /\ \A A, r : Ledger!Grantable(A, r) <=> Grantable(A, r)
<1>1. ASSUME NEW A, NEW k PROVE Ledger!UnitsHeld(A, k) = UnitsHeld(A, k)
  BY DEF Ledger!UnitsHeld, UnitsHeld, Ledger!ReservationUnits, ReservationUnits,
         Ledger!MapThenSumSet, MapThenSumSet, Ledger!MapThenFoldSet, MapThenFoldSet
<1>2. ASSUME NEW A PROVE Ledger!WithinCapacity(A) <=> WithinCapacity(A)
  BY <1>1 DEF Ledger!WithinCapacity, WithinCapacity
<1>3. ASSUME NEW g, NEW h PROVE Ledger!Conflicts(g, h) <=> Conflicts(g, h)
  BY DEF Ledger!Conflicts, Conflicts
<1>4. ASSUME NEW A PROVE Ledger!Compatible(A) <=> Compatible(A)
  BY <1>2, <1>3 DEF Ledger!Compatible, Compatible
<1>5. ASSUME NEW A, NEW r PROVE Ledger!Grantable(A, r) <=> Grantable(A, r)
  BY <1>2, <1>3 DEF Ledger!Grantable, Grantable, Ledger!GroupsKnown, GroupsKnown
<1>6. QED
  BY <1>4, <1>5

\* The active reservations of a ledger are finitely many, and their units can be added.
LEMMA ActiveCountable ==
    ASSUME NEW es \in Seq(Requests)
    PROVE  IsFiniteSet(Ledger!ActiveReservations(es))
           /\ \A r \in Ledger!ActiveReservations(es) : Countable(r)
<1> DEFINE J == {j \in Ledger!Reserved(es) : Ledger!IdentityOf(es[j]) \notin Ledger!Disposed(es)}
           R == {Ledger!ReservationOf(es[i]) : i \in J}
           f == [i \in J |-> Ledger!ReservationOf(es[i])]
<1>1. Ledger!ActiveReservations(es) = R
  BY DEF Ledger!ActiveReservations
<1>2. Len(es) \in Nat /\ \A i \in 1 .. Len(es) : es[i] \in Requests
  BY LenProperties, ElementOfSeq
<1>3. J \subseteq 1 .. Len(es) /\ \A i \in J : es[i].kind = "reserve"
  BY DEF Ledger!Reserved
<1>4. IsFiniteSet(J)
  <2>1. IsFiniteSet(1 .. Len(es))
    BY <1>2, FS_Interval
  <2>2. QED
    BY <1>3, <2>1, FS_Subset
<1>5. f \in Surjection(J, R)
  BY DEF Surjection
<1>6. IsFiniteSet(R)
  <2> HIDE DEF f, J, R
  <2> QED BY <1>4, <1>5, FS_Surjection
<1>7. ASSUME NEW i \in J PROVE Countable(Ledger!ReservationOf(es[i]))
  <2>1. es[i] \in Requests /\ es[i].kind = "reserve"
    BY <1>2, <1>3
  <2>2. Ledger!ReservationOf(es[i]).grants = es[i].grants
    BY DEF Ledger!ReservationOf
  <2>3. QED
    BY <2>1, <2>2, GrantsAssumption DEF Countable
<1>8. QED
  BY <1>1, <1>6, <1>7

\* A request adds at most its own reservation to the active ones.
LEMMA ActiveAfter ==
    ASSUME NEW es \in Seq(Requests), NEW q \in Requests
    PROVE  /\ Ledger!ActiveReservations(Append(es, q))
                \subseteq Ledger!ActiveReservations(es) \cup {Ledger!ReservationOf(q)}
           /\ q.kind # "reserve" => Ledger!ActiveReservations(Append(es, q))
                                       \subseteq Ledger!ActiveReservations(es)
<1> DEFINE fs == Append(es, q)
<1>1. /\ Len(es) \in Nat /\ Len(fs) = Len(es) + 1 /\ fs[Len(es) + 1] = q
      /\ \A i \in 1 .. Len(es) : fs[i] = es[i]
  BY AppendProperties, LenProperties
<1> HIDE DEF fs
<1>2. Ledger!Disposed(es) \subseteq Ledger!Disposed(fs)
  <2>1. \A i \in Ledger!Disposals(es) : i \in Ledger!Disposals(fs) /\ fs[i] = es[i]
    BY <1>1 DEF Ledger!Disposals
  <2>2. QED
    BY <2>1 DEF Ledger!Disposed
<1>3. ASSUME NEW i \in Ledger!Reserved(fs), Ledger!IdentityOf(fs[i]) \notin Ledger!Disposed(fs)
      PROVE  \/ Ledger!ReservationOf(fs[i]) \in Ledger!ActiveReservations(es)
             \/ q.kind = "reserve" /\ Ledger!ReservationOf(fs[i]) = Ledger!ReservationOf(q)
  <2>1. i \in 1 .. Len(es) + 1 /\ fs[i].kind = "reserve"
    BY <1>1 DEF Ledger!Reserved
  <2>2. CASE i = Len(es) + 1
    BY <1>1, <2>1, <2>2
  <2>3. CASE i # Len(es) + 1
    <3>1. i \in 1 .. Len(es) /\ fs[i] = es[i]
      BY <1>1, <2>1, <2>3
    <3>2. i \in Ledger!Reserved(es) /\ Ledger!IdentityOf(es[i]) \notin Ledger!Disposed(es)
      BY <1>2, <1>3, <2>1, <3>1 DEF Ledger!Reserved
    <3>3. QED
      BY <3>1, <3>2 DEF Ledger!ActiveReservations
  <2>4. QED
    BY <2>2, <2>3
<1>4. ASSUME NEW r \in Ledger!ActiveReservations(fs)
      PROVE  \/ r \in Ledger!ActiveReservations(es)
             \/ q.kind = "reserve" /\ r = Ledger!ReservationOf(q)
  <2>1. PICK i \in Ledger!Reserved(fs) :
           r = Ledger!ReservationOf(fs[i]) /\ Ledger!IdentityOf(fs[i]) \notin Ledger!Disposed(fs)
    BY DEF Ledger!ActiveReservations
  <2>2. QED
    BY <1>3, <2>1
<1>5. QED
  BY <1>4 DEF fs

\* An admissible request keeps the active reservations compatible.
LEMMA AdmissibleKeepsCompatible ==
    ASSUME NEW es \in Seq(Requests), NEW q \in Requests, Ledger!Admissible(es, q),
           Ledger!Compatible(Ledger!ActiveReservations(es))
    PROVE  Ledger!Compatible(Ledger!ActiveReservations(Append(es, q)))
<1> DEFINE A == Ledger!ActiveReservations(es)
           r == Ledger!ReservationOf(q)
           B == Ledger!ActiveReservations(Append(es, q))
<1>1. IsFiniteSet(A) /\ (\A s \in A : Countable(s)) /\ Compatible(A)
  BY ActiveCountable, SameRules
<1>2. CASE q.kind = "reserve"
  <2>1. Grantable(A, r)
    BY <1>2, SameRules DEF Ledger!Admissible, Ledger!ReserveAdmissible
  <2>2. Countable(r)
    BY <1>2, GrantsAssumption DEF Countable, Ledger!ReservationOf
  <2>3. B \in SUBSET (A \cup {r})
    BY ActiveAfter
  <2> HIDE DEF A, r, B
  <2>4. Compatible(A \cup {r})
    BY <1>1, <2>1, CompatibleGrant
  <2> DEFINE C == A \cup {r}
  <2>5. IsFiniteSet(C) /\ (\A s \in C : Countable(s)) /\ Compatible(C)
    BY <1>1, <2>2, <2>4, FS_AddElement
  <2>6. B \in SUBSET C
    BY <2>3
  <2> HIDE DEF C
  <2>7. Compatible(B)
    BY <2>5, <2>6, CompatibleSubset
  <2>8. QED
    BY <2>7, SameRules DEF B
<1>3. CASE q.kind # "reserve"
  <2>1. B \in SUBSET A
    BY <1>3, ActiveAfter
  <2> HIDE DEF A, B
  <2>2. Compatible(B)
    BY <1>1, <2>1, CompatibleSubset
  <2>3. QED
    BY <2>2, SameRules DEF B
<1>4. QED
  BY <1>2, <1>3

\* What a chain of events leaves active is compatible.
LEMMA ChainCompatible ==
    ASSUME NEW es \in Seq(Event), Chain(es)
    PROVE  Ledger!Compatible(Ledger!ActiveReservations(RequestsOf(es)))
<1> DEFINE Good(n) == Ledger!Compatible(Ledger!ActiveReservations(RequestsOf(Prefix(es, n))))
           Bad == {n \in Nat : n <= Len(es) /\ ~Good(n)}
<1>1. Len(es) \in Nat
  BY LenProperties
<1>2. Prefix(es, Len(es)) = es
  BY <1>1, PrefixIs, SeqEqual
<1>3. SUFFICES ASSUME Bad # {} PROVE FALSE
  <2>1. Bad = {} => Good(Len(es))
    BY <1>1
  <2>2. QED
    BY <1>2, <2>1
<1>4. PICK n \in Bad : \A m \in Bad : ~(<<m, n>> \in OpToRel(<, Nat))
  <2>1. Bad \subseteq Nat
    OBVIOUS
  <2> HIDE DEF Bad
  <2>2. QED
    BY <1>3, <2>1, WFMin, NatLessThanWellFounded
<1>5. n \in Nat /\ n <= Len(es) /\ ~Good(n)
  BY <1>4
<1>6. CASE n = 0
  <2>1. 0 \in 0 .. Len(es)
    BY <1>1
  <2>2. Prefix(es, 0) \in Seq(Event) /\ Len(Prefix(es, 0)) = 0
    BY <2>1, PrefixIs
  <2>3. Len(RequestsOf(Prefix(es, 0))) = 0
    BY <2>2, RequestsOfLength
  <2>4. Ledger!ActiveReservations(RequestsOf(Prefix(es, 0))) = {}
    BY <2>3 DEF Ledger!ActiveReservations, Ledger!Reserved
  <2>5. Compatible({})
    <3>1. \A k \in Groups : UnitsHeld({}, k) = 0 /\ Capacity[k] \in Nat
      BY UnitsHeldSteps, FS_EmptySet, CapacityAssumption
    <3>2. QED
      BY <3>1 DEF Compatible, WithinCapacity
  <2>6. QED
    BY <1>5, <1>6, <2>4, <2>5, SameRules
<1>7. CASE n # 0
  <2>1. n - 1 \in Nat /\ n - 1 <= Len(es) /\ n - 1 < n /\ n \in 1 .. Len(es)
        /\ n - 1 \in 0 .. Len(es) /\ n \in 0 .. Len(es)
    BY <1>1, <1>5, <1>7
  <2>2. Good(n - 1)
    <3>1. <<n - 1, n>> \in OpToRel(<, Nat)
      BY <1>5, <2>1 DEF OpToRel
    <3>2. n - 1 \notin Bad
      <4> HIDE DEF Bad
      <4> QED BY <1>4, <3>1
    <3>3. QED
      BY <2>1, <3>2
  <2> DEFINE fs == Prefix(es, n - 1)
  <2>3. /\ fs \in Seq(Event) /\ Len(fs) = n - 1 /\ es[n] \in Event
        /\ \A i \in 1 .. n - 1 : fs[i] = es[i]
        /\ Prefix(es, n) \in Seq(Event) /\ Len(Prefix(es, n)) = n
        /\ \A i \in 1 .. n : Prefix(es, n)[i] = es[i]
    BY <2>1, PrefixIs, ElementOfSeq
  <2> HIDE DEF fs
  <2>4. /\ Append(fs, es[n]) \in Seq(Event) /\ Len(Append(fs, es[n])) = n
        /\ \A i \in 1 .. n : Append(fs, es[n])[i] = Prefix(es, n)[i]
    <3>1. /\ Append(fs, es[n]) \in Seq(Event) /\ Len(Append(fs, es[n])) = Len(fs) + 1
          /\ \A i \in 1 .. Len(fs) : Append(fs, es[n])[i] = fs[i]
          /\ Append(fs, es[n])[Len(fs) + 1] = es[n]
      BY <2>3, AppendProperties
    <3>2. QED
      BY <1>5, <2>1, <2>3, <3>1
  <2>5. Append(fs, es[n]) = Prefix(es, n)
    BY <2>3, <2>4, SeqEqual
  <2>6. RequestsOf(Prefix(es, n)) = Append(RequestsOf(fs), es[n].req)
    BY <2>3, <2>5, RequestsOfAppend
  <2>7. RequestsOf(fs) \in Seq(Requests) /\ es[n].req \in Requests
    BY <2>3, RequestsOfLength DEF Event
  <2>8. Ledger!Admissible(RequestsOf(fs), es[n].req)
    BY <2>1 DEF Chain, Applies, fs
  <2>9. Good(n)
    BY <2>2, <2>6, <2>7, <2>8, AdmissibleKeepsCompatible DEF fs
  <2>10. QED
    BY <1>5, <2>9
<1>8. QED
  BY <1>6, <1>7

----------------------------------------------------------------------------
(* A writer that takes no lock *)

NothingArchived == \A n \in Seqs : archive[n] = NoEvent

\* What is known of a call and of a cache although others publish
FreeCall(c) ==
    /\ CallShape(c) /\ c.stage \in Stages
    /\ c.stage \in {"lookup", "append"} => c.request \in Requests
FreeCache(c) == CacheShape(c) /\ IsJournalPrefix(c.st.events)

FreeInv(p) ==
    /\ FreeCall(call[p]) /\ FreeCache(cache[p])
    /\ pc[p] = "link" =>
          /\ call[p].stage = "append"
          /\ Len(cache[p].st.events) < MaxEvents
          /\ ~Ledger!KeyUsed(RequestsOf(cache[p].st.events), call[p].request.key)
          /\ Ledger!Admissible(RequestsOf(cache[p].st.events), call[p].request)
    /\ pc[p] = "sync" => Len(cache[p].st.events) < Len(journal)

\* While nothing is archived the files are the journal, every state in memory is a
\* prefix of it, and so is what the older writer has read.
FreeProcs ==
    /\ pc = [p \in Procs |-> pc[p]]
    /\ cache = [p \in Procs |-> cache[p]]
    /\ call = [p \in Procs |-> call[p]]
    /\ \A p \in Procs : FreeInv(p)
AnyWriterInv ==
    /\ JournalInv /\ DiskInv /\ Chain(journal)
    /\ IsJournalPrefix(olderView)
    /\ FreeProcs
AnyWriterIndInv ==
    /\ archive = [n \in Seqs |-> archive[n]]
    /\ NothingArchived => AnyWriterInv

\* The processes keep what they know when the journal grows.
LEMMA FreeProcsStep ==
    ASSUME NEW p \in Procs, FreeProcs, OnlyOf(p), FreeInv(p)',
           journal \in Seq(Event), journal' \in Seq(Event), PrefixOf(journal, journal')
    PROVE  FreeProcs'
<1>1. ASSUME NEW q \in Procs, q # p PROVE FreeInv(q)'
  <2>1. pc'[q] = pc[q] /\ call'[q] = call[q] /\ cache'[q] = cache[q]
    BY <1>1 DEF OnlyOf, FreeProcs
  <2>2. FreeInv(q)
    BY DEF FreeProcs
  <2>3. PrefixOf(cache[q].st.events, journal')
    BY <2>2, PrefixTransitive DEF FreeInv, FreeCache, IsJournalPrefix
  <2>4. FreeCall(call'[q]) /\ CacheShape(cache'[q]) /\ PrefixOf(cache'[q].st.events, journal')
    BY <2>1, <2>2, <2>3 DEF FreeInv, FreeCache
  <2>5. pc[q] = "sync" => Len(cache[q].st.events) < Len(journal')
    <3>1. Len(journal) \in Nat /\ Len(journal') \in Nat /\ Len(cache[q].st.events) \in Nat
          /\ Len(journal) <= Len(journal')
      BY <2>3, LenProperties DEF PrefixOf
    <3>2. QED
      BY <2>2, <3>1 DEF FreeInv
  <2>6. QED
    BY <2>1, <2>2, <2>4, <2>5 DEF FreeInv, FreeCall, FreeCache, IsJournalPrefix
<1>2. /\ pc' = [q \in Procs |-> pc'[q]]
      /\ cache' = [q \in Procs |-> cache'[q]]
      /\ call' = [q \in Procs |-> call'[q]]
  BY DEF OnlyOf, FreeProcs
<1>3. QED
  BY <1>1, <1>2 DEF FreeProcs

\* A checkpoint of the whole journal is a longest one.
LEMMA CheckpointAdded ==
    ASSUME JournalInv, DiskInv, journal' = journal, active' = active, archive' = archive,
           checkpoints' = checkpoints \/ checkpoints' = checkpoints \cup {journal}
    PROVE  JournalInv' /\ DiskInv'
<1>1. JournalInv'
  BY DEF JournalInv
<1>2. CASE checkpoints' = checkpoints
  BY <1>1, <1>2 DEF DiskInv, IsJournalPrefix
<1>3. CASE checkpoints' = checkpoints \cup {journal}
  <2>1. PrefixOf(journal, journal) /\ journal \in checkpoints'
    BY <1>3, PrefixReflexive DEF JournalInv
  <2>2. \A c \in checkpoints' : PrefixOf(c, journal)
    BY <1>3, <2>1 DEF DiskInv, IsJournalPrefix
  <2>3. \A c \in checkpoints' : Len(c) <= Len(journal)
    BY <2>2 DEF PrefixOf
  <2>4. \A n \in 1 .. Len(journal) : active[n] = NoEvent => \E c \in checkpoints' : n <= Len(c)
    BY <1>3 DEF DiskInv
  <2>5. QED
    BY <1>1, <2>1, <2>2, <2>3, <2>4 DEF DiskInv, IsJournalPrefix
<1>4. QED
  BY <1>1, <1>2, <1>3

\* A step of a process that publishes nothing
LEMMA FreeStep ==
    ASSUME NEW p \in Procs, AnyWriterInv, OnlyOf(p), FreeInv(p)',
           journal' = journal, active' = active, archive' = archive, olderView' = olderView,
           checkpoints' = checkpoints \/ checkpoints' = checkpoints \cup {journal}
    PROVE  AnyWriterInv'
<1>1. JournalInv' /\ DiskInv'
  BY CheckpointAdded DEF AnyWriterInv
<1>2. journal \in Seq(Event) /\ PrefixOf(journal, journal')
  BY PrefixReflexive DEF AnyWriterInv, JournalInv
<1>3. FreeProcs'
  BY <1>2, FreeProcsStep DEF AnyWriterInv
<1>4. QED
  BY <1>1, <1>3 DEF AnyWriterInv, IsJournalPrefix

\* The same for a step that ends a call, goes on to the next one, or moves on in it
LEMMA FreeMove ==
    ASSUME NEW p \in Procs, AnyWriterInv,
           \/ \E r : Finish(p, r)
           \/ \E c : NextCall(p, c) /\ FreeCall(c)
           \/ \E l : /\ Goto(p, l) /\ l \notin {"link", "sync"}
                     /\ \/ call' = call
                        \/ \E c : call' = [call EXCEPT ![p] = c] /\ FreeCall(c),
           cache' = [cache EXCEPT ![p] = cache'[p]], FreeCache(cache'[p]),
           journal' = journal, active' = active, archive' = archive, olderView' = olderView,
           checkpoints' = checkpoints \/ checkpoints' = checkpoints \cup {journal}
    PROVE  AnyWriterInv'
<1>0. pc = [q \in Procs |-> pc[q]] /\ call = [q \in Procs |-> call[q]] /\ FreeInv(p)
  BY DEF AnyWriterInv, FreeProcs
<1>1. /\ pc' = [pc EXCEPT ![p] = pc'[p]] /\ pc'[p] \notin {"link", "sync"}
      /\ call' = [call EXCEPT ![p] = call'[p]] /\ FreeCall(call'[p])
  <2>1. FreeCall(NoCall)
    BY ClearedRecords DEF FreeCall
  <2>2. CASE \E r : Finish(p, r)
    <3>1. pc' = [pc EXCEPT ![p] = "idle"] /\ call' = [call EXCEPT ![p] = NoCall]
      BY <2>2 DEF Finish, Goto
    <3>2. pc'[p] = "idle" /\ call'[p] = NoCall
      BY <1>0, <3>1
    <3>3. QED
      BY <2>1, <3>1, <3>2
  <2>3. CASE \E c : NextCall(p, c) /\ FreeCall(c)
    <3>1. PICK c : NextCall(p, c) /\ FreeCall(c)
      BY <2>3
    <3>2. pc' = [pc EXCEPT ![p] = "lock"] /\ call' = [call EXCEPT ![p] = c]
      BY <3>1 DEF NextCall, Goto
    <3>3. pc'[p] = "lock" /\ call'[p] = c
      BY <1>0, <3>2
    <3>4. QED
      BY <3>1, <3>2, <3>3
  <2>4. CASE \E l : /\ Goto(p, l) /\ l \notin {"link", "sync"}
                    /\ \/ call' = call
                       \/ \E c : call' = [call EXCEPT ![p] = c] /\ FreeCall(c)
    <3>1. PICK l : /\ Goto(p, l) /\ l \notin {"link", "sync"}
                   /\ \/ call' = call
                      \/ \E c : call' = [call EXCEPT ![p] = c] /\ FreeCall(c)
      BY <2>4
    <3>2. pc' = [pc EXCEPT ![p] = l] /\ pc'[p] = l
      BY <1>0, <3>1 DEF Goto
    <3>3. call' = [call EXCEPT ![p] = call'[p]] /\ FreeCall(call'[p])
      BY <1>0, <3>1 DEF FreeInv
    <3>4. QED
      BY <3>1, <3>2, <3>3
  <2>5. QED
    BY <2>2, <2>3, <2>4
<1>2. OnlyOf(p)
  BY <1>1 DEF OnlyOf
<1>3. FreeInv(p)'
  BY <1>1 DEF FreeInv, FreeCall, FreeCache, IsJournalPrefix
<1>4. QED
  BY <1>2, <1>3, FreeStep

\* The caches a process may have
LEMMA FreeCaches ==
    ASSUME NEW p \in Procs, AnyWriterInv
    PROVE  /\ FreeCall(call[p]) /\ FreeCache(cache[p]) /\ FreeCache(NoCache)
           /\ \A b, base, cs, ds :
                FreeCache([set |-> b, st |-> [events |-> journal, base |-> base],
                           checkpoints |-> cs, compactions |-> ds])
           /\ cache' = cache => cache' = [cache EXCEPT ![p] = cache'[p]] /\ FreeCache(cache'[p])
           /\ \A c : cache' = [cache EXCEPT ![p] = c] =>
                 cache' = [cache EXCEPT ![p] = cache'[p]] /\ cache'[p] = c
<1>1. FreeInv(p) /\ cache = [q \in Procs |-> cache[q]] /\ journal \in Seq(Event)
  BY DEF AnyWriterInv, FreeProcs, JournalInv
<1>2. FreeCache(NoCache)
  BY <1>1, ClearedRecords, EmptyPrefix DEF FreeCache, IsJournalPrefix
<1>3. ASSUME NEW b, NEW base, NEW cs, NEW ds
      PROVE  FreeCache([set |-> b, st |-> [events |-> journal, base |-> base],
                        checkpoints |-> cs, compactions |-> ds])
  BY <1>1, CacheRecord, PrefixReflexive DEF FreeCache, IsJournalPrefix
<1>4. QED
  BY <1>1, <1>2, <1>3 DEF FreeInv

\* The steps that move through a call and publish no event
LEMMA FreeActions ==
    ASSUME NEW p \in Procs, AnyWriterInv,
           \/ \E q \in Requests : StartRequest(p, q)
           \/ StartSnapshot(p) \/ StartMaintenance(p)
           \/ AcquireWriterLock(p) \/ Load(p) \/ Lookup(p) \/ Report(p) \/ AnswerFromJournal(p)
           \/ Respond(p) \/ CreateCheckpoint(p) \/ AdoptCheckpoint(p)
           \/ VerifyLatestCheckpoint(p) \/ StartCompact(p) \/ PublishRecord(p) \/ Crash(p)
    PROVE  AnyWriterInv'
<1>0. /\ FreeCall(call[p]) /\ FreeCache(cache[p]) /\ FreeCache(NoCache) /\ CallShape(call[p])
      /\ JournalInv /\ DiskInv /\ FreeCall(NoCall) /\ call = [q \in Procs |-> call[q]]
  BY FreeCaches, ClearedRecords DEF FreeCall, AnyWriterInv, FreeProcs
<1>1. ASSUME NEW q, NEW s, Begin(p, q, s), s \in Stages, s \in {"lookup", "append"} => q \in Requests
      PROVE  AnyWriterInv'
  <2>1. /\ UNCHANGED <<journal, active, archive, checkpoints, cache, olderView>>
        /\ Goto(p, "lock") /\ call' = [call EXCEPT ![p].request = q, ![p].stage = s]
    BY <1>1 DEF Begin, disk, files, history
  <2>2. PICK c : c = [call[p] EXCEPT !.request = q, !.stage = s]
    OBVIOUS
  <2>3. FreeCall(c) /\ call' = [call EXCEPT ![p] = c]
    <3>1. CallShape(c) /\ c.request = q /\ c.stage = s
      BY <1>0, <2>2 DEF CallShape
    <3>2. call' = [call EXCEPT ![p] = c]
      BY <1>0, <2>1, <2>2
    <3>3. QED
      BY <1>1, <3>1, <3>2 DEF FreeCall
  <2>4. QED
    BY <2>1, <2>3, FreeMove, FreeCaches
<1>2. CASE (\E q \in Requests : StartRequest(p, q)) \/ StartSnapshot(p) \/ StartMaintenance(p)
  BY <1>1, <1>2 DEF StartRequest, StartSnapshot, StartMaintenance, Stages
<1>3. CASE AcquireWriterLock(p)
  <2>1. UNCHANGED <<journal, active, archive, checkpoints, cache, olderView>>
    BY <1>3 DEF AcquireWriterLock, disk, files, history, env
  <2>2. \E l : /\ Goto(p, l) /\ l \notin {"link", "sync"}
               /\ \/ call' = call
                  \/ \E c : call' = [call EXCEPT ![p] = c] /\ FreeCall(c)
    <3>1. Stage(p) \notin {"link", "sync"}
      BY <1>0 DEF FreeCall, Stages, Stage
    <3>2. QED
      BY <1>0, <1>3, <3>1 DEF AcquireWriterLock
  <2>3. QED
    BY <2>1, <2>2, FreeMove, FreeCaches
<1>4. CASE Load(p)
  <2>1. UNCHANGED <<journal, active, archive, checkpoints, olderView>>
    BY <1>4 DEF Load, files, history, EnvButIo
  <2>2. (Goto(p, "decide") /\ call' = call) \/ \E r : Finish(p, r)
    BY <1>4 DEF Load
  <2>3. cache' = [cache EXCEPT ![p] = cache'[p]] /\ FreeCache(cache'[p])
    <3>1. CASE cache' = cache
      BY <3>1, FreeCaches
    <3>2. CASE cache' = [cache EXCEPT ![p] = [set |-> TRUE, st |-> StateOf(Replay),
                            checkpoints |-> checkpoints, compactions |-> compactions]]
      <4>1. StateOf(Replay) = [events |-> journal, base |-> Replay.base]
        BY <1>0, ReplayIsJournal DEF StateOf
      <4>2. PICK c : c = [set |-> TRUE, st |-> StateOf(Replay),
                          checkpoints |-> checkpoints, compactions |-> compactions]
        OBVIOUS
      <4>3. CacheShape(c) /\ c.st.events = journal
        BY <4>1, <4>2, CacheRecord
      <4>4. FreeCache(c)
        BY <1>0, <4>3, PrefixReflexive DEF FreeCache, IsJournalPrefix, JournalInv
      <4>5. cache' = [cache EXCEPT ![p] = cache'[p]] /\ cache'[p] = c
        BY <1>0, <3>2, <4>2, FreeCaches
      <4>6. QED
        BY <4>4, <4>5
    <3>3. QED
      BY <1>4, <3>1, <3>2 DEF Load
  <2>4. QED
    BY <2>1, <2>2, <2>3, FreeMove
<1>5. CASE Lookup(p)
  <2>1. UNCHANGED <<journal, active, archive, checkpoints, cache, olderView>>
    BY <1>5 DEF Lookup, disk, files, history, env
  <2>2. (\E r : Finish(p, r)) \/ \E b : NextCall(p, [call[p] EXCEPT !.stage = "append", !.binding = b])
    BY <1>5 DEF Lookup
  <2>3. ASSUME NEW b PROVE FreeCall([call[p] EXCEPT !.stage = "append", !.binding = b])
    <3>1. PICK c : c = [call[p] EXCEPT !.stage = "append", !.binding = b]
      OBVIOUS
    <3>2. CallShape(c) /\ c.stage = "append" /\ c.request = call[p].request
      BY <1>0, <3>1 DEF CallShape
    <3>3. call[p].request \in Requests
      BY <1>0, <1>5 DEF FreeCall, Lookup, Stage
    <3>4. FreeCall(c)
      BY <3>2, <3>3 DEF FreeCall, Stages
    <3>5. QED
      BY <3>1, <3>4
  <2>4. QED
    BY <2>1, <2>2, <2>3, FreeMove, FreeCaches
<1>6. CASE Report(p) \/ AnswerFromJournal(p)
  <2>1. UNCHANGED <<journal, active, archive, checkpoints, cache, olderView>> /\ \E r : Finish(p, r)
    BY <1>6 DEF Report, AnswerFromJournal, disk, files, history, env
  <2>2. QED
    BY <2>1, FreeMove, FreeCaches
<1>7. CASE Respond(p)
  <2>1. UNCHANGED <<journal, active, archive, checkpoints, cache, olderView>>
    BY <1>7 DEF Respond, files, EnvButIo
  <2>2. PICK c : c = [NoCall EXCEPT !.stage = "checkpoint"]
    OBVIOUS
  <2>3. NextCall(p, c) \/ \E r : Finish(p, r)
    BY <1>7, <2>2 DEF Respond
  <2>4. CallShape(c) /\ c.stage = "checkpoint"
    BY <2>2, ClearedRecords, StageOnly
  <2>5. FreeCall(c)
    BY <2>4 DEF FreeCall, Stages
  <2>6. QED
    BY <2>1, <2>3, <2>5, FreeMove, FreeCaches
<1>8. CASE CreateCheckpoint(p)
  <2>1. UNCHANGED <<journal, active, archive, cache, olderView>>
    BY <1>8 DEF CreateCheckpoint, history, EnvButIo
  <2>2. FullReplay.events = journal
    BY <1>0, FullReplayIsJournal
  <2>3. checkpoints' = checkpoints \/ checkpoints' = checkpoints \cup {journal}
    BY <1>8, <2>2 DEF CreateCheckpoint
  <2>4. (Goto(p, "adopt") /\ call' = call) \/ \E r : Finish(p, r)
    BY <1>8 DEF CreateCheckpoint
  <2>5. QED
    BY <2>1, <2>3, <2>4, FreeMove, FreeCaches
<1>9. CASE AdoptCheckpoint(p)
  <2>1. UNCHANGED <<journal, active, archive, checkpoints, olderView>>
    BY <1>9 DEF AdoptCheckpoint, files, history, EnvButIo
  <2>2. cache' = [cache EXCEPT ![p] = [set |-> TRUE, st |-> StateOf(FullReplay),
                      checkpoints |-> checkpoints, compactions |-> compactions]]
    BY <1>9 DEF AdoptCheckpoint
  <2>3. StateOf(FullReplay) = [events |-> journal, base |-> FullReplay.base]
    BY <1>0, FullReplayIsJournal DEF StateOf
  <2>4. cache' = [cache EXCEPT ![p] = cache'[p]] /\ FreeCache(cache'[p])
    <3>1. PICK c : c = [set |-> TRUE, st |-> StateOf(FullReplay),
                        checkpoints |-> checkpoints, compactions |-> compactions]
      OBVIOUS
    <3>2. CacheShape(c) /\ c.st.events = journal
      BY <2>3, <3>1, CacheRecord
    <3>3. FreeCache(c)
      BY <1>0, <3>2, PrefixReflexive DEF FreeCache, IsJournalPrefix, JournalInv
    <3>4. cache' = [cache EXCEPT ![p] = cache'[p]] /\ cache'[p] = c
      BY <1>0, <2>2, <3>1, FreeCaches
    <3>5. QED
      BY <3>3, <3>4
  <2>5. PICK c : c = [call[p] EXCEPT !.stage = "verify"]
    OBVIOUS
  <2>6. CallShape(c) /\ c.stage = "verify" /\ NextCall(p, c)
    BY <1>0, <1>9, <2>5, StageOnly DEF AdoptCheckpoint
  <2>7. FreeCall(c)
    BY <2>6 DEF FreeCall, Stages
  <2>8. QED
    BY <2>1, <2>4, <2>6, <2>7, FreeMove
<1>10. CASE VerifyLatestCheckpoint(p)
  <2>1. UNCHANGED <<journal, active, archive, checkpoints, cache, olderView>>
    BY <1>10 DEF VerifyLatestCheckpoint, disk, files, history, env
  <2>2. PICK c : c = [call[p] EXCEPT !.stage = "compact", !.proof = LatestCheckpoint]
    OBVIOUS
  <2>3. NextCall(p, c) \/ \E r : Finish(p, r)
    BY <1>10, <2>2 DEF VerifyLatestCheckpoint
  <2>4. CallShape(c) /\ c.stage = "compact"
    BY <1>0, <2>2 DEF CallShape
  <2>5. FreeCall(c)
    BY <2>4 DEF FreeCall, Stages
  <2>6. QED
    BY <2>1, <2>3, <2>5, FreeMove, FreeCaches
<1>11. ASSUME NEW t PROVE FreeCall([call[p] EXCEPT !.todo = t])
                          /\ [call EXCEPT ![p].todo = t] = [call EXCEPT ![p] = [call[p] EXCEPT !.todo = t]]
  <2>1. PICK c : c = [call[p] EXCEPT !.todo = t]
    OBVIOUS
  <2>2. CallShape(c) /\ c.stage = call[p].stage /\ c.request = call[p].request
    BY <1>0, <2>1 DEF CallShape
  <2>3. FreeCall(c)
    BY <1>0, <2>2 DEF FreeCall
  <2>4. QED
    BY <1>0, <2>1, <2>3
<1>12. CASE StartCompact(p)
  <2>1. UNCHANGED <<journal, active, archive, checkpoints, cache, olderView>>
    BY <1>12 DEF StartCompact, disk, files, history, env
  <2>2. \/ \E r : Finish(p, r)
        \/ \E l : /\ Goto(p, l) /\ l \notin {"link", "sync"}
                  /\ \E c : call' = [call EXCEPT ![p] = c] /\ FreeCall(c)
    BY <1>11, <1>12 DEF StartCompact
  <2>3. QED
    BY <2>1, <2>2, FreeMove, FreeCaches
<1>13. CASE PublishRecord(p)
  <2>1. UNCHANGED <<journal, active, archive, checkpoints, cache, olderView>>
    BY <1>13 DEF PublishRecord, history, EnvButIo
  <2>2. \/ \E r : Finish(p, r)
        \/ \E l : /\ Goto(p, l) /\ l \notin {"link", "sync"}
                  /\ \E c : call' = [call EXCEPT ![p] = c] /\ FreeCall(c)
    BY <1>11, <1>13 DEF PublishRecord
  <2>3. QED
    BY <2>1, <2>2, FreeMove, FreeCaches
<1>14. CASE Crash(p)
  <2>1. UNCHANGED <<journal, active, archive, checkpoints, olderView>>
    BY <1>14 DEF Crash, files, history
  <2>2. Goto(p, "idle") /\ call' = [call EXCEPT ![p] = NoCall] /\ cache' = [cache EXCEPT ![p] = NoCache]
    BY <1>14 DEF Crash
  <2>3. cache' = [cache EXCEPT ![p] = cache'[p]] /\ FreeCache(cache'[p])
    BY <1>0, <2>2, FreeCaches
  <2>4. QED
    BY <1>0, <2>1, <2>2, <2>3, FreeMove
<1>15. QED
  BY <1>2, <1>3, <1>4, <1>5, <1>6, <1>7, <1>8, <1>9, <1>10, <1>12, <1>13, <1>14

\* An event that is admissible after the whole journal is published under the next
\* sequence number: the files still hold the journal, and the journal is a chain.
LEMMA PublishedFree ==
    ASSUME JournalInv, DiskInv, Chain(journal), NEW q \in Requests, Len(journal) < MaxEvents,
           ~Ledger!KeyUsed(RequestsOf(journal), q.key),
           Ledger!Admissible(RequestsOf(journal), q),
           NEW e, e = NewEvent(journal, q),
           active' = [active EXCEPT ![e.seq] = e], journal' = Append(journal, e),
           archive' = archive, checkpoints' = checkpoints
    PROVE  /\ JournalInv' /\ DiskInv' /\ Chain(journal')
           /\ journal' \in Seq(Event) /\ PrefixOf(journal, journal')
           /\ Len(journal') = Len(journal) + 1
<1> DEFINE k == Len(journal) + 1
<1>1. Len(journal) \in Nat /\ journal \in Seq(Event) /\ k \in Seqs
  BY LenProperties, Bounds DEF JournalInv, Seqs
<1>2. /\ e \in Event /\ e.h = k /\ e.req = q /\ e.seq = k
      /\ e.prior = LastHash(journal) /\ e # NoEvent
  <2>1. e \in Event /\ e.h = k /\ e.req = q /\ e.seq = k
    BY NewEventFits
  <2>2. e.prior = LastHash(journal)
    BY DEF NewEvent
  <2>3. QED
    BY <2>1, <2>2, NoEventAssumption
<1> HIDE DEF k
<1>3. /\ journal' \in Seq(Event) /\ Len(journal') = k
      /\ \A i \in 1 .. Len(journal) : journal'[i] = journal[i]
      /\ journal'[k] = e
  BY <1>1, <1>2, AppendProperties DEF k
<1>4. PrefixOf(journal, journal')
  BY <1>1, <1>3 DEF PrefixOf, k
<1>5. JournalInv'
  BY <1>1, <1>2, <1>3, Bounds DEF JournalInv, k
<1>6. /\ active' = [n \in Seqs |-> active'[n]] /\ active'[k] = e
      /\ \A n \in Seqs : n # k => active'[n] = active[n]
  BY <1>1, <1>2 DEF DiskInv
<1>7. ASSUME NEW n \in 1 .. Len(journal'), n # k
      PROVE  n \in 1 .. Len(journal) /\ n \in Seqs /\ active'[n] = active[n]
  <2>1. n \in 1 .. Len(journal) /\ n \in Seqs
    BY <1>1, <1>3, <1>7, Bounds DEF k, Seqs
  <2>2. QED
    BY <1>6, <1>7, <2>1
<1>8. DiskInv'
  <2>1. \A n \in Seqs : active'[n] # NoEvent => n <= Len(journal') /\ active'[n] = journal'[n]
    BY <1>1, <1>3, <1>6 DEF DiskInv, k, Seqs
  <2>2. \A n \in Seqs : archive'[n] # NoEvent => n <= Len(journal') /\ archive'[n] = journal'[n]
    BY <1>1, <1>3 DEF DiskInv, k, Seqs
  <2>3. \A n \in 1 .. Len(journal') : active'[n] # NoEvent \/ archive'[n] # NoEvent
    BY <1>2, <1>6, <1>7 DEF DiskInv
  <2>4. \A c \in checkpoints' : PrefixOf(c, journal')
    BY <1>3, <1>4, PrefixTransitive DEF DiskInv, IsJournalPrefix
  <2>5. \A n \in 1 .. Len(journal') : active'[n] = NoEvent => \E c \in checkpoints' : n <= Len(c)
    BY <1>2, <1>6, <1>7 DEF DiskInv
  <2>6. QED
    BY <1>6, <2>1, <2>2, <2>3, <2>4, <2>5 DEF DiskInv, IsJournalPrefix
<1>9. Applies(journal, e)
  BY <1>2 DEF Applies, k
<1>10. Chain(journal')
  BY <1>1, <1>2, <1>9, ChainAppend
<1>11. QED
  BY <1>3, <1>4, <1>5, <1>8, <1>10 DEF k

\* A writer that finds no file behind the events it knows knows all of them, as long as
\* nothing is archived: every event of the journal is in an active file.
LEMMA NoFileBehind ==
    ASSUME NEW es, JournalInv, DiskInv, NothingArchived, IsJournalPrefix(es),
           Len(es) < MaxEvents, active[Len(es) + 1] = NoEvent
    PROVE  es = journal
<1>1. Len(es) \in Nat /\ Len(journal) \in Nat /\ Len(journal) <= MaxEvents
  BY LenProperties DEF JournalInv, IsJournalPrefix, PrefixOf
<1>2. Len(es) >= Len(journal)
  <2>1. SUFFICES ASSUME Len(es) < Len(journal) PROVE FALSE
    BY <1>1
  <2>2. Len(es) + 1 \in 1 .. Len(journal) /\ Len(es) + 1 \in Seqs
    BY <1>1, <2>1, Bounds DEF Seqs
  <2>3. QED
    BY <2>2 DEF DiskInv, NothingArchived
<1>3. QED
  BY <1>2, WholePrefix

\* A request is decided on what the process has in memory, a prefix of the journal.
LEMMA FreeValidate ==
    ASSUME NEW p \in Procs, AnyWriterInv, Validate(p)
    PROVE  AnyWriterInv'
<1>0. /\ FreeInv(p) /\ FreeCall(call[p]) /\ FreeCache(cache[p]) /\ FreeCache(NoCache)
      /\ pc = [q \in Procs |-> pc[q]] /\ call = [q \in Procs |-> call[q]]
      /\ cache = [q \in Procs |-> cache[q]]
  BY FreeCaches DEF AnyWriterInv, FreeProcs
<1>1. UNCHANGED <<active, archive, checkpoints, journal, olderView>> /\ call[p].stage = "append"
  BY DEF Validate, disk, files, history, env, Stage
<1>2. CASE Finish(p, "panicked") /\ cache' = [cache EXCEPT ![p] = NoCache]
  <2>1. cache' = [cache EXCEPT ![p] = cache'[p]] /\ FreeCache(cache'[p])
    BY <1>0, <1>2, FreeCaches
  <2>2. QED
    BY <1>1, <1>2, <2>1, FreeMove
<1>3. CASE Finish(p, "refused") /\ UNCHANGED cache
  BY <1>1, <1>3, FreeMove, FreeCaches
<1>4. CASE /\ Ledger!Admissible(Committed(p), Request(p)) /\ Len(State(p).events) < MaxEvents
           /\ Goto(p, "link") /\ UNCHANGED <<call, cache>>
  <2> DEFINE es == cache[p].st.events
  <2>1. OnlyOf(p) /\ pc'[p] = "link"
    BY <1>0, <1>4 DEF OnlyOf, Goto
  <2>2. ~Ledger!KeyUsed(RequestsOf(es), call[p].request.key)
    <3>1. \A i \in 1 .. Len(es) : es[i].req.key # call[p].request.key
      BY DEF Validate, ExistingEvent, State, Request
    <3>2. Len(RequestsOf(es)) = Len(es)
      BY <1>0, RequestsOfLength DEF FreeCache, IsJournalPrefix, PrefixOf
    <3>3. QED
      BY <3>1, <3>2 DEF RequestsOf, Ledger!KeyUsed
  <2>3. Ledger!Admissible(RequestsOf(es), call[p].request) /\ Len(es) < MaxEvents
    BY <1>4 DEF Committed, State, Request
  <2>4. FreeInv(p)'
    BY <1>0, <1>1, <1>4, <2>1, <2>2, <2>3 DEF FreeInv, FreeCall, FreeCache, IsJournalPrefix
  <2>5. QED
    BY <1>1, <2>1, <2>4, FreeStep
<1>5. QED
  BY <1>2, <1>3, <1>4 DEF Validate

\* The link succeeds only for a process whose state is the whole journal; otherwise the
\* journal is replayed and the request decided again.
LEMMA FreeLink ==
    ASSUME NEW p \in Procs, AnyWriterInv, NothingArchived, Link(p)
    PROVE  AnyWriterInv'
<1> DEFINE es == cache[p].st.events
           q == call[p].request
<1>0. /\ FreeInv(p) /\ FreeCall(call[p]) /\ FreeCache(cache[p])
      /\ pc = [r \in Procs |-> pc[r]] /\ call = [r \in Procs |-> call[r]]
      /\ cache = [r \in Procs |-> cache[r]]
      /\ JournalInv /\ DiskInv /\ Chain(journal) /\ IsJournalPrefix(olderView)
  BY FreeCaches DEF AnyWriterInv, FreeProcs
<1>1. UNCHANGED <<archive, checkpoints, olderView>> /\ pc[p] = "link"
  BY DEF Link, EnvButIo
<1>2. /\ q \in Requests /\ Len(es) < MaxEvents /\ IsJournalPrefix(es)
      /\ ~Ledger!KeyUsed(RequestsOf(es), q.key) /\ Ledger!Admissible(RequestsOf(es), q)
  BY <1>0, <1>1 DEF FreeInv, FreeCall, FreeCache
<1>3. NewEvent(es, q).seq = Len(es) + 1
  BY DEF NewEvent
<1>4. CASE /\ active[NewEvent(es, q).seq] = NoEvent
           /\ active' = [active EXCEPT ![NewEvent(es, q).seq] = NewEvent(es, q)]
           /\ journal' = Append(journal, NewEvent(es, q))
           /\ Goto(p, "sync") /\ UNCHANGED <<call, cache>>
  <2>1. es = journal
    BY <1>0, <1>2, <1>3, <1>4, NoFileBehind
  <2>2. PICK e : e = NewEvent(journal, q)
    OBVIOUS
  <2>3. /\ JournalInv' /\ DiskInv' /\ Chain(journal')
        /\ journal' \in Seq(Event) /\ PrefixOf(journal, journal')
        /\ Len(journal') = Len(journal) + 1
    <3> HIDE DEF es, q
    <3> QED BY <1>0, <1>1, <1>2, <1>4, <2>1, <2>2, PublishedFree
  <2>4. OnlyOf(p) /\ pc'[p] = "sync" /\ call'[p] = call[p] /\ cache'[p] = cache[p]
    BY <1>0, <1>4 DEF OnlyOf, Goto
  <2>5. Len(es) < Len(journal')
    BY <1>0, <2>1, <2>3, LenProperties DEF JournalInv
  <2>6. FreeInv(p)'
    BY <1>0, <2>1, <2>3, <2>4, <2>5 DEF FreeInv, FreeCall, FreeCache, IsJournalPrefix
  <2>7. FreeProcs'
    BY <1>0, <2>3, <2>4, <2>6, FreeProcsStep DEF AnyWriterInv, JournalInv
  <2>8. PrefixOf(olderView', journal')
    BY <1>0, <1>1, <2>3, PrefixTransitive DEF IsJournalPrefix
  <2>9. QED
    BY <2>3, <2>7, <2>8 DEF AnyWriterInv, IsJournalPrefix, Chain
<1>5. CASE /\ cache' = [cache EXCEPT ![p].st = StateOf(Replay)]
           /\ Goto(p, "decide") /\ UNCHANGED <<active, journal, call>>
  <2>1. StateOf(Replay) = [events |-> journal, base |-> Replay.base]
    BY <1>0, ReplayIsJournal DEF StateOf
  <2>2. PICK c : c = [cache[p] EXCEPT !.st = StateOf(Replay)]
    OBVIOUS
  <2>3. CacheShape(c) /\ c.st.events = journal
    BY <1>0, <2>1, <2>2 DEF FreeCache, CacheShape
  <2>4. FreeCache(c)
    BY <1>0, <2>3, PrefixReflexive DEF FreeCache, IsJournalPrefix, JournalInv
  <2>5. cache' = [cache EXCEPT ![p] = c]
    BY <1>0, <1>5, <2>2
  <2>6. cache' = [cache EXCEPT ![p] = cache'[p]] /\ FreeCache(cache'[p])
    BY <2>4, <2>5, FreeCaches
  <2>7. QED
    BY <1>1, <1>5, <2>6, FreeMove
<1>6. CASE (\E r : Finish(p, r)) /\ UNCHANGED <<active, journal, cache>>
  BY <1>1, <1>6, FreeMove, FreeCaches
<1>7. QED
  BY <1>4, <1>5, <1>6 DEF Link, State, Request

\* The event that enters the state in memory is the next one of the journal.
LEMMA FreeSync ==
    ASSUME NEW p \in Procs, AnyWriterInv, NothingArchived, Sync(p)
    PROVE  AnyWriterInv'
<1> DEFINE es == cache[p].st.events
           e == active[Len(es) + 1]
<1>0. /\ FreeInv(p) /\ FreeCall(call[p]) /\ FreeCache(cache[p])
      /\ cache = [r \in Procs |-> cache[r]] /\ JournalInv /\ DiskInv
  BY FreeCaches DEF AnyWriterInv, FreeProcs
<1>1. UNCHANGED <<active, archive, checkpoints, journal, olderView>> /\ pc[p] = "sync"
  BY DEF Sync, disk, files, history, EnvButIo
<1>2. CASE (\E r : Finish(p, r)) /\ UNCHANGED cache
  BY <1>1, <1>2, FreeMove, FreeCaches
<1>3. CASE /\ cache' = [cache EXCEPT ![p].st.events = Append(es, e)]
           /\ Goto(p, "hint") /\ UNCHANGED call
  <2>1. PrefixOf(es, journal) /\ Len(es) < Len(journal) /\ CacheShape(cache[p])
        /\ es \in Seq(Event) /\ journal \in Seq(Event)
        /\ Len(es) \in Nat /\ Len(journal) \in Nat /\ Len(journal) <= MaxEvents
    BY <1>0, <1>1, LenProperties DEF FreeInv, FreeCache, IsJournalPrefix, PrefixOf, JournalInv
  <2>2. e = journal[Len(es) + 1] /\ e \in Event
    <3>1. Len(es) + 1 \in 1 .. Len(journal) /\ Len(es) + 1 \in Seqs
      BY <2>1, Bounds DEF Seqs
    <3> HIDE DEF es
    <3>2. QED
      BY <1>0, <2>1, <3>1, ElementOfSeq DEF DiskInv, NothingArchived
  <2> HIDE DEF es, e
  <2>3. PICK fs : fs = Append(es, e)
    OBVIOUS
  <2>4. /\ fs \in Seq(Event) /\ Len(fs) = Len(es) + 1
        /\ \A i \in 1 .. Len(es) : fs[i] = es[i]
        /\ fs[Len(es) + 1] = e
    BY <2>1, <2>2, <2>3, AppendProperties
  <2>5. PrefixOf(fs, journal)
    BY <2>1, <2>2, <2>4 DEF PrefixOf
  <2>6. PICK c : c = [cache[p] EXCEPT !.st.events = fs]
    OBVIOUS
  <2>7. CacheShape(c) /\ c.st.events = fs
    BY <2>1, <2>6 DEF CacheShape
  <2>8. cache' = [cache EXCEPT ![p] = c]
    BY <1>0, <1>3, <2>3, <2>6
  <2>9. cache' = [cache EXCEPT ![p] = cache'[p]] /\ FreeCache(cache'[p])
    BY <2>5, <2>7, <2>8, FreeCaches DEF FreeCache, IsJournalPrefix
  <2>10. QED
    BY <1>1, <1>3, <2>9, FreeMove
<1>4. QED
  BY <1>2, <1>3 DEF Sync, State

\* A compaction that archives nothing deletes nothing.
LEMMA FreeCompaction ==
    ASSUME NEW p \in Procs, AnyWriterInv, NothingArchived, NothingArchived',
           ArchiveOne(p) \/ DeleteOne(p)
    PROVE  AnyWriterInv'
<1> DEFINE n == FirstTodo(p)
<1>0. /\ FreeCall(call[p]) /\ CallShape(call[p]) /\ call = [r \in Procs |-> call[r]]
      /\ DiskInv /\ archive = [m \in Seqs |-> archive[m]]
  BY FreeCaches DEF AnyWriterInv, FreeProcs, FreeCall, DiskInv
<1>1. UNCHANGED <<checkpoints, journal, cache, olderView>>
  BY DEF ArchiveOne, DeleteOne, history, EnvButIo
<1>2. archive' = archive
  <2>1. archive' = archive \/ archive' = [archive EXCEPT ![n] = active[n]]
    BY DEF ArchiveOne, DeleteOne
  <2>2. archive' = [m \in Seqs |-> archive'[m]]
    BY <1>0, <2>1
  <2>3. QED
    BY <1>0, <2>2 DEF NothingArchived
<1>3. ASSUME NEW t PROVE FreeCall([call[p] EXCEPT !.todo = t])
                          /\ [call EXCEPT ![p].todo = t] = [call EXCEPT ![p] = [call[p] EXCEPT !.todo = t]]
  <2>1. PICK c : c = [call[p] EXCEPT !.todo = t]
    OBVIOUS
  <2>2. CallShape(c) /\ c.stage = call[p].stage /\ c.request = call[p].request
    BY <1>0, <2>1 DEF CallShape
  <2>3. FreeCall(c)
    BY <1>0, <2>2 DEF FreeCall
  <2>4. QED
    BY <1>0, <2>1, <2>3
<1>4. CASE ArchiveOne(p)
  <2>1. active' = active
    BY <1>4 DEF ArchiveOne
  <2>2. \/ \E r : Finish(p, r)
        \/ \E l : /\ Goto(p, l) /\ l \notin {"link", "sync"}
                  /\ \E c : call' = [call EXCEPT ![p] = c] /\ FreeCall(c)
    <3>1. CASE \E r : Finish(p, r)
      BY <3>1
    <3>2. CASE /\ call' = [call EXCEPT ![p].todo = @ \ {n}]
               /\ Goto(p, IF call[p].todo = {n} THEN "record" ELSE "archive")
      <4>1. PICK t : t = call[p].todo \ {n}
        OBVIOUS
      <4>2. call' = [call EXCEPT ![p].todo = t]
        BY <1>0, <3>2, <4>1
      <4>3. QED
        BY <1>3, <3>2, <4>2
    <3>3. QED
      BY <1>4, <3>1, <3>2 DEF ArchiveOne
  <2>3. QED
    BY <1>1, <1>2, <2>1, <2>2, FreeMove, FreeCaches
<1>5. CASE DeleteOne(p)
  <2>1. active' = active
    <3>1. CASE ArchivedCopy(n) /\ active' = [active EXCEPT ![n] = NoEvent]
      <4>1. n \notin Seqs
        BY <3>1 DEF ArchivedCopy, NothingArchived
      <4>2. QED
        BY <1>0, <3>1, <4>1 DEF DiskInv
    <3>2. QED
      BY <1>5, <3>1 DEF DeleteOne
  <2>2. \/ \E r : Finish(p, r)
        \/ \E l : /\ Goto(p, l) /\ l \notin {"link", "sync"}
                  /\ \E c : call' = [call EXCEPT ![p] = c] /\ FreeCall(c)
    <3>1. CASE \E r : Finish(p, r)
      BY <3>1
    <3>2. CASE call' = [call EXCEPT ![p].todo = @ \ {n}] /\ Goto(p, "delete")
      <4>1. PICK t : t = call[p].todo \ {n}
        OBVIOUS
      <4>2. call' = [call EXCEPT ![p].todo = t]
        BY <1>0, <3>2, <4>1
      <4>3. QED
        BY <1>3, <3>2, <4>2
    <3>3. QED
      BY <1>5, <3>1, <3>2 DEF DeleteOne
  <2>3. QED
    BY <1>1, <1>2, <2>1, <2>2, FreeMove, FreeCaches
<1>6. QED
  BY <1>4, <1>5

\* Only a copy of an active file enters the archive, where nothing or the same was.
LEMMA ArchiveFrame ==
    ASSUME [Next]_vars
    PROVE  \/ archive' = archive
           \/ \E n : /\ archive[n] \in {NoEvent, active[n]}
                     /\ archive' = [archive EXCEPT ![n] = active[n]]
<1>1. CASE \E p \in Procs : Start(p)
  BY <1>1 DEF Start, StartRequest, StartSnapshot, StartMaintenance, Begin, disk, files
<1>2. CASE \E p \in Procs : AppendStep(p)
  BY <1>2 DEF AppendStep, AcquireWriterLock, Load, Lookup, Report, AnswerFromJournal,
              Validate, Link, Sync, Respond, disk, files
<1>3. CASE \E p \in Procs : MaintenanceStep(p)
  <2>1. PICK p \in Procs : MaintenanceStep(p)
    BY <1>3
  <2>2. CASE ArchiveOne(p)
    BY <2>2 DEF ArchiveOne
  <2>3. CASE ~ArchiveOne(p)
    BY <2>1, <2>3 DEF MaintenanceStep, CreateCheckpoint, AdoptCheckpoint, VerifyLatestCheckpoint,
                      StartCompact, PublishRecord, DeleteOne, disk, files
  <2>4. QED
    BY <2>2, <2>3
<1>4. CASE \E p \in Procs : Crash(p)
  BY <1>4 DEF Crash, files
<1>5. CASE OlderWriterReads
  BY <1>5 DEF OlderWriterReads, disk, files
<1>6. CASE \E q \in Requests : OlderWriterLinks(q)
  BY <1>6 DEF OlderWriterLinks
<1>7. CASE UNCHANGED vars
  BY <1>7 DEF vars, disk, files
<1>8. QED
  BY <1>1, <1>2, <1>3, <1>4, <1>5, <1>6, <1>7 DEF Next, Step

\* What the older writer reads is the journal, and what it publishes continues it.
LEMMA OlderWriterStep ==
    ASSUME AnyWriterInv, NothingArchived,
           OlderWriterReads \/ \E q \in Requests : OlderWriterLinks(q)
    PROVE  AnyWriterInv'
<1>0. /\ JournalInv /\ DiskInv /\ Chain(journal) /\ IsJournalPrefix(olderView) /\ FreeProcs
      /\ journal \in Seq(Event) /\ Len(journal) \in Nat
  BY LenProperties DEF AnyWriterInv, JournalInv
<1>1. CASE OlderWriterReads
  <2> DEFINE A == {n \in Seqs : active[n] # NoEvent}
  <2>1. UNCHANGED <<active, archive, checkpoints, journal, pc, call, cache>>
        /\ olderView' = [n \in 1 .. Cardinality(A) |-> active[n]]
    BY <1>1 DEF OlderWriterReads, disk, files, history
  <2>2. A = 1 .. Len(journal) /\ \A n \in 1 .. Len(journal) : active[n] = journal[n]
    <3>1. A = Present
      BY DEF Present, At, NothingArchived
    <3>2. \A n \in 1 .. Len(journal) : n \in Seqs
      BY <1>0, Bounds DEF JournalInv, Seqs
    <3>3. QED
      BY <1>0, <3>1, <3>2, AtIsJournal DEF At, NothingArchived
  <2>3. Cardinality(A) = Len(journal)
    <3> DEFINE one == 1
    <3>1. one \in Int /\ Len(journal) \in Int /\ one <= Len(journal) + 1
      BY <1>0
    <3> HIDE DEF one, A
    <3>2. Cardinality(one .. Len(journal)) = Len(journal) - one + 1
      BY <3>1, IntervalSize
    <3>3. QED
      BY <1>0, <2>2, <3>2 DEF one
  <2>4. olderView' = journal
    <3>1. olderView' = [n \in 1 .. Len(journal) |-> journal[n]]
      BY <2>1, <2>2, <2>3
    <3>2. QED
      BY <1>0, <3>1, LenProperties
  <2>5. PrefixOf(olderView', journal')
    BY <1>0, <2>1, <2>4, PrefixReflexive
  <2>6. JournalInv' /\ DiskInv' /\ FreeProcs'
    BY <1>0, <2>1 DEF JournalInv, DiskInv, IsJournalPrefix, FreeProcs, FreeInv, FreeCall, FreeCache
  <2>7. QED
    BY <1>0, <2>1, <2>5, <2>6 DEF AnyWriterInv, IsJournalPrefix
<1>2. CASE \E q \in Requests : OlderWriterLinks(q)
  <2>1. PICK q \in Requests : OlderWriterLinks(q)
    BY <1>2
  <2>2. /\ active[NewEvent(olderView, q).seq] = NoEvent
        /\ active' = [active EXCEPT ![NewEvent(olderView, q).seq] = NewEvent(olderView, q)]
        /\ journal' = Append(journal, NewEvent(olderView, q))
        /\ Applies(olderView, NewEvent(olderView, q))
        /\ UNCHANGED <<archive, checkpoints, pc, call, cache, olderView>>
        /\ NewEvent(olderView, q).seq \in Seqs
    BY <2>1 DEF OlderWriterLinks
  <2>3. /\ NewEvent(olderView, q).seq = Len(olderView) + 1
        /\ NewEvent(olderView, q).req = q
    BY DEF NewEvent
  <2>4. Len(olderView) < MaxEvents /\ active[Len(olderView) + 1] = NoEvent
    <3>1. Len(olderView) \in Nat
      BY <1>0, LenProperties DEF IsJournalPrefix, PrefixOf
    <3>2. QED
      BY <2>2, <2>3, <3>1, Bounds DEF Seqs
  <2>5. olderView = journal
    BY <1>0, <2>4, NoFileBehind
  <2>6. PICK e : e = NewEvent(journal, q)
    OBVIOUS
  <2>7. /\ ~Ledger!KeyUsed(RequestsOf(journal), q.key)
        /\ Ledger!Admissible(RequestsOf(journal), q)
    BY <2>2, <2>3, <2>5 DEF Applies
  <2>8. /\ JournalInv' /\ DiskInv' /\ Chain(journal')
        /\ journal' \in Seq(Event) /\ PrefixOf(journal, journal')
    BY <1>0, <2>2, <2>4, <2>5, <2>6, <2>7, PublishedFree
  <2>9. ASSUME NEW p \in Procs PROVE FreeInv(p)'
    <3>1. FreeInv(p)
      BY <1>0 DEF FreeProcs
    <3>2. PrefixOf(cache[p].st.events, journal')
      BY <2>8, <3>1, PrefixTransitive DEF FreeInv, FreeCache, IsJournalPrefix
    <3>3. pc[p] = "sync" => Len(cache[p].st.events) < Len(journal')
      <4>1. Len(journal) <= Len(journal') /\ Len(journal') \in Nat /\ Len(cache[p].st.events) \in Nat
        BY <2>8, <3>2, LenProperties DEF PrefixOf
      <4>2. QED
        BY <1>0, <3>1, <4>1 DEF FreeInv
    <3>4. QED
      BY <2>2, <3>1, <3>2, <3>3 DEF FreeInv, FreeCall, FreeCache, IsJournalPrefix
  <2>10. FreeProcs'
    BY <1>0, <2>2, <2>9 DEF FreeProcs
  <2>11. PrefixOf(olderView', journal')
    BY <2>2, <2>5, <2>8
  <2>12. QED
    BY <2>8, <2>10, <2>11 DEF AnyWriterInv, IsJournalPrefix, Chain
<1>3. QED
  BY <1>1, <1>2

\* Every step keeps it, also the steps of the writer that takes no lock.
LEMMA NextKeepsAnyWriter ==
    ASSUME AnyWriterIndInv, [Next]_vars
    PROVE  AnyWriterIndInv'
<1>1. archive' = [n \in Seqs |-> archive'[n]]
  BY ArchiveFrame DEF AnyWriterIndInv
<1>2. ASSUME NothingArchived' PROVE NothingArchived
  <2>1. CASE archive' = archive
    BY <1>2, <2>1 DEF NothingArchived
  <2>2. CASE \E n : /\ archive[n] \in {NoEvent, active[n]}
                    /\ archive' = [archive EXCEPT ![n] = active[n]]
    <3>1. PICK n : /\ archive[n] \in {NoEvent, active[n]}
                   /\ archive' = [archive EXCEPT ![n] = active[n]]
      BY <2>2
    <3>2. ASSUME NEW m \in Seqs PROVE archive[m] = NoEvent
      <4>1. archive'[m] = NoEvent
        BY <1>2 DEF NothingArchived
      <4>2. archive'[m] = IF m = n THEN active[n] ELSE archive[m]
        BY <3>1 DEF AnyWriterIndInv
      <4>3. QED
        BY <3>1, <4>1, <4>2
    <3>3. QED
      BY <3>2 DEF NothingArchived
  <2>3. QED
    BY <2>1, <2>2, ArchiveFrame
<1>3. ASSUME NothingArchived' PROVE AnyWriterInv'
  <2>1. AnyWriterInv /\ NothingArchived
    BY <1>2, <1>3 DEF AnyWriterIndInv
  <2>2. ASSUME NEW p \in Procs, Start(p) PROVE AnyWriterInv'
    <3>1. CASE \E q \in Requests : StartRequest(p, q)
      BY <2>1, <3>1, FreeActions
    <3>2. CASE StartSnapshot(p) \/ StartMaintenance(p)
      BY <2>1, <3>2, FreeActions
    <3>3. QED
      BY <2>2, <3>1, <3>2 DEF Start
  <2>3. ASSUME NEW p \in Procs, Step(p) PROVE AnyWriterInv'
    BY <1>3, <2>1, <2>3, FreeActions, FreeValidate, FreeLink, FreeSync, FreeCompaction
       DEF Step, AppendStep, MaintenanceStep
  <2>4. ASSUME NEW p \in Procs, Crash(p) PROVE AnyWriterInv'
    BY <2>1, <2>4, FreeActions
  <2>5. CASE OlderWriterReads \/ \E q \in Requests : OlderWriterLinks(q)
    BY <2>1, <2>5, OlderWriterStep
  <2>6. CASE UNCHANGED vars
    <3>1. UNCHANGED <<journal, active, archive, checkpoints, pc, call, cache, olderView>>
      BY <2>6 DEF vars, disk, files, env, history
    <3>2. QED
      BY <2>1, <3>1 DEF AnyWriterInv, JournalInv, DiskInv, IsJournalPrefix, FreeProcs,
                        FreeInv, FreeCall, FreeCache
  <2>7. QED
    BY <2>2, <2>3, <2>4, <2>5, <2>6 DEF Next
<1>4. QED
  BY <1>1, <1>3 DEF AnyWriterIndInv

\* It holds at the start.
LEMMA InitAnyWriter ==
    ASSUME Init
    PROVE  AnyWriterIndInv /\ SoundInv
<1>1. Inv
  BY InitInv DEF IndInv, OnlyLockedWriters, Init
<1>2. journal = <<>> /\ Len(journal) = 0 /\ acked = {} /\ compactions = {}
  BY EmptySeq DEF Init
<1>3. SoundInv
  <2>1. ASSUME NEW p \in Procs PROVE ProgressInv(p)
    BY ClearedRecords DEF Init, ProgressInv
  <2>2. QED
    BY <1>2, <2>1 DEF SoundInv, Chain, AckedInv, RecordsInv
<1>4. ASSUME NEW p \in Procs PROVE FreeInv(p)
  <2>1. CallInv(p) /\ pc[p] = "idle"
    BY <1>1 DEF Inv, ProcsInv, Init
  <2>2. QED
    BY <2>1 DEF CallInv, FreeInv, FreeCall, FreeCache
<1>5. IsJournalPrefix(olderView)
  BY <1>2, EmptySeq, EmptyPrefix DEF Init, IsJournalPrefix
<1>6. QED
  BY <1>1, <1>3, <1>4, <1>5 DEF AnyWriterIndInv, AnyWriterInv, FreeProcs, Inv, ProcsInv,
                                DiskInv, SoundInv

\* A writer of an earlier version that takes no lock, and any number of events of it:
\* as long as nothing is archived, no sequence number is taken twice and the active
\* reservations never conflict or exceed a capacity.
THEOREM OlderWriterDoesNoHarmHolds == Spec => []OlderWriterDoesNoHarm
<1> DEFINE Locked == OnlyLockedWriters => SoundInv
<1>1. Init => AnyWriterIndInv /\ Locked
  BY InitAnyWriter
<1>2. AnyWriterIndInv /\ [Next]_vars => AnyWriterIndInv'
  BY NextKeepsAnyWriter
<1>3. IndInv /\ Locked /\ [Next]_vars => Locked'
  <2> SUFFICES ASSUME IndInv, Locked, [Next]_vars, olderWrites' = 0 PROVE SoundInv'
    BY DEF OnlyLockedWriters
  <2>1. olderWrites = 0 /\ ~\E q \in Requests : OlderWriterLinks(q)
    BY OlderWritesStep DEF IndInv
  <2>2. Inv /\ SoundInv
    BY <2>1 DEF IndInv, OnlyLockedWriters
  <2>3. QED
    BY <2>1, <2>2, NextKeepsSound
<1>4. IndInv /\ AnyWriterIndInv /\ Locked => OlderWriterDoesNoHarm
  <2> SUFFICES ASSUME IndInv, AnyWriterIndInv, Locked, Undisturbed
               PROVE  /\ \A i, j \in 1 .. Len(journal) : journal[i].seq = journal[j].seq => i = j
                      /\ Ledger!HoldersCompatible
    BY DEF OlderWriterDoesNoHarm, SequenceNumbersAreUnique, HoldersCompatible
  <2>1. journal \in Seq(Event) /\ Chain(journal)
    <3>1. CASE OnlyLockedWriters
      BY <3>1 DEF IndInv, Inv, JournalInv, SoundInv
    <3>2. CASE NothingArchived
      BY <3>2 DEF AnyWriterIndInv, AnyWriterInv, JournalInv
    <3>3. QED
      BY <3>1, <3>2 DEF Undisturbed, NothingArchived
  <2>2. \A i, j \in 1 .. Len(journal) : journal[i].seq = journal[j].seq => i = j
    BY <2>1, ChainKeys
  <2>3. Ledger!Compatible(Ledger!ActiveReservations(RequestsOf(journal)))
    BY <2>1, ChainCompatible
  <2>4. QED
    BY <2>2, <2>3 DEF Ledger!HoldersCompatible, RequestsOf
<1> HIDE DEF Locked
<1>5. QED
  BY <1>1, <1>2, <1>3, <1>4, IndInvHolds, PTL DEF Spec

=============================================================================
