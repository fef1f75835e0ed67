------------------------ MODULE ControlPlane_proofs ------------------------
(***************************************************************************)
(* Proofs about ControlPlane, for any requests, any journal that an earlier *)
(* build wrote, and any number of calls, crashes and failing writes.       *)
(***************************************************************************)
EXTENDS ControlPlane, TLAPS, WellFoundedInduction

---------------------------------------------------------------------------
(* What the changes of a ControlPlaneState leave of it.                     *)

\* No number in a state is above its counter.
LEMMA NumbersBounded ==
    ASSUME NEW m, Written(m)
    PROVE  /\ m.next \in Nat
           /\ \A i \in DOMAIN m.byRequest : m.byRequest[i].response.sequence \in 1 .. m.next
           /\ \A k \in DOMAIN m.byKey : m.byKey[k].response.sequence \in 1 .. m.next
           /\ \A n \in DOMAIN m.notifications : m.notifications[n].sequence \in 1 .. m.next
<1>1. m.next \in Nat /\ Numbers(m) \subseteq 1 .. m.next
  BY DEF Written
<1>2. \A i \in DOMAIN m.byRequest : m.byRequest[i].response.sequence \in Numbers(m)
  <2>1. \A i \in DOMAIN m.byRequest : m.byRequest[i].response \in Entries(m)
    BY DEF Entries
  <2> QED  BY <2>1 DEF Numbers
<1>3. \A k \in DOMAIN m.byKey : m.byKey[k].response.sequence \in Numbers(m)
  BY DEF Numbers
<1>4. \A n \in DOMAIN m.notifications : m.notifications[n].sequence \in Numbers(m)
  BY DEF Numbers
<1> QED  BY <1>1, <1>2, <1>3, <1>4

LEMMA MarkedIs ==
    ASSUME Written(mem), NEW r
    PROVE  LET s == Marked(r) IN
           /\ s.next = mem.next /\ s.byRequest = mem.byRequest /\ s.byKey = mem.byKey
           /\ s.notifications = mem.notifications
           /\ DOMAIN s.pending = DOMAIN mem.pending \cup {r.key}
           /\ Written(s)
<1> DEFINE s == Marked(r)
<1>1. /\ s = [x \in {"next", "byRequest", "byKey", "notifications", "pending"} |-> s[x]]
      /\ s.next = mem.next /\ s.byRequest = mem.byRequest /\ s.byKey = mem.byKey
      /\ s.notifications = mem.notifications /\ s.pending = With(mem.pending, r.key, r)
  BY DEF Written, Marked
<1>2. Written(s)
  <2> HIDE DEF s
  <2>1. Entries(s) = Entries(mem) /\ Numbers(s) = Numbers(mem)
    BY <1>1 DEF Entries, Numbers
  <2>2. OrderableCursorJournals(s) <=> OrderableCursorJournals(mem)
    BY <1>1, <2>1 DEF OrderableCursorJournals
  <2>3. Mirrored(s) <=> Mirrored(mem)
    BY <1>1 DEF Mirrored
  <2> QED  BY <1>1, <2>1, <2>2, <2>3 DEF Written
<1>3. DOMAIN s.pending = DOMAIN mem.pending \cup {r.key}
  <2> HIDE DEF s
  <2> QED  BY <1>1 DEF With
<1> QED  BY <1>1, <1>2, <1>3

LEMMA WithoutIs ==
    ASSUME NEW m, Written(m), NEW key
    PROVE  LET s == Without(m, key) IN
           /\ s.next = m.next /\ s.byRequest = m.byRequest /\ s.byKey = m.byKey
           /\ s.notifications = m.notifications
           /\ DOMAIN s.pending = DOMAIN m.pending \ {key}
           /\ Written(s)
<1> DEFINE s == Without(m, key)
<1>1. /\ s = [x \in {"next", "byRequest", "byKey", "notifications", "pending"} |-> s[x]]
      /\ s.next = m.next /\ s.byRequest = m.byRequest /\ s.byKey = m.byKey
      /\ s.notifications = m.notifications
      /\ s.pending = [x \in DOMAIN m.pending \ {key} |-> m.pending[x]]
  BY DEF Written, Without, Restrict
<1>2. Written(s)
  <2> HIDE DEF s
  <2>1. Entries(s) = Entries(m) /\ Numbers(s) = Numbers(m)
    BY <1>1 DEF Entries, Numbers
  <2>2. OrderableCursorJournals(s) <=> OrderableCursorJournals(m)
    BY <1>1, <2>1 DEF OrderableCursorJournals
  <2>3. Mirrored(s) <=> Mirrored(m)
    BY <1>1 DEF Mirrored
  <2> QED  BY <1>1, <2>1, <2>2, <2>3 DEF Written
<1>3. DOMAIN s.pending = DOMAIN m.pending \ {key}
  <2> HIDE DEF s
  <2> QED  BY <1>1
<1> QED  BY <1>1, <1>2, <1>3

\* A nonempty set of bounded numbers has a greatest one.
LEMMA GreatestExists ==
    ASSUME NEW n \in Nat, NEW A \in SUBSET (0 .. n), A # {}
    PROVE  \E i \in A : \A j \in A : i >= j
<1> DEFINE R == {ss \in Nat \X Nat : ss[1] < ss[2]}
           T == {n - i : i \in A}
<1>1. IsWellFoundedOn(R, Nat)
  BY NatLessThanWellFounded DEF OpToRel
<1>2. T \subseteq Nat /\ T # {}
  <2>1. \A i \in A : n - i \in Nat
    OBVIOUS
  <2>2. PICK i \in A : TRUE
    OBVIOUS
  <2> QED  BY <2>1, <2>2
<1>3. PICK x \in T : \A y \in T : ~ (<<y, x>> \in R)
  <2> HIDE DEF R, T
  <2> QED  BY <1>1, <1>2, WFMin
<1>4. PICK i \in A : x = n - i
  OBVIOUS
<1>5. ASSUME NEW j \in A PROVE i >= j
  <2>1. ~ (n - j < n - i)
    BY <1>2, <1>3, <1>4
  <2> QED  BY <2>1
<1> QED  BY <1>5

LEMMA LoadDurableIs ==
    ASSUME NEW m, Written(m)
    PROVE  LET s == LoadDurable(m) IN
           /\ s.byRequest = m.byRequest /\ s.byKey = m.byKey
           /\ s.notifications = m.notifications /\ s.pending = m.pending
           /\ Written(s)
<1> DEFINE s == LoadDurable(m)
           A == {0} \cup Numbers(m)
<1>1. /\ s = [x \in {"next", "byRequest", "byKey", "notifications", "pending"} |-> s[x]]
      /\ s.next = DerivedNextSequence(m)
      /\ s.byRequest = m.byRequest /\ s.byKey = m.byKey
      /\ s.notifications = m.notifications /\ s.pending = m.pending
  BY DEF Written, LoadDurable
<1>2. DerivedNextSequence(m) \in Nat /\ Numbers(m) \subseteq 1 .. DerivedNextSequence(m)
  <2>1. Numbers(m) \subseteq 1 .. m.next /\ m.next \in Nat
    BY DEF Written
  <2>2. A \in SUBSET (0 .. m.next) /\ A # {}
    BY <2>1
  <2>3. \E i \in A : \A j \in A : i >= j
    <3> HIDE DEF A
    <3> QED  BY <2>1, <2>2, GreatestExists
  <2>4. DerivedNextSequence(m) = CHOOSE i \in A : \A j \in A : i >= j
    BY DEF DerivedNextSequence, Max
  <2>5. DerivedNextSequence(m) \in A /\ \A j \in A : DerivedNextSequence(m) >= j
    <3> HIDE DEF A
    <3> QED  BY <2>3, <2>4
  <2> QED  BY <2>1, <2>2, <2>5
<1>3. Written(s)
  <2> HIDE DEF s
  <2>1. Entries(s) = Entries(m) /\ Numbers(s) = Numbers(m)
    BY <1>1 DEF Entries, Numbers
  <2>2. OrderableCursorJournals(s) <=> OrderableCursorJournals(m)
    BY <1>1, <2>1 DEF OrderableCursorJournals
  <2>3. Mirrored(s) <=> Mirrored(m)
    BY <1>1 DEF Mirrored
  <2> QED  BY <1>1, <1>2, <2>1, <2>2, <2>3 DEF Written
<1> QED  BY <1>1, <1>3

LEMMA PublishedIs ==
    ASSUME Written(mem), NEW n
    PROVE  LET s == Published(n) IN
           /\ s.byRequest = mem.byRequest /\ s.byKey = mem.byKey /\ s.pending = mem.pending
           /\ Written(s)
<1> DEFINE s == Published(n)
<1>1. /\ s = [x \in {"next", "byRequest", "byKey", "notifications", "pending"} |-> s[x]]
      /\ s.next = mem.next + 1
      /\ s.byRequest = mem.byRequest /\ s.byKey = mem.byKey /\ s.pending = mem.pending
      /\ s.notifications = With(mem.notifications, n.id, [digest |-> n, sequence |-> mem.next + 1])
  BY DEF Written, Published
<1>2. Written(s)
  <2> HIDE DEF s
  <2>1. mem.next \in Nat
    BY NumbersBounded
  <2>2. Entries(s) = Entries(mem)
    BY <1>1 DEF Entries
  <2>3. /\ DOMAIN s.notifications = DOMAIN mem.notifications \cup {n.id}
        /\ s.notifications[n.id].sequence = mem.next + 1
        /\ \A x \in DOMAIN mem.notifications : x # n.id => s.notifications[x] = mem.notifications[x]
    BY <1>1 DEF With
  <2>4. \A x \in DOMAIN mem.notifications : mem.notifications[x].sequence \in 1 .. mem.next
    BY NumbersBounded
  <2>5. Numbers(s) \subseteq 1 .. s.next
    <3>1. \A x \in DOMAIN s.notifications : s.notifications[x].sequence \in 1 .. s.next
      BY <1>1, <2>1, <2>3, <2>4
    <3>2. \A i \in DOMAIN s.byRequest : s.byRequest[i].response.sequence \in 1 .. s.next
      BY <1>1, <2>1, NumbersBounded
    <3>3. \A k \in DOMAIN s.byKey : s.byKey[k].response.sequence \in 1 .. s.next
      BY <1>1, <2>1, NumbersBounded
    <3> QED  BY <3>1, <3>2, <3>3 DEF Numbers, Entries
  <2>6. OrderableCursorJournals(s)
    <3>1. \A x \in DOMAIN s.notifications : s.notifications[x].sequence > 0
      BY <2>1, <2>3, <2>4
    <3>2. ASSUME NEW x \in DOMAIN s.notifications, NEW y \in DOMAIN s.notifications,
                 s.notifications[x].sequence = s.notifications[y].sequence
          PROVE  x = y
      <4>1. \A z, w \in DOMAIN mem.notifications :
               mem.notifications[z].sequence = mem.notifications[w].sequence => z = w
        BY DEF Written, OrderableCursorJournals
      <4> QED  BY <2>1, <2>3, <2>4, <3>2, <4>1
    <3>3. OrderableCursorJournals(mem)
      BY DEF Written
    <3> QED  BY <1>1, <2>2, <3>1, <3>2, <3>3 DEF OrderableCursorJournals
  <2>7. Mirrored(s) <=> Mirrored(mem)
    BY <1>1 DEF Mirrored
  <2> QED  BY <1>1, <2>1, <2>2, <2>5, <2>6, <2>7 DEF Written
<1> QED  BY <1>1, <1>2

\* execute, once the delegate has returned: the state after Numbered.
LEMMA NumberedIs ==
    ASSUME Written(mem), NEW r, Numbered(r, mem.next + 1),
           r.id \notin DOMAIN mem.byRequest, r.key \notin DOMAIN mem.byKey
    PROVE  LET response == [sequence |-> mem.next + 1, outcome |-> host.outcome] IN
           /\ mem'.notifications = mem.notifications /\ mem'.pending = mem.pending
           /\ DOMAIN mem'.byRequest = DOMAIN mem.byRequest \cup {r.id}
           /\ mem'.byRequest[r.id] = [digest |-> r, response |-> response]
           /\ \A i \in DOMAIN mem.byRequest : mem'.byRequest[i] = mem.byRequest[i]
           /\ DOMAIN mem'.byKey = DOMAIN mem.byKey \cup {r.key}
           /\ mem'.byKey[r.key] = [digest |-> Semantic(r), response |-> response]
           /\ \A k \in DOMAIN mem.byKey : mem'.byKey[k] = mem.byKey[k]
           /\ Written(mem)'
<1> DEFINE response == [sequence |-> mem.next + 1, outcome |-> host.outcome]
           s == mem'
<1>1. /\ s = [x \in {"next", "byRequest", "byKey", "notifications", "pending"} |-> s[x]]
      /\ s.next = mem.next + 1
      /\ s.notifications = mem.notifications /\ s.pending = mem.pending
      /\ s.byRequest = With(mem.byRequest, r.id, [digest |-> r, response |-> response])
      /\ s.byKey = With(mem.byKey, r.key, [digest |-> Semantic(r), response |-> response])
  BY DEF Written, Numbered
<1>2. response.sequence = mem.next + 1 /\ IsResponse(response)
  BY DEF IsResponse
<1> HIDE DEF response, s
<1>3. /\ DOMAIN s.byRequest = DOMAIN mem.byRequest \cup {r.id}
      /\ s.byRequest[r.id] = [digest |-> r, response |-> response]
      /\ \A i \in DOMAIN mem.byRequest : s.byRequest[i] = mem.byRequest[i]
  BY <1>1 DEF With
<1>4. /\ DOMAIN s.byKey = DOMAIN mem.byKey \cup {r.key}
      /\ s.byKey[r.key] = [digest |-> Semantic(r), response |-> response]
      /\ \A k \in DOMAIN mem.byKey : s.byKey[k] = mem.byKey[k]
  BY <1>1 DEF With
<1>5. s.next \in Nat /\ Numbers(s) \subseteq 1 .. s.next
  <2>1. \A i \in DOMAIN s.byRequest : s.byRequest[i].response.sequence \in 1 .. s.next
    BY <1>1, <1>2, <1>3, NumbersBounded
  <2>2. \A k \in DOMAIN s.byKey : s.byKey[k].response.sequence \in 1 .. s.next
    BY <1>1, <1>2, <1>4, NumbersBounded
  <2>3. \A n \in DOMAIN s.notifications : s.notifications[n].sequence \in 1 .. s.next
    BY <1>1, NumbersBounded
  <2>4. s.next \in Nat
    BY <1>1, NumbersBounded
  <2> QED  BY <2>1, <2>2, <2>3, <2>4 DEF Numbers, Entries
<1>6. \A e \in Entries(s) : IsResponse(e)
  <2>1. \A i \in DOMAIN mem.byRequest : IsResponse(mem.byRequest[i].response)
    BY DEF Written, Entries
  <2> QED  BY <1>2, <1>3, <2>1 DEF Entries
<1>7. OrderableCursorJournals(s)
  <2>1. OrderableCursorJournals(mem)
    BY DEF Written
  <2>2. ASSUME NEW i \in DOMAIN s.byRequest, NEW j \in DOMAIN s.byRequest,
               s.byRequest[i].response.sequence = s.byRequest[j].response.sequence
        PROVE  i = j
    <3>1. \A x \in DOMAIN mem.byRequest : mem.byRequest[x].response.sequence # mem.next + 1
      BY NumbersBounded
    <3>2. \A x, y \in DOMAIN mem.byRequest :
             mem.byRequest[x].response.sequence = mem.byRequest[y].response.sequence => x = y
      BY <2>1 DEF OrderableCursorJournals
    <3> QED  BY <1>2, <1>3, <2>2, <3>1, <3>2
  <2>3. \A e \in Entries(s) : e.sequence > 0
    BY <1>2, <1>3, NumbersBounded DEF Entries
  <2> QED  BY <1>1, <2>1, <2>2, <2>3 DEF OrderableCursorJournals
<1>8. Mirrored(s)
  <2>1. Mirrored(mem)
    BY DEF Written
  <2>2. ASSUME NEW i \in DOMAIN s.byRequest
        PROVE  LET e == s.byRequest[i] IN
               /\ e.digest.id = i
               /\ e.digest.key \in DOMAIN s.byKey
               /\ s.byKey[e.digest.key] = [digest |-> Semantic(e.digest), response |-> e.response]
    BY <1>3, <1>4, <2>1 DEF Mirrored
  <2>3. ASSUME NEW k \in DOMAIN s.byKey
        PROVE  \E i \in DOMAIN s.byRequest : s.byRequest[i].digest.key = k
    BY <1>3, <1>4, <2>1 DEF Mirrored
  <2> QED  BY <2>2, <2>3 DEF Mirrored
<1>9. Written(s)
  BY <1>1, <1>5, <1>6, <1>7, <1>8 DEF Written
<1> QED  BY <1>1, <1>3, <1>4, <1>9 DEF s, response

---------------------------------------------------------------------------
(* Where the host stands between two calls and within one.                  *)

Undecided == {"marked", "refused", "effect", "filling", "decided"}
Working == Undecided \cup {"journaled"}

HostInv ==
    /\ Written(mem) /\ Written(disk)
    /\ host = [x \in {"phase", "pid", "request", "todo", "outcome"} |-> host[x]]
    /\ host.phase \in Working =>
          /\ host.request \in Requests
          /\ host.request.key \in DOMAIN mem.pending
          /\ host.request.key \in DOMAIN disk.pending
    /\ host.phase \in Undecided =>
          host.request.id \notin DOMAIN mem.byRequest /\ host.request.key \notin DOMAIN mem.byKey
    /\ host.phase = "journaled" =>
          /\ host.request.id \in DOMAIN mem.byRequest
          /\ mem.byRequest[host.request.id].digest = host.request
          /\ mem.byRequest[host.request.id].response.outcome = host.outcome

LEMMA EmptyIsWritten == Written(Empty)
<1> DEFINE s == Empty
<1>1. /\ s = [x \in {"next", "byRequest", "byKey", "notifications", "pending"} |-> s[x]]
      /\ s.next = 0 /\ DOMAIN s.byRequest = {} /\ DOMAIN s.byKey = {} /\ DOMAIN s.notifications = {}
  BY DEF Empty
<1> HIDE DEF s
<1>2. Entries(s) = {} /\ Numbers(s) = {}
  BY <1>1 DEF Entries, Numbers
<1>3. OrderableCursorJournals(s) /\ Mirrored(s)
  BY <1>1, <1>2 DEF OrderableCursorJournals, Mirrored
<1> QED  BY <1>1, <1>2, <1>3 DEF Written, s

LEMMA DownIs ==
    /\ Down = [x \in {"phase", "pid", "request", "todo", "outcome"} |-> Down[x]]
    /\ Down.phase = "down" /\ Down.outcome = "none"
BY DEF Down

LEMMA HostInvHolds == Spec => []HostInv
<1>1. Init => HostInv
  BY EmptyIsWritten, OlderJournalIsWritten, DownIs DEF Init, HostInv, Working, Undecided
<1>2. HostInv /\ [Next]_vars => HostInv'
  <2> SUFFICES ASSUME HostInv, [Next]_vars PROVE HostInv'
    OBVIOUS
  <2> USE DEF HostInv, Working, Undecided
  <2>1. CASE UNCHANGED <<mem, disk, host>>
    BY <2>1
  <2>2. ASSUME NEW pid \in Pids, Start(pid) PROVE HostInv'
    <3>1. mem' = LoadDurable(disk) /\ disk' = disk /\ host' = [Down EXCEPT !.phase = "new", !.pid = pid]
      BY <2>2 DEF Start
    <3> QED  BY <3>1, LoadDurableIs, DownIs
  <2>3. CASE Initialize
    BY <2>3 DEF Initialize
  <2>4. CASE Initialized
    BY <2>4 DEF Initialized
  <2>5. ASSUME NEW r \in Requests, CallFresh(r) PROVE HostInv'
    <3>1. PICK outcome \in PersistOutcomes :
            /\ disk' = Marked(r) \/ (disk' = disk /\ outcome # "ok")
            /\ IF outcome = "ok"
               THEN /\ mem' = Marked(r) /\ disk' = Marked(r)
                    /\ host' = [host EXCEPT !.phase = "marked", !.request = r]
               ELSE UNCHANGED <<mem, host>>
      BY <2>5 DEF CallFresh, Persist
    <3>2. host.phase = "idle" /\ r.id \notin DOMAIN mem.byRequest /\ r.key \notin DOMAIN mem.byKey
      BY <2>5 DEF CallFresh, Receives, Journaled
    <3>3. CASE outcome = "ok"
      <4>1. mem' = Marked(r) /\ disk' = Marked(r) /\ Written(Marked(r)) /\ r.key \in DOMAIN Marked(r).pending
        BY <3>1, <3>3, MarkedIs
      <4>2. /\ host' = [x \in {"phase", "pid", "request", "todo", "outcome"} |-> host'[x]]
            /\ host'.phase = "marked" /\ host'.request = r
        BY <3>1, <3>3
      <4>3. r.id \notin DOMAIN mem'.byRequest /\ r.key \notin DOMAIN mem'.byKey
        BY <3>2, <4>1, MarkedIs
      <4> QED  BY <4>1, <4>2, <4>3
    <3>4. CASE outcome # "ok"
      BY <3>1, <3>2, <3>4, MarkedIs
    <3> QED  BY <3>3, <3>4
  <2>6. CASE Delegate
    BY <2>6 DEF Delegate
  <2>7. CASE CreateFile
    BY <2>7 DEF CreateFile, WriteExactContent
  <2>8. CASE FillFile
    BY <2>8 DEF FillFile
  <2>9. CASE DelegateReturns
    BY <2>9 DEF DelegateReturns
  <2>10. CASE JournalAnswer
    <3>1. /\ host.phase = "decided" /\ Numbered(host.request, mem.next + 1)
          /\ host' = [host EXCEPT !.phase = "journaled"] /\ disk' = disk
      BY <2>10 DEF JournalAnswer, Numbered
    <3>2. /\ host' = [x \in {"phase", "pid", "request", "todo", "outcome"} |-> host'[x]]
          /\ host'.phase = "journaled" /\ host'.request = host.request /\ host'.outcome = host.outcome
      BY <3>1
    <3>3. /\ Written(mem)' /\ mem'.pending = mem.pending
          /\ host.request.id \in DOMAIN mem'.byRequest
          /\ mem'.byRequest[host.request.id] =
                [digest |-> host.request, response |-> [sequence |-> mem.next + 1, outcome |-> host.outcome]]
      <4>1. host.request.id \notin DOMAIN mem.byRequest /\ host.request.key \notin DOMAIN mem.byKey
        BY <3>1
      <4> HIDE DEF HostInv
      <4>2. Written(mem)
        BY DEF HostInv
      <4> QED  BY <3>1, <4>1, <4>2, NumberedIs
    <3> QED  BY <3>1, <3>2, <3>3
  <2>11. CASE Commit
    <3>1. /\ host' = [Down EXCEPT !.phase = "idle", !.pid = host.pid]
          /\ mem' = mem \/ mem' = Without(mem, host.request.key)
          /\ disk' = disk \/ disk' = Without(mem, host.request.key)
      BY <2>11 DEF Commit, Acknowledge, Persist
    <3>2. /\ host' = [x \in {"phase", "pid", "request", "todo", "outcome"} |-> host'[x]]
          /\ host'.phase = "idle"
      BY <3>1, DownIs
    <3> QED  BY <3>1, <3>2, WithoutIs
  <2>12. ASSUME NEW n \in Notifications, Publish(n) PROVE HostInv'
    <3>1. /\ host.phase = "idle" /\ host' = host
          /\ mem' = mem \/ mem' = Published(n)
          /\ disk' = disk \/ disk' = Published(n)
      BY <2>12 DEF Publish, Persist
    <3> QED  BY <3>1, PublishedIs
  <2>13. CASE Crash
    <3>1. /\ host' = Down /\ mem' = Empty
          /\ disk' = disk \/ disk' = Without(mem, host.request.key)
      BY <2>13 DEF Crash
    <3> QED  BY <3>1, WithoutIs, DownIs, EmptyIsWritten
  <2>14. ASSUME NEW r \in Requests, CallPending(r) \/ CallJournaled(r) PROVE UNCHANGED <<mem, disk, host>>
    BY <2>14 DEF CallPending, CallJournaled
  <2>15. CASE Replay \/ AdvanceCase
    BY <2>1, <2>15 DEF Replay, AdvanceCase
  <2> QED
    BY <2>1, <2>2, <2>3, <2>4, <2>5, <2>6, <2>7, <2>8, <2>9, <2>10, <2>11, <2>12, <2>13, <2>14, <2>15
       DEF Next, vars
<1> QED  BY <1>1, <1>2, PTL DEF Spec

---------------------------------------------------------------------------
(* The delegate is invoked at most once for a key: an invocation leaves its *)
(* key pending or answered, in memory and on disk, and neither is given up. *)

Known(s, k) == k \in DOMAIN s.pending \cup DOMAIN s.byKey

EffectInv ==
    /\ invoked \in [Keys -> Nat]
    /\ \A k \in Keys : invoked[k] # 0 =>
          /\ invoked[k] = 1
          /\ Known(disk, k)
          /\ host.phase # "down" => Known(mem, k)
    /\ host.phase \in {"marked", "refused"} => invoked[host.request.key] = 0

LEMMA EffectInvHolds == Spec => []EffectInv
<1>1. Init => EffectInv
  BY DownIs DEF Init, EffectInv
<1>2. HostInv /\ EffectInv /\ [Next]_vars => EffectInv'
  <2> SUFFICES ASSUME HostInv, EffectInv, [Next]_vars PROVE EffectInv'
    OBVIOUS
  <2>0. Written(mem) /\ Written(disk)
    BY DEF HostInv
  <2> DEFINE phase == host.phase
             key == host.request.key
  <2>K. \A r \in Requests : r.key \in Keys
    BY DEF Keys
  <2>1. CASE UNCHANGED <<mem, disk, host, invoked>>
    BY <2>1 DEF EffectInv, Known
  <2>2. ASSUME NEW pid \in Pids, Start(pid) PROVE EffectInv'
    <3>1. mem' = LoadDurable(disk) /\ disk' = disk /\ invoked' = invoked /\ host'.phase = "new"
      BY <2>2, DownIs DEF Start
    <3> QED  BY <3>1, <2>0, LoadDurableIs DEF EffectInv, Known
  <2>3. CASE Initialize \/ Initialized
    <3>1. /\ UNCHANGED <<mem, disk, invoked>> /\ host.phase # "down"
          /\ host'.phase \in {"initialize_completed", "idle"}
      BY <2>3 DEF Initialize, Initialized, HostInv
    <3> QED  BY <3>1 DEF EffectInv, Known
  <2>5. ASSUME NEW r \in Requests, CallFresh(r) PROVE EffectInv'
    <3>1. /\ mem' = mem \/ mem' = Marked(r)
          /\ disk' = disk \/ disk' = Marked(r)
          /\ invoked' = invoked /\ host.phase = "idle"
          /\ host' = host \/ (host'.phase = "marked" /\ host'.request = r)
      BY <2>5 DEF CallFresh, Persist, Receives, HostInv
    <3>2. invoked[r.key] = 0
      <4>1. ~ Known(mem, r.key)
        BY <2>5 DEF CallFresh, Journaled, Known
      <4> QED  BY <2>K, <3>1, <4>1 DEF EffectInv
    <3>3. \A k \in Keys : Known(mem, k) => Known(Marked(r), k)
      BY <2>0, MarkedIs DEF Known
    <3> QED  BY <3>1, <3>2, <3>3 DEF EffectInv
  <2>6. CASE Delegate
    <3>1. UNCHANGED <<mem, disk>> /\ host.phase = "marked" /\ key \in Keys
      BY <2>6, <2>K DEF Delegate, HostInv, Working, Undecided
    <3>2. Known(mem, key) /\ Known(disk, key) /\ invoked[key] = 0
      BY <3>1 DEF HostInv, Working, Undecided, Known, EffectInv
    <3>3. CASE LocalRefusal(host.request) # "none"
      <4>1. invoked' = invoked /\ host'.phase = "refused" /\ host'.request = host.request
        BY <2>6, <3>3 DEF Delegate, HostInv
      <4> QED  BY <3>1, <3>2, <4>1 DEF EffectInv, Known
    <3>4. CASE LocalRefusal(host.request) = "none"
      <4>1. invoked' = [invoked EXCEPT ![key] = @ + 1] /\ host'.phase \in {"effect", "decided"}
        BY <2>6, <3>4 DEF Delegate, HostInv
      <4> QED  BY <3>1, <3>2, <4>1 DEF EffectInv, Known
    <3> QED  BY <3>3, <3>4
  <2>7. CASE CreateFile \/ FillFile \/ DelegateReturns
    <3>1. /\ UNCHANGED <<mem, disk, invoked>> /\ host.phase # "down"
          /\ host'.phase \in {"effect", "filling", "decided"}
      BY <2>7 DEF CreateFile, WriteExactContent, FillFile, DelegateReturns, HostInv
    <3> QED  BY <3>1 DEF EffectInv, Known
  <2>10. CASE JournalAnswer
    <3>1. /\ host.phase = "decided" /\ Numbered(host.request, mem.next + 1)
          /\ UNCHANGED <<disk, invoked>> /\ host'.phase = "journaled"
      BY <2>10 DEF JournalAnswer, Numbered, HostInv
    <3>2. host.request.id \notin DOMAIN mem.byRequest /\ host.request.key \notin DOMAIN mem.byKey
      BY <3>1 DEF HostInv, Undecided
    <3>3. mem'.pending = mem.pending /\ DOMAIN mem.byKey \subseteq DOMAIN mem'.byKey
      BY <2>0, <3>1, <3>2, NumberedIs
    <3> QED  BY <3>1, <3>3 DEF EffectInv, Known
  <2>A. ASSUME phase \in {"refused", "journaled"}, NEW k \in Keys, invoked[k] # 0
        PROVE  Known(Without(mem, key), k)
    <3>1. CASE k = key
      <4>1. phase = "journaled"
        BY <2>A, <3>1 DEF EffectInv
      <4>2. key \in DOMAIN mem.byKey
        BY <2>0, <4>1 DEF HostInv, Written, Mirrored
      <4> QED  BY <2>0, <3>1, <4>2, WithoutIs DEF Known
    <3>2. CASE k # key
      BY <2>0, <2>A, <3>2, WithoutIs DEF EffectInv, Known
    <3> QED  BY <3>1, <3>2
  <2>11. CASE Commit
    <3>1. /\ mem' = mem \/ mem' = Without(mem, key)
          /\ disk' = disk \/ disk' = Without(mem, key)
          /\ invoked' = invoked /\ phase \in {"refused", "journaled"}
          /\ host'.phase = "idle"
      BY <2>11, DownIs DEF Commit, Acknowledge, Persist
    <3> QED  BY <3>1, <2>A DEF EffectInv
  <2>12. ASSUME NEW n \in Notifications, Publish(n) PROVE EffectInv'
    <3>1. /\ host.phase = "idle" /\ host' = host /\ invoked' = invoked
          /\ mem' = mem \/ mem' = Published(n)
          /\ disk' = disk \/ disk' = Published(n)
      BY <2>12 DEF Publish, Persist
    <3> QED  BY <3>1, <2>0, PublishedIs DEF EffectInv, Known
  <2>13. CASE Crash
    <3>1. /\ host'.phase = "down" /\ invoked' = invoked
          /\ disk' = disk \/ (disk' = Without(mem, key) /\ phase \in {"refused", "journaled"})
      BY <2>13, DownIs DEF Crash
    <3> QED  BY <3>1, <2>A DEF EffectInv
  <2>14. ASSUME NEW r \in Requests, CallPending(r) \/ CallJournaled(r)
         PROVE  UNCHANGED <<mem, disk, host, invoked>>
    BY <2>14 DEF CallPending, CallJournaled
  <2>15. CASE Replay \/ AdvanceCase
    BY <2>1, <2>15 DEF Replay, AdvanceCase
  <2> QED
    BY <2>1, <2>2, <2>3, <2>5, <2>6, <2>7, <2>10, <2>11, <2>12, <2>13, <2>14, <2>15
       DEF Next, vars
<1> QED  BY <1>1, <1>2, HostInvHolds, PTL DEF Spec

\* The delegate is invoked at most once for an idempotency key, however often the request
\* is retried, the host dies and the writes of its state file fail.
THEOREM EffectAtMostOnceHolds == Spec => []EffectAtMostOnce
<1>1. EffectInv => EffectAtMostOnce
  BY DEF EffectInv, EffectAtMostOnce
<1> QED  BY <1>1, EffectInvHolds, PTL

---------------------------------------------------------------------------
(* What is served never claims what only a review may claim.                *)

\* The refusal that comes first among two or three checks is one of theirs.
LEMMA FirstOfTwo ==
    ASSUME NEW x, x # "none", NEW a, NEW b, a # x, b # x
    PROVE  FirstRefusal(<<a, b>>) # x
<1> DEFINE checks == <<a, b>>
           failing == {i \in DOMAIN checks : checks[i] # "none"}
<1>1. ASSUME failing # {} PROVE Min(failing) \in failing
  <2>1. \E i \in failing : \A j \in failing : i <= j
    <3>1. CASE 1 \in failing
      BY <3>1
    <3>2. CASE 1 \notin failing
      BY <1>1, <3>2
    <3> QED  BY <3>1, <3>2
  <2> HIDE DEF failing
  <2> QED  BY <2>1 DEF Min
<1>2. \A i \in DOMAIN checks : checks[i] # x
  OBVIOUS
<1> QED  BY <1>1, <1>2 DEF FirstRefusal

LEMMA FirstOfThree ==
    ASSUME NEW x, x # "none", NEW a, NEW b, NEW c, a # x, b # x, c # x
    PROVE  FirstRefusal(<<a, b, c>>) # x
<1> DEFINE checks == <<a, b, c>>
           failing == {i \in DOMAIN checks : checks[i] # "none"}
<1>1. ASSUME failing # {} PROVE Min(failing) \in failing
  <2>1. \E i \in failing : \A j \in failing : i <= j
    <3>1. CASE 1 \in failing
      BY <3>1
    <3>2. CASE 1 \notin failing /\ 2 \in failing
      BY <3>2
    <3>3. CASE 1 \notin failing /\ 2 \notin failing
      BY <1>1, <3>3
    <3> QED  BY <3>1, <3>2, <3>3
  <2> HIDE DEF failing
  <2> QED  BY <2>1 DEF Min
<1>2. \A i \in DOMAIN checks : checks[i] # x
  OBVIOUS
<1> QED  BY <1>1, <1>2 DEF FirstRefusal

\* A verdict is no result, and claims nothing.
LEMMA VerdictIsNoClaim ==
    ASSUME NEW r, NEW x \in {"false_claim", "result"}
    PROVE  Verdict(r) # x
<1>1. /\ ReplayExactRevision(r) # x /\ RequireMatchingRevision(r) # x
      /\ ReadConfinedArtifact(r) # x /\ LoadVerifiedBundle(r) # x
  BY DEF ReplayExactRevision, RequireMatchingRevision, ReadConfinedArtifact, LoadVerifiedBundle
<1>2. ASSUME NEW code, code # x PROVE Decided(r, code) # x
  BY <1>2 DEF Decided
<1>3. /\ LintExecutionTopology(r) # x /\ AttachRuntimeReport(r) # x
      /\ ReconcileRun(r) # x /\ ReconcileResources(r) # x
      /\ SimulateExecutionTopology(r) # x /\ EvaluateExpansionRound(r) # x
      /\ ProposeTopologyRedesign(r) # x
  BY <1>2 DEF LintExecutionTopology, AttachRuntimeReport, ReconcileRun, ReconcileResources,
              SimulateExecutionTopology, EvaluateExpansionRound, ProposeTopologyRedesign
<1>4. /\ CompileDeploymentBundle(r) # x
      /\ CompileReviewedDeploymentBundle(r) # x
      /\ ReconcileStreamingRun(r) # x
  BY <1>1, <1>2, FirstOfTwo
     DEF CompileDeploymentBundle, CompileReviewedDeploymentBundle, ReconcileStreamingRun
<1>5. /\ ReconcileVerificationLineage(r) # x /\ ReserveResources(r) # x
      /\ ReleaseResources(r) # x /\ MemoryReadTool(r) # x
      /\ MemoryProposalTool(r) # x
  BY <1>1, <1>2, FirstOfThree
     DEF ReconcileVerificationLineage, ReserveResources, ReleaseResources, MemoryReadTool,
         MemoryProposalTool
<1> QED  BY <1>3, <1>4, <1>5 DEF Verdict

\* What the host is about to journal is a result or one of its own refusals.
OutcomeInv == host.outcome # "false_claim"

LEMMA OutcomeInvHolds == Spec => []OutcomeInv
<1>1. Init => OutcomeInv
  BY DownIs DEF Init, OutcomeInv
<1>2. HostInv /\ OutcomeInv /\ [Next]_vars => OutcomeInv'
  <2> SUFFICES ASSUME HostInv, OutcomeInv, [Next]_vars PROVE OutcomeInv'
    OBVIOUS
  <2>0. host = [x \in {"phase", "pid", "request", "todo", "outcome"} |-> host[x]]
    BY DEF HostInv
  <2> USE DEF OutcomeInv
  <2>1. CASE host'.outcome = host.outcome
    BY <2>1
  <2>2. ASSUME NEW pid \in Pids, Start(pid) PROVE OutcomeInv'
    BY <2>2, DownIs DEF Start
  <2>3. CASE Initialize \/ Initialized
    BY <2>0, <2>3 DEF Initialize, Initialized
  <2>4. ASSUME NEW r \in Requests, CallFresh(r) PROVE OutcomeInv'
    BY <2>0, <2>4 DEF CallFresh
  <2>5. CASE Delegate
    <3>1. LocalRefusal(host.request) # "false_claim"
      BY DEF LocalRefusal
    <3>2. Verdict(host.request) # "false_claim"
      BY VerdictIsNoClaim
    <3> QED  BY <2>0, <2>5, <3>1, <3>2 DEF Delegate
  <2>6. CASE CreateFile \/ FillFile \/ DelegateReturns
    BY <2>0, <2>6 DEF CreateFile, WriteExactContent, FillFile, DelegateReturns
  <2>7. CASE JournalAnswer
    BY <2>0, <2>7 DEF JournalAnswer, Numbered
  <2>8. CASE Commit
    BY <2>8, DownIs DEF Commit, Acknowledge
  <2>9. CASE Crash
    BY <2>9, DownIs DEF Crash
  <2>10. ASSUME \/ \E r \in Requests : CallPending(r) \/ CallJournaled(r)
                \/ \E n \in Notifications : Publish(n)
                \/ Replay \/ AdvanceCase \/ UNCHANGED vars
         PROVE  host'.outcome = host.outcome
    BY <2>10 DEF CallPending, CallJournaled, Publish, Replay, AdvanceCase, vars
  <2> QED
    BY <2>1, <2>2, <2>3, <2>4, <2>5, <2>6, <2>7, <2>8, <2>9, <2>10 DEF Next
<1> QED  BY <1>1, <1>2, HostInvHolds, PTL DEF Spec

---------------------------------------------------------------------------
(* An answer that was given stays: it is in the journal under its key, in   *)
(* memory and on disk, and no marker stands before it.                      *)

\* What the answer to r is taken from, when its key decides.
Backed(s, r, response) ==
    /\ r.key \in DOMAIN s.byKey /\ r.key \notin DOMAIN s.pending
    /\ s.byKey[r.key].digest = Semantic(r)
    /\ ServeJournaled(s.byKey[r.key].response) = response

\* What memory would serve is on disk.
Synced ==
    \A k \in DOMAIN mem.byKey \ DOMAIN mem.pending :
        k \in DOMAIN disk.byKey /\ k \notin DOMAIN disk.pending /\ disk.byKey[k] = mem.byKey[k]

StableInv ==
    /\ host.phase # "down" => Synced
    /\ \A a \in answers :
          /\ Backed(disk, a.request, a.response)
          /\ host.phase # "down" => Backed(mem, a.request, a.response)

\* A request found in the journal is served what its key is served.
LEMMA MirrorServes ==
    ASSUME Written(mem), NEW r, r.id \in DOMAIN mem.byRequest, mem.byRequest[r.id].digest = r
    PROVE  /\ r.key \in DOMAIN mem.byKey
           /\ mem.byKey[r.key].digest = Semantic(r)
           /\ mem.byKey[r.key].response = mem.byRequest[r.id].response
<1>1. /\ r.key \in DOMAIN mem.byKey
      /\ mem.byKey[r.key] = [digest |-> Semantic(r), response |-> mem.byRequest[r.id].response]
  BY DEF Written, Mirrored
<1> QED  BY <1>1

\* What a call that is answered from the journal is told.
LEMMA JournaledCall ==
    ASSUME Written(mem), NEW r, CallJournaled(r)
    PROVE  /\ host.phase = "idle"
           /\ UNCHANGED <<mem, disk, host, files>>
           /\ reply'.request = r
           /\ \/ /\ r.key \in DOMAIN mem.byKey /\ r.key \notin DOMAIN mem.pending
                 /\ mem.byKey[r.key].digest = Semantic(r)
                 /\ LET response == ServeJournaled(mem.byKey[r.key].response) IN
                    /\ answers' = answers \cup {[request |-> r, response |-> response]}
                    /\ reply'.journaled /\ reply'.outcome = response.outcome
                    /\ reply'.sequence = response.sequence
              \/ /\ answers' = answers /\ ~reply'.journaled
                 /\ reply'.outcome = "request_id_collision"
                 /\ r.id \in DOMAIN mem.byRequest /\ mem.byRequest[r.id].digest # r
              \/ /\ answers' = answers /\ ~reply'.journaled
                 /\ r.key \in DOMAIN mem.byKey /\ mem.byKey[r.key].digest # Semantic(r)
<1>1. /\ host.phase = "idle" /\ UNCHANGED <<mem, disk, host, files>>
      /\ r.key \notin DOMAIN mem.pending
      /\ r.id \in DOMAIN mem.byRequest \/ r.key \in DOMAIN mem.byKey
  BY DEF CallJournaled, Receives, Journaled
<1>2. CASE r.id \in DOMAIN mem.byRequest /\ mem.byRequest[r.id].digest = r
  <2>1. mem.byKey[r.key].response = mem.byRequest[r.id].response /\ mem.byKey[r.key].digest = Semantic(r)
    BY <1>2, MirrorServes
  <2>2. Answer(r, TRUE, ServeJournaled(mem.byKey[r.key].response))
    BY <1>2, <2>1 DEF CallJournaled
  <2> QED  BY <1>1, <1>2, <2>1, <2>2, MirrorServes DEF Answer
<1>3. CASE r.id \in DOMAIN mem.byRequest /\ mem.byRequest[r.id].digest # r
  <2>1. Answer(r, FALSE, [outcome |-> "request_id_collision", sequence |-> mem.next])
    BY <1>3 DEF CallJournaled, Refuse
  <2> QED  BY <1>1, <1>3, <2>1 DEF Answer
<1>4. CASE r.id \notin DOMAIN mem.byRequest /\ mem.byKey[r.key].digest = Semantic(r)
  <2>1. Answer(r, TRUE, ServeJournaled(mem.byKey[r.key].response))
    BY <1>4 DEF CallJournaled
  <2> QED  BY <1>1, <1>4, <2>1 DEF Answer
<1>5. CASE r.id \notin DOMAIN mem.byRequest /\ mem.byKey[r.key].digest # Semantic(r)
  <2>1. Answer(r, FALSE, [outcome |-> "idempotency_key_collision", sequence |-> mem.next])
    BY <1>5 DEF CallJournaled, Refuse
  <2> QED  BY <1>1, <1>5, <2>1 DEF Answer
<1> QED  BY <1>2, <1>3, <1>4, <1>5

\* The answer that a commit gives is the journaled one.
LEMMA CommitIs ==
    ASSUME HostInv, Commit
    PROVE  LET r == host.request
               response == mem.byRequest[r.id].response
           IN  /\ host.phase \in {"refused", "journaled"} /\ host'.phase = "idle"
               /\ reply'.request = r
               /\ mem' = mem \/ mem' = Without(mem, r.key)
               /\ disk' = disk \/ disk' = Without(mem, r.key)
               /\ \/ answers' = answers
                  \/ /\ answers' = answers \cup {[request |-> r, response |-> response]}
                     /\ host.phase = "journaled"
                     /\ mem' = Without(mem, r.key) /\ disk' = Without(mem, r.key)
<1> DEFINE r == host.request
<1>1. PICK outcome \in PersistOutcomes :
        /\ Persist(Without(mem, r.key), outcome)
        /\ mem' = IF outcome = "ok" THEN Without(mem, r.key) ELSE mem
        /\ IF outcome # "ok" THEN Refuse(r, "durable_acknowledgement_failed")
           ELSE IF host.phase = "refused" THEN Refuse(r, host.outcome)
           ELSE Answer(r, TRUE, mem.byRequest[r.id].response)
  BY DEF Commit, Acknowledge
<1>2. host.phase \in {"refused", "journaled"} /\ host'.phase = "idle"
  BY DownIs DEF Commit, Acknowledge
<1>3. /\ disk' = disk \/ disk' = Without(mem, r.key)
      /\ outcome = "ok" => disk' = Without(mem, r.key)
  BY <1>1 DEF Persist
<1>4. CASE outcome # "ok" \/ host.phase = "refused"
  BY <1>1, <1>2, <1>3, <1>4 DEF Refuse, Answer
<1>5. CASE outcome = "ok" /\ host.phase = "journaled"
  BY <1>1, <1>2, <1>3, <1>5 DEF Answer
<1> QED  BY <1>2, <1>4, <1>5

LEMMA StableInvHolds == Spec => []StableInv
<1>1. Init => StableInv
  BY DownIs DEF Init, StableInv
<1>2. HostInv /\ OutcomeInv /\ StableInv /\ [Next]_vars => StableInv'
  <2> SUFFICES ASSUME HostInv, OutcomeInv, StableInv, [Next]_vars PROVE StableInv'
    OBVIOUS
  <2>0. Written(mem) /\ Written(disk)
    BY DEF HostInv
  <2> DEFINE key == host.request.key
             without == Without(mem, key)
  <2>1. CASE UNCHANGED <<mem, disk, host, answers>>
    BY <2>1 DEF StableInv, Synced, Backed
  <2>2. ASSUME NEW pid \in Pids, Start(pid) PROVE StableInv'
    <3>1. mem' = LoadDurable(disk) /\ disk' = disk /\ answers' = answers
      BY <2>2 DEF Start
    <3>2. mem'.byKey = disk.byKey /\ mem'.pending = disk.pending
      BY <3>1, <2>0, LoadDurableIs
    <3> QED  BY <3>1, <3>2 DEF StableInv, Synced, Backed
  <2>3. CASE Initialize \/ Initialized
    BY <2>3 DEF StableInv, Synced, Backed, Initialize, Initialized
  <2>5. ASSUME NEW r \in Requests, CallFresh(r) PROVE StableInv'
    <3>1. /\ (mem' = Marked(r) /\ disk' = Marked(r)) \/ mem' = mem
          /\ disk' = disk \/ disk' = Marked(r)
          /\ answers' = answers /\ host.phase = "idle"
      BY <2>5 DEF CallFresh, Persist, Receives, Refuse, Answer
    <3>2. r.key \notin DOMAIN mem.byKey
      BY <2>5 DEF CallFresh, Journaled
    <3>3. Marked(r).byKey = mem.byKey /\ DOMAIN Marked(r).pending = DOMAIN mem.pending \cup {r.key}
      BY <2>0, MarkedIs
    <3>4. \A a \in answers : Backed(Marked(r), a.request, a.response)
      BY <3>1, <3>2, <3>3 DEF StableInv, Backed
    <3>5. Synced'
      BY <3>1, <3>2, <3>3 DEF StableInv, Synced
    <3> QED  BY <3>1, <3>4, <3>5 DEF StableInv
  <2>6. CASE Delegate \/ CreateFile \/ FillFile \/ DelegateReturns
    <3>1. UNCHANGED <<mem, disk, answers>> /\ host.phase # "down"
      BY <2>6 DEF Delegate, CreateFile, WriteExactContent, FillFile, DelegateReturns
    <3> QED  BY <3>1 DEF StableInv, Synced, Backed
  <2>10. CASE JournalAnswer
    <3>1. /\ host.phase = "decided" /\ Numbered(host.request, mem.next + 1)
          /\ UNCHANGED <<disk, answers>>
      BY <2>10 DEF JournalAnswer, Numbered
    <3>2. host.request.id \notin DOMAIN mem.byRequest /\ key \notin DOMAIN mem.byKey /\ key \in DOMAIN mem.pending
      BY <3>1 DEF HostInv, Undecided, Working
    <3>3. /\ mem'.pending = mem.pending /\ DOMAIN mem'.byKey = DOMAIN mem.byKey \cup {key}
          /\ \A k \in DOMAIN mem.byKey : mem'.byKey[k] = mem.byKey[k]
      BY <2>0, <3>1, <3>2, NumberedIs
    <3>4. Synced'
      BY <3>1, <3>2, <3>3 DEF StableInv, Synced
    <3> QED  BY <3>1, <3>3, <3>4 DEF StableInv, Backed
  <2>11. without.byKey = mem.byKey /\ DOMAIN without.pending = DOMAIN mem.pending \ {key}
    BY <2>0, WithoutIs
  <2>12. CASE Commit
    <3>1. /\ mem' = mem \/ mem' = without
          /\ disk' = disk \/ disk' = without
          /\ host.phase \in {"refused", "journaled"}
      BY <2>12, CommitIs
    <3>2. \A a \in answers : Backed(without, a.request, a.response)
      BY <2>11, <3>1 DEF StableInv, Backed
    <3>3. CASE answers' = answers
      <4>1. Synced'
        <5>1. CASE mem' = mem
          BY <2>11, <3>1, <5>1 DEF StableInv, Synced
        <5>2. CASE mem' = without /\ disk' = without
          BY <5>2 DEF Synced
        <5>3. (mem' = mem) \/ (mem' = without /\ disk' = without)
          BY <2>12 DEF Commit, Acknowledge, Persist
        <5> QED  BY <5>1, <5>2, <5>3
      <4> QED  BY <3>1, <3>2, <3>3, <4>1 DEF StableInv
    <3>4. CASE answers' # answers
      <4> DEFINE r == host.request
      <4>1. /\ answers' = answers \cup {[request |-> r, response |-> mem.byRequest[r.id].response]}
            /\ host.phase = "journaled" /\ mem' = without /\ disk' = without
        BY <2>12, <3>4, CommitIs
      <4>2. r.id \in DOMAIN mem.byRequest /\ mem.byRequest[r.id].digest = r
        BY <4>1 DEF HostInv
      <4>3. Backed(without, r, ServeJournaled(mem.byRequest[r.id].response))
        BY <2>0, <2>11, <4>2, MirrorServes DEF Backed
      <4>4. ServeJournaled(mem.byRequest[r.id].response) = mem.byRequest[r.id].response
        BY <4>1 DEF HostInv, OutcomeInv, ServeJournaled, WireClaimViolation
      <4>5. Synced'
        BY <4>1 DEF Synced
      <4> QED  BY <3>2, <4>1, <4>3, <4>4, <4>5 DEF StableInv
    <3> QED  BY <3>3, <3>4
  <2>13. ASSUME NEW n \in Notifications, Publish(n) PROVE StableInv'
    <3>1. /\ host.phase = "idle" /\ host' = host /\ answers' = answers
          /\ disk' = disk \/ disk' = Published(n)
          /\ mem' = mem \/ (mem' = Published(n) /\ disk' = Published(n))
      BY <2>13 DEF Publish, Persist
    <3>2. Published(n).byKey = mem.byKey /\ Published(n).pending = mem.pending
      BY <2>0, PublishedIs
    <3>3. \A a \in answers : Backed(Published(n), a.request, a.response)
      BY <3>1, <3>2 DEF StableInv, Backed
    <3>4. Synced'
      BY <3>1, <3>2 DEF StableInv, Synced
    <3> QED  BY <3>1, <3>3, <3>4 DEF StableInv
  <2>14. CASE Crash
    <3>1. /\ host'.phase = "down" /\ answers' = answers
          /\ disk' = disk \/ (disk' = without /\ host.phase # "down")
      BY <2>14, DownIs DEF Crash
    <3> QED  BY <2>11, <3>1 DEF StableInv, Backed
  <2>15. ASSUME NEW r \in Requests, CallPending(r) PROVE UNCHANGED <<mem, disk, host, answers>>
    BY <2>15 DEF CallPending, Refuse, Answer
  <2>16. ASSUME NEW r \in Requests, CallJournaled(r) PROVE StableInv'
    <3>1. UNCHANGED <<mem, disk, host>> /\ host.phase = "idle"
      BY <2>0, <2>16, JournaledCall
    <3>2. CASE answers' = answers
      BY <2>1, <3>1, <3>2
    <3>3. CASE answers' # answers
      <4> DEFINE response == ServeJournaled(mem.byKey[r.key].response)
      <4>1. /\ r.key \in DOMAIN mem.byKey /\ r.key \notin DOMAIN mem.pending
            /\ mem.byKey[r.key].digest = Semantic(r)
            /\ answers' = answers \cup {[request |-> r, response |-> response]}
        BY <2>0, <2>16, <3>3, JournaledCall
      <4>2. Backed(mem, r, response) /\ Backed(disk, r, response)
        BY <3>1, <4>1 DEF StableInv, Synced, Backed
      <4> HIDE DEF response
      <4> QED  BY <3>1, <4>1, <4>2 DEF StableInv, Synced, Backed
    <3> QED  BY <3>2, <3>3
  <2>17. CASE Replay \/ AdvanceCase
    BY <2>1, <2>17 DEF Replay, AdvanceCase
  <2> QED
    BY <2>1, <2>2, <2>3, <2>5, <2>6, <2>10, <2>12, <2>13, <2>14, <2>15, <2>16, <2>17
       DEF Next, vars
<1> QED  BY <1>1, <1>2, HostInvHolds, OutcomeInvHolds, PTL DEF Spec

\* Once a request has been given a journaled answer it is given no other one: the same
\* answer again, or the refusal that its id has been used for another request since.
THEOREM AnswersAreStableHolds == Spec => AnswersAreStable
<1>1. HostInv /\ StableInv /\ [Next]_vars =>
        [\A a \in answers :
          reply' # reply /\ reply'.request = a.request =>
             \/ /\ reply'.journaled
                /\ reply'.outcome = a.response.outcome
                /\ reply'.sequence = a.response.sequence
             \/ ~reply'.journaled /\ reply'.outcome = "request_id_collision" /\ IdTaken(a.request)]_vars
  <2> SUFFICES ASSUME HostInv, StableInv, Next, NEW a \in answers,
                      reply' # reply, reply'.request = a.request
               PROVE  \/ /\ reply'.journaled
                         /\ reply'.outcome = a.response.outcome
                         /\ reply'.sequence = a.response.sequence
                      \/ /\ ~reply'.journaled /\ reply'.outcome = "request_id_collision"
                         /\ IdTaken(a.request)
    OBVIOUS
  <2>1. Written(mem)
    BY DEF HostInv
  <2>2. host.phase # "down" => Backed(mem, a.request, a.response)
    BY DEF StableInv
  <2>3. ASSUME NEW r \in Requests, CallPending(r) PROVE FALSE
    <3>1. host.phase = "idle" /\ r.key \in DOMAIN mem.pending /\ reply'.request = r
      BY <2>3 DEF CallPending, Receives, Refuse, Answer
    <3> QED  BY <2>2, <3>1 DEF Backed
  <2>4. ASSUME NEW r \in Requests, CallFresh(r) PROVE FALSE
    <3>1. host.phase = "idle" /\ r.key \notin DOMAIN mem.byKey
      BY <2>4 DEF CallFresh, Receives, Journaled
    <3>2. reply' = reply \/ reply'.request = r
      BY <2>4 DEF CallFresh, Refuse, Answer
    <3> QED  BY <2>2, <3>1, <3>2 DEF Backed
  <2>5. ASSUME NEW r \in Requests, CallJournaled(r)
        PROVE  \/ /\ reply'.journaled
                  /\ reply'.outcome = a.response.outcome
                  /\ reply'.sequence = a.response.sequence
               \/ /\ ~reply'.journaled /\ reply'.outcome = "request_id_collision"
                  /\ IdTaken(a.request)
    <3>1. reply'.request = r /\ host.phase = "idle"
      BY <2>1, <2>5, JournaledCall
    <3>2. /\ r.key \in DOMAIN mem.byKey /\ r.key \notin DOMAIN mem.pending
          /\ mem.byKey[r.key].digest = Semantic(r)
          /\ ServeJournaled(mem.byKey[r.key].response) = a.response
      BY <2>2, <3>1 DEF Backed
    <3> QED  BY <2>1, <2>5, <3>1, <3>2, JournaledCall DEF IdTaken
  <2>6. CASE Commit
    <3>1. host.phase \in {"refused", "journaled"} /\ reply'.request = host.request
      BY <2>6, CommitIs
    <3>2. host.request.key \in DOMAIN mem.pending
      BY <3>1 DEF HostInv, Working, Undecided
    <3> QED  BY <2>2, <3>1, <3>2 DEF Backed
  <2>7. ASSUME \/ \E pid \in Pids : Start(pid)
               \/ Initialize \/ Initialized \/ Delegate \/ CreateFile \/ FillFile
               \/ DelegateReturns \/ JournalAnswer \/ Replay \/ Crash \/ AdvanceCase
               \/ \E n \in Notifications : Publish(n)
        PROVE  reply' = reply
    BY <2>7 DEF Start, Initialize, Initialized, Delegate, CreateFile, WriteExactContent, FillFile,
                DelegateReturns, JournalAnswer, Numbered, Publish, Replay, Crash, AdvanceCase
  <2> QED  BY <2>3, <2>4, <2>5, <2>6, <2>7 DEF Next
<1> QED  BY <1>1, HostInvHolds, StableInvHolds, PTL DEF Spec, AnswersAreStable

LEMMA ServedIsTruthful ==
    ASSUME NEW e, IsResponse(e)
    PROVE  ServeJournaled(e).outcome # "false_claim"
BY DEF IsResponse, ServeJournaled, WireClaimViolation

LEMMA ServedClaimsHold == Spec => []ServedClaimsAreTruthful
<1>1. Init => ServedClaimsAreTruthful
  BY DEF Init, ServedClaimsAreTruthful
<1>2. HostInv /\ OutcomeInv /\ ServedClaimsAreTruthful /\ [Next]_vars => ServedClaimsAreTruthful'
  <2> SUFFICES ASSUME HostInv, OutcomeInv, ServedClaimsAreTruthful, [Next]_vars
               PROVE  ServedClaimsAreTruthful'
    OBVIOUS
  <2> USE DEF ServedClaimsAreTruthful
  <2>1. CASE UNCHANGED <<answers, seen>>
    BY <2>1
  <2>2. Written(mem) /\ \A e \in Entries(mem) : IsResponse(e)
    BY DEF HostInv, Written
  <2>3. ASSUME NEW r \in Requests, CallJournaled(r) PROVE ServedClaimsAreTruthful'
    <3>1. seen' = seen
      BY <2>3 DEF CallJournaled
    <3>2. CASE answers' = answers
      BY <3>1, <3>2
    <3>3. CASE answers' # answers
      <4> DEFINE response == ServeJournaled(mem.byKey[r.key].response)
      <4>1. /\ r.key \in DOMAIN mem.byKey
            /\ answers' = answers \cup {[request |-> r, response |-> response]}
        BY <2>2, <2>3, <3>3, JournaledCall
      <4>2. PICK i \in DOMAIN mem.byRequest : mem.byRequest[i].digest.key = r.key
        BY <2>2, <4>1 DEF Written, Mirrored
      <4>3. mem.byKey[r.key].response = mem.byRequest[i].response
        <5>1. mem.byKey[mem.byRequest[i].digest.key] =
                [digest |-> Semantic(mem.byRequest[i].digest), response |-> mem.byRequest[i].response]
          BY <2>2 DEF Written, Mirrored
        <5> QED  BY <4>2, <5>1
      <4>4. IsResponse(mem.byKey[r.key].response)
        BY <2>2, <4>3 DEF Entries
      <4>5. response.outcome # "false_claim"
        BY <4>4, ServedIsTruthful
      <4> HIDE DEF response
      <4> QED  BY <3>1, <4>1, <4>5
    <3> QED  BY <3>2, <3>3
  <2>4. CASE Commit
    <3>1. seen' = seen
      BY <2>4 DEF Commit, Acknowledge
    <3>2. \/ answers' = answers
          \/ /\ host.phase = "journaled"
             /\ answers' = answers \cup {[request |-> host.request,
                                        response |-> mem.byRequest[host.request.id].response]}
      BY <2>4, CommitIs
    <3>3. host.phase = "journaled" => mem.byRequest[host.request.id].response.outcome # "false_claim"
      BY DEF HostInv, OutcomeInv
    <3> QED  BY <3>1, <3>2, <3>3
  <2>5. CASE Replay
    <3>1. answers' = answers /\ seen' = seen \cup ReplayAfter(mem, cursor)
      BY <2>5 DEF Replay
    <3>2. \A e \in ReplayAfter(mem, cursor) : e.outcome # "false_claim"
      BY <2>2, ServedIsTruthful DEF ReplayAfter
    <3> QED  BY <3>1, <3>2
  <2>6. ASSUME \/ \E pid \in Pids : Start(pid)
               \/ Initialize \/ Initialized \/ Delegate \/ CreateFile \/ FillFile
               \/ DelegateReturns \/ JournalAnswer \/ Crash \/ AdvanceCase
               \/ \E n \in Notifications : Publish(n)
               \/ \E r \in Requests : CallPending(r) \/ CallFresh(r)
               \/ UNCHANGED vars
        PROVE  UNCHANGED <<answers, seen>>
    BY <2>6 DEF Start, Initialize, Initialized, Delegate, CreateFile, WriteExactContent, FillFile,
                DelegateReturns, JournalAnswer, Numbered, Publish, Crash, AdvanceCase,
                CallPending, CallFresh, Refuse, Answer, vars
  <2> QED  BY <2>1, <2>3, <2>4, <2>5, <2>6 DEF Next
<1> QED  BY <1>1, <1>2, HostInvHolds, OutcomeInvHolds, PTL DEF Spec

\* The host starts on every journal it wrote, and nothing it serves from one, by retry or by
\* cursor, claims what only a review may claim, whichever build wrote the journal.
THEOREM ReplaysAreSoundHolds == Spec => []ReplaysAreSound
<1>1. HostInv /\ ServedClaimsAreTruthful => ReplaysAreSound
  BY DEF HostInv, Written, ReplaysAreSound, OwnJournalLoads
<1> QED  BY <1>1, HostInvHolds, ServedClaimsHold, PTL

---------------------------------------------------------------------------
(* A file that is whole stays whole, and "result" is journaled only after   *)
(* every file of the request was written or found to be.                    *)

AllWhole(r) == \A i \in DOMAIN FilesOf(r) : Whole(FilesOf(r)[i])

\* Whatever the journal reports is there.
Substantiated(s) ==
    \A k \in DOMAIN s.byKey : s.byKey[k].response.outcome = "result" => AllWhole(s.byKey[k].digest)

FilesInv ==
    /\ files = [f \in DOMAIN files |-> files[f]]
    /\ Substantiated(mem) /\ Substantiated(disk)
    /\ ReportedFilesAreWhole
    /\ host.phase \in {"effect", "filling"} =>
          /\ host.todo \in Seq(Range(FilesOf(host.request)))
          /\ \A f \in Range(FilesOf(host.request)) : Whole(f) \/ f \in Range(host.todo)
    /\ host.phase = "filling" => host.todo # <<>> /\ Head(host.todo) \in DOMAIN files
    /\ host.phase = "decided" /\ host.outcome = "result" => AllWhole(host.request)

LEMMA SameFiles == ASSUME NEW r PROVE FilesOf(Semantic(r)) = FilesOf(r)
<1>1. Semantic(r).tool = r.tool /\ Semantic(r).payload = r.payload
  BY DEF Semantic
<1> QED  BY <1>1 DEF FilesOf

LEMMA FilesOfIsSeq == ASSUME NEW r PROVE FilesOf(r) \in Seq(Range(FilesOf(r)))
<1>1. CASE r.tool = "attach_runtime_report"
  BY <1>1 DEF FilesOf, Range
<1>2. CASE r.tool \in {"compile_deployment_bundle", "compile_reviewed_deployment_bundle"}
  BY <1>2 DEF FilesOf, Range
<1>3. CASE r.tool \notin {"attach_runtime_report", "compile_deployment_bundle",
                        "compile_reviewed_deployment_bundle"}
  BY <1>3 DEF FilesOf, Range
<1> QED  BY <1>1, <1>2, <1>3

LEMMA HeadAndTail ==
    ASSUME NEW S, NEW q \in Seq(S), q # <<>>
    PROVE  /\ Tail(q) \in Seq(S) /\ Head(q) \in S
           /\ \A f \in Range(q) : f = Head(q) \/ f \in Range(Tail(q))
<1>1. Tail(q) \in Seq(S) /\ Head(q) \in S
  OBVIOUS
<1>2. ASSUME NEW f \in Range(q), f # Head(q) PROVE f \in Range(Tail(q))
  <2>1. PICK i \in 1 .. Len(q) : f = q[i]
    BY DEF Range
  <2>2. i # 1
    BY <1>2, <2>1
  <2>3. i - 1 \in 1 .. Len(Tail(q)) /\ Tail(q)[i - 1] = q[i]
    BY <2>1, <2>2
  <2>4. DOMAIN Tail(q) = 1 .. Len(Tail(q))
    BY <1>1
  <2> QED  BY <2>1, <2>3, <2>4 DEF Range
<1> QED  BY <1>1, <1>2

LEMMA WholeGrows ==
    ASSUME FilesInv, [Next]_vars
    PROVE  /\ \A f : Whole(f) => Whole(f)'
           /\ DOMAIN files \subseteq DOMAIN files'
           /\ files' = [f \in DOMAIN files' |-> files'[f]]
<1>0. files = [f \in DOMAIN files |-> files[f]]
  BY DEF FilesInv
<1>1. CASE files' = files
  BY <1>0, <1>1 DEF Whole
<1>2. CASE CreateFile
  <2>1. files' = files \/ (\E f : f \notin DOMAIN files /\ files' = With(files, f, "torn"))
    BY <1>2 DEF CreateFile, WriteExactContent
  <2> QED  BY <1>1, <2>1 DEF Whole, With
<1>3. CASE FillFile
  <2>1. \E f : files' = [files EXCEPT ![f] = "whole"] \/ files' = files
    BY <1>3 DEF FillFile
  <2> QED  BY <1>0, <2>1 DEF Whole
<1>4. ASSUME \/ \E pid \in Pids : Start(pid)
             \/ Initialize \/ Initialized \/ Delegate \/ DelegateReturns \/ JournalAnswer \/ Crash
             \/ AdvanceCase \/ Replay \/ Commit
             \/ \E n \in Notifications : Publish(n)
             \/ \E r \in Requests : CallPending(r) \/ CallFresh(r) \/ CallJournaled(r)
             \/ UNCHANGED vars
      PROVE  files' = files
  BY <1>4 DEF Start, Initialize, Initialized, Delegate, DelegateReturns, JournalAnswer, Numbered,
              Publish, Crash, AdvanceCase, Replay, Commit, Acknowledge, CallPending, CallFresh,
              CallJournaled, vars
<1> QED  BY <1>1, <1>2, <1>3, <1>4 DEF Next

LEMMA FilesInvHolds == Spec => []FilesInv
<1>1. Init => FilesInv
  <2> SUFFICES ASSUME Init PROVE FilesInv
    OBVIOUS
  <2>1. files = [f \in ReportedFiles(disk) |-> "whole"] /\ mem = Empty /\ host = Down /\ answers = {}
    BY DEF Init
  <2>2. Written(disk)
    BY EmptyIsWritten, OlderJournalIsWritten DEF Init
  <2>3. Substantiated(disk)
    <3> SUFFICES ASSUME NEW k \in DOMAIN disk.byKey, disk.byKey[k].response.outcome = "result"
                 PROVE  AllWhole(disk.byKey[k].digest)
      BY DEF Substantiated
    <3>1. PICK i \in DOMAIN disk.byRequest : disk.byRequest[i].digest.key = k
      BY <2>2 DEF Written, Mirrored
    <3>2. disk.byKey[disk.byRequest[i].digest.key] =
            [digest |-> Semantic(disk.byRequest[i].digest), response |-> disk.byRequest[i].response]
      BY <2>2 DEF Written, Mirrored
    <3>3. /\ disk.byKey[k].digest = Semantic(disk.byRequest[i].digest)
          /\ disk.byRequest[i].response.outcome = "result"
      BY <3>1, <3>2
    <3>4. Range(FilesOf(disk.byRequest[i].digest)) \subseteq DOMAIN files
      BY <2>1, <3>3 DEF ReportedFiles
    <3> DEFINE d == disk.byRequest[i].digest
    <3> HIDE DEF d
    <3>5. AllWhole(d)
      BY <2>1, <3>4 DEF AllWhole, Whole, Range, d
    <3>6. AllWhole(Semantic(d))
      BY <3>5, SameFiles DEF AllWhole
    <3> QED  BY <3>3, <3>6 DEF d
  <2>4. Substantiated(mem)
    BY <2>1 DEF Substantiated, Empty
  <2> QED  BY <2>1, <2>3, <2>4, DownIs DEF FilesInv, ReportedFilesAreWhole
<1>2. HostInv /\ FilesInv /\ [Next]_vars => FilesInv'
  <2> SUFFICES ASSUME HostInv, FilesInv, [Next]_vars PROVE FilesInv'
    OBVIOUS
  <2>0. /\ Written(mem) /\ Written(disk)
        /\ host = [x \in {"phase", "pid", "request", "todo", "outcome"} |-> host[x]]
    BY DEF HostInv
  <2> DEFINE r == host.request
             wanted == Range(FilesOf(r))
             key == r.key
  <2>1. (\A f : Whole(f) => Whole(f)') /\ DOMAIN files \subseteq DOMAIN files' /\ files' = [f \in DOMAIN files' |-> files'[f]]
    BY WholeGrows
  <2>2. \A x : AllWhole(x) => AllWhole(x)'
    BY <2>1 DEF AllWhole
  <2>3. mem'.byKey = mem.byKey => Substantiated(mem)'
    BY <2>2 DEF FilesInv, Substantiated
  <2>4. disk'.byKey = disk.byKey \/ disk'.byKey = mem.byKey => Substantiated(disk)'
    BY <2>2 DEF FilesInv, Substantiated
  <2>5. answers' = answers => ReportedFilesAreWhole'
    BY <2>1 DEF FilesInv, ReportedFilesAreWhole
  <2>6. ASSUME Substantiated(mem)', Substantiated(disk)', ReportedFilesAreWhole',
               UNCHANGED <<host>> \/ host'.phase \notin {"effect", "filling", "decided"}
        PROVE  FilesInv'
    <3>1. CASE UNCHANGED host
      BY <2>1, <2>2, <2>6, <3>1 DEF FilesInv
    <3>2. CASE host'.phase \notin {"effect", "filling", "decided"}
      BY <2>1, <2>6, <3>2 DEF FilesInv
    <3> QED  BY <2>6, <3>1, <3>2
  <2>7. ASSUME NEW pid \in Pids, Start(pid) PROVE FilesInv'
    <3>1. mem' = LoadDurable(disk) /\ disk' = disk /\ answers' = answers /\ host'.phase = "new"
      BY <2>7, DownIs DEF Start
    <3>2. mem'.byKey = disk.byKey
      BY <2>0, <3>1, LoadDurableIs
    <3>3. Substantiated(mem)'
      BY <2>2, <3>2 DEF FilesInv, Substantiated
    <3> QED  BY <2>4, <2>5, <2>6, <3>1, <3>3
  <2>8. CASE Initialize \/ Initialized
    <3>1. UNCHANGED <<mem, disk, answers>> /\ host'.phase \in {"initialize_completed", "idle"}
      BY <2>0, <2>8 DEF Initialize, Initialized
    <3> QED  BY <2>3, <2>4, <2>5, <2>6, <3>1
  <2>9. ASSUME NEW q \in Requests, CallFresh(q) PROVE FilesInv'
    <3>1. /\ mem' = mem \/ mem' = Marked(q)
          /\ disk' = disk \/ disk' = Marked(q)
          /\ answers' = answers
          /\ UNCHANGED host \/ host'.phase = "marked"
      BY <2>0, <2>9 DEF CallFresh, Persist, Refuse, Answer
    <3>2. Marked(q).byKey = mem.byKey
      BY <2>0, MarkedIs
    <3> QED  BY <2>3, <2>4, <2>5, <2>6, <3>1, <3>2
  <2>10. CASE Delegate
    <3>1. UNCHANGED <<mem, disk, answers, files>>
      BY <2>10 DEF Delegate
    <3>2. CASE host'.phase = "refused"
      BY <2>3, <2>4, <2>5, <2>6, <3>1, <3>2
    <3>3. CASE host'.phase = "effect" /\ host'.todo = FilesOf(r) /\ host'.request = r
      <4>1. host'.todo \in Seq(Range(FilesOf(host'.request)))
        BY <3>3, FilesOfIsSeq
      <4> QED  BY <2>1, <2>3, <2>4, <2>5, <3>1, <3>3, <4>1 DEF FilesInv
    <3>4. CASE host'.phase = "decided" /\ host'.outcome = Verdict(r)
      <4>1. host'.outcome # "result"
        BY <3>4, VerdictIsNoClaim
      <4> QED  BY <2>1, <2>3, <2>4, <2>5, <3>1, <3>4, <4>1 DEF FilesInv
    <3> QED  BY <2>0, <2>10, <3>2, <3>3, <3>4 DEF Delegate
  <2>11. CASE CreateFile
    <3> DEFINE f == Head(host.todo)
    <3>1. UNCHANGED <<mem, disk, answers>> /\ host.phase = "effect" /\ host.todo # <<>>
      BY <2>11 DEF CreateFile, WriteExactContent
    <3>2. host.todo \in Seq(wanted) /\ \A g \in wanted : Whole(g) \/ g \in Range(host.todo)
      BY <3>1 DEF FilesInv
    <3>3. CASE f \notin DOMAIN files
      <4>1. files' = With(files, f, "torn") /\ host' = [host EXCEPT !.phase = "filling"]
        BY <2>11, <3>3 DEF CreateFile, WriteExactContent
      <4>2. host'.phase = "filling" /\ host'.todo = host.todo /\ host'.request = r
        BY <2>0, <4>1
      <4>3. f \in DOMAIN files'
        BY <4>1 DEF With
      <4> QED  BY <2>1, <2>3, <2>4, <2>5, <3>1, <3>2, <4>2, <4>3 DEF FilesInv
    <3>4. CASE f \in DOMAIN files /\ Whole(f)
      <4>1. host' = [host EXCEPT !.todo = Tail(@)] /\ files' = files
        BY <2>11, <3>4 DEF CreateFile, WriteExactContent
      <4>2. host'.phase = "effect" /\ host'.todo = Tail(host.todo) /\ host'.request = r
        BY <2>0, <3>1, <4>1
      <4>3. /\ Tail(host.todo) \in Seq(wanted)
            /\ \A g \in wanted : Whole(g) \/ g \in Range(Tail(host.todo))
        BY <3>1, <3>2, <3>4, HeadAndTail
      <4> QED  BY <2>1, <2>3, <2>4, <2>5, <3>1, <4>2, <4>3 DEF FilesInv
    <3>5. CASE f \in DOMAIN files /\ ~Whole(f)
      <4>1. host'.phase = "decided" /\ host'.outcome = "content_address_collision"
        BY <2>0, <2>11, <3>5 DEF CreateFile, WriteExactContent
      <4> QED  BY <2>1, <2>3, <2>4, <2>5, <3>1, <4>1 DEF FilesInv
    <3> QED  BY <3>3, <3>4, <3>5
  <2>12. CASE FillFile
    <3> DEFINE f == Head(host.todo)
    <3>1. UNCHANGED <<mem, disk, answers>> /\ host.phase = "filling"
      BY <2>12 DEF FillFile
    <3>2. /\ host.todo \in Seq(wanted) /\ host.todo # <<>> /\ f \in DOMAIN files
          /\ \A g \in wanted : Whole(g) \/ g \in Range(host.todo)
      BY <3>1 DEF FilesInv
    <3>3. CASE files' = [files EXCEPT ![f] = "whole"] /\ host' = [host EXCEPT !.phase = "effect", !.todo = Tail(@)]
      <4>1. host'.phase = "effect" /\ host'.todo = Tail(host.todo) /\ host'.request = r
        BY <2>0, <3>3
      <4>2. \A g : g = f => Whole(g)'
        BY <3>2, <3>3 DEF Whole
      <4>3. /\ Tail(host.todo) \in Seq(wanted)
            /\ \A g \in wanted : Whole(g) \/ g = f \/ g \in Range(Tail(host.todo))
        BY <3>2, HeadAndTail
      <4> QED  BY <2>1, <2>3, <2>4, <2>5, <3>1, <4>1, <4>2, <4>3 DEF FilesInv
    <3>4. CASE host'.phase = "decided" /\ host'.outcome = "host_io_error"
      BY <2>1, <2>3, <2>4, <2>5, <3>1, <3>4 DEF FilesInv
    <3> QED  BY <2>0, <2>12, <3>3, <3>4 DEF FillFile
  <2>13. CASE DelegateReturns
    <3>1. UNCHANGED <<mem, disk, answers>> /\ host.phase = "effect" /\ host.todo = <<>>
      BY <2>13 DEF DelegateReturns
    <3>2. AllWhole(r)
      <4>1. \A f \in wanted : Whole(f)
        BY <3>1 DEF FilesInv, Range
      <4> QED  BY <4>1 DEF AllWhole, Range
    <3>3. host'.phase = "decided" /\ host'.request = r
      BY <2>0, <2>13 DEF DelegateReturns
    <3> QED  BY <2>1, <2>2, <2>3, <2>4, <2>5, <3>1, <3>2, <3>3 DEF FilesInv
  <2>14. CASE JournalAnswer
    <3>1. /\ host.phase = "decided" /\ Numbered(r, mem.next + 1) /\ UNCHANGED <<disk, answers>>
          /\ host'.phase = "journaled"
      BY <2>0, <2>14 DEF JournalAnswer, Numbered
    <3>2. r.id \notin DOMAIN mem.byRequest /\ key \notin DOMAIN mem.byKey
      BY <3>1 DEF HostInv, Undecided
    <3>3. /\ DOMAIN mem'.byKey = DOMAIN mem.byKey \cup {key}
          /\ mem'.byKey[key] = [digest |-> Semantic(r),
                               response |-> [sequence |-> mem.next + 1, outcome |-> host.outcome]]
          /\ \A k \in DOMAIN mem.byKey : mem'.byKey[k] = mem.byKey[k]
      BY <2>0, <3>1, <3>2, NumberedIs
    <3>4. mem'.byKey[key].digest = Semantic(r) /\ mem'.byKey[key].response.outcome = host.outcome
      BY <3>3
    <3>5. host.outcome = "result" => AllWhole(Semantic(r))
      BY <3>1, SameFiles DEF FilesInv, AllWhole
    <3>6. Substantiated(mem)'
      BY <2>2, <3>3, <3>4, <3>5 DEF FilesInv, Substantiated
    <3> QED  BY <2>4, <2>5, <2>6, <3>1, <3>6
  <2>15. CASE Commit
    <3>1. /\ mem' = mem \/ mem' = Without(mem, key)
          /\ disk' = disk \/ disk' = Without(mem, key)
          /\ host'.phase = "idle"
      BY <2>15, CommitIs
    <3>2. Without(mem, key).byKey = mem.byKey
      BY <2>0, WithoutIs
    <3>3. ReportedFilesAreWhole'
      <4>1. CASE answers' = answers
        BY <2>5, <4>1
      <4>2. CASE answers' # answers
        <5> DEFINE response == mem.byRequest[r.id].response
        <5>1. answers' = answers \cup {[request |-> r, response |-> response]} /\ host.phase = "journaled"
          BY <2>15, <4>2, CommitIs
        <5>2. r.id \in DOMAIN mem.byRequest /\ mem.byRequest[r.id].digest = r
          BY <5>1 DEF HostInv
        <5>3. key \in DOMAIN mem.byKey /\ mem.byKey[key].digest = Semantic(r) /\ mem.byKey[key].response = response
          BY <2>0, <5>2, MirrorServes
        <5> HIDE DEF response
        <5>4. PICK q, given : q = r /\ given = response
          OBVIOUS
        <5>5. given.outcome = "result" => AllWhole(q)'
          <6>1. given.outcome = "result" => AllWhole(Semantic(q))
            BY <5>3, <5>4 DEF FilesInv, Substantiated
          <6>2. AllWhole(Semantic(q)) => AllWhole(q)
            BY SameFiles DEF AllWhole
          <6> QED  BY <2>2, <6>1, <6>2
        <5> QED  BY <2>1, <5>1, <5>4, <5>5 DEF FilesInv, ReportedFilesAreWhole, AllWhole
      <4> QED  BY <4>1, <4>2
    <3> QED  BY <2>3, <2>4, <2>6, <3>1, <3>2, <3>3
  <2>16. ASSUME NEW n \in Notifications, Publish(n) PROVE FilesInv'
    <3>1. /\ UNCHANGED <<host, answers>>
          /\ mem' = mem \/ mem' = Published(n)
          /\ disk' = disk \/ disk' = Published(n)
      BY <2>16 DEF Publish, Persist
    <3>2. Published(n).byKey = mem.byKey
      BY <2>0, PublishedIs
    <3> QED  BY <2>3, <2>4, <2>5, <2>6, <3>1, <3>2
  <2>17. CASE Crash
    <3>1. /\ answers' = answers /\ mem' = Empty /\ host'.phase = "down"
          /\ disk' = disk \/ disk' = Without(mem, key)
      BY <2>17, DownIs DEF Crash
    <3>2. Without(mem, key).byKey = mem.byKey
      BY <2>0, WithoutIs
    <3>3. Substantiated(mem)'
      BY <3>1 DEF Substantiated, Empty
    <3> QED  BY <2>4, <2>5, <2>6, <3>1, <3>2, <3>3
  <2>18. ASSUME NEW q \in Requests, CallPending(q) PROVE FilesInv'
    <3>1. UNCHANGED <<mem, disk, host, answers>>
      BY <2>18 DEF CallPending, Refuse, Answer
    <3> QED  BY <2>3, <2>4, <2>5, <2>6, <3>1
  <2>19. ASSUME NEW q \in Requests, CallJournaled(q) PROVE FilesInv'
    <3> DEFINE response == mem.byKey[q.key].response
    <3>1. UNCHANGED <<mem, disk, host>>
      BY <2>0, <2>19, JournaledCall
    <3>2. CASE answers' = answers
      BY <2>3, <2>4, <2>5, <2>6, <3>1, <3>2
    <3>3. CASE answers' # answers
      <4>1. /\ q.key \in DOMAIN mem.byKey /\ mem.byKey[q.key].digest = Semantic(q)
            /\ answers' = answers \cup {[request |-> q, response |-> ServeJournaled(response)]}
        BY <2>0, <2>19, <3>3, JournaledCall
      <4>2. response.outcome = "result" => AllWhole(q)
        BY <4>1, SameFiles DEF FilesInv, Substantiated, AllWhole
      <4>3. ServeJournaled(response).outcome = "result" => response.outcome = "result"
        <5>1. CASE response.outcome # "false_claim"
          BY <5>1 DEF ServeJournaled, WireClaimViolation
        <5>2. CASE response.outcome = "false_claim"
          BY <5>2 DEF ServeJournaled, WireClaimViolation
        <5> QED  BY <5>1, <5>2
      <4> HIDE DEF response
      <4>4. ReportedFilesAreWhole'
        BY <2>1, <2>2, <4>1, <4>2, <4>3 DEF FilesInv, ReportedFilesAreWhole, AllWhole
      <4> QED  BY <2>3, <2>4, <2>6, <3>1, <4>4
    <3> QED  BY <3>2, <3>3
  <2>20. CASE Replay \/ AdvanceCase \/ UNCHANGED vars
    <3>1. UNCHANGED <<mem, disk, host, answers>>
      BY <2>20 DEF Replay, AdvanceCase, vars
    <3> QED  BY <2>3, <2>4, <2>5, <2>6, <3>1
  <2> QED
    BY <2>7, <2>8, <2>9, <2>10, <2>11, <2>12, <2>13, <2>14, <2>15, <2>16, <2>17, <2>18, <2>19, <2>20
       DEF Next
<1> QED  BY <1>1, <1>2, HostInvHolds, PTL DEF Spec

\* No answer reports a record or a bundle while one of its files is torn or missing.
THEOREM ReportedFilesAreWholeHolds == Spec => []ReportedFilesAreWhole
<1>1. FilesInv => ReportedFilesAreWhole
  BY DEF FilesInv
<1> QED  BY <1>1, FilesInvHolds, PTL
===========================================================================
