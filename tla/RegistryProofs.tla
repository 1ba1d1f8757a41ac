--------------------------- MODULE RegistryProofs ---------------------------
(***************************************************************************)
(* Proofs about Registry, for every set of requests, cores, ids and times  *)
(* and any number of failed writes and restarts: the cores of a site stay  *)
(* apart, an acknowledged batch is kept, and a listing goes through the    *)
(* batches in order and misses none, however the store changes between its *)
(* pages and whatever their size.                                          *)
(***************************************************************************)
EXTENDS Registry, LeastElements

-----------------------------------------------------------------------------
(* The invariant *)

\* The batch of an answer, whatever has happened to it since.
Kept(a, s) ==
    \E b \in s.batches :
        [b EXCEPT !.draft = TRUE] = NewBatch(a.request, a.id, a.created)

\* The cores of one site are apart.
Apart(s) ==
    \A b, c \in s.batches : b # c /\ b.site = c.site => ~Conflict(b, c)

\* The answers somebody knows or may still be told.
Told == creating \cup acked \cup memory.answers \cup disk.answers

StoreInv ==
    /\ memory \in Snapshot
    /\ disk \in Snapshot
    /\ creating \subseteq Answer
    /\ acked \subseteq Answer
    /\ faults \in 0..MaxFaults

\* What the file has to keep it must keep now, for a restart may come next: a
\* batch is in both stores before its creation is answered.
RegistryInv ==
    /\ StoreInv
    /\ Apart(memory) /\ Apart(disk)
    /\ \A a \in Told : Kept(a, memory) /\ Kept(a, disk)

\* The stores begin empty.
LEMMA RegistryInit == Init => RegistryInv
<1> SUFFICES ASSUME Init PROVE RegistryInv
  OBVIOUS
<1>1. memory \in Snapshot /\ disk \in Snapshot
  BY DEF Init, Snapshot
<1>2. faults \in 0..MaxFaults
  BY NumberAssumption DEF Init
<1> QED BY <1>1, <1>2 DEF Init, RegistryInv, StoreInv, Apart, Told

-----------------------------------------------------------------------------
(* What a step does to the batches *)

\* Every batch of s is still in t, and may have left the status draft.
Carries(s, t) ==
    \A b \in s.batches :
        \E c \in t.batches : [c EXCEPT !.draft = TRUE] = [b EXCEPT !.draft = TRUE]

\* Nothing a client was told of is lost where every batch is carried on.
LEMMA KeptIsCarried ==
    ASSUME NEW s, NEW t, Carries(s, t), NEW a, Kept(a, s)
    PROVE  Kept(a, t)
BY DEF Carries, Kept

\* What a creation stores is a batch, apart from the others of its site.
LEMMA CreationIsApart ==
    ASSUME RegistryInv, NEW r \in Request, NEW id \in ID, NEW now \in Time,
           Parses(body[r]), Free(id),
           \A c \in Rivals(NewBatch(r, id, now)) :
               ~Conflict(NewBatch(r, id, now), c),
           NEW s, s = [memory EXCEPT !.batches = Stored(NewBatch(r, id, now))]
    PROVE  /\ s \in Snapshot
           /\ Apart(s)
           /\ Carries(memory, s)
           /\ s.answers = memory.answers
           /\ NewBatch(r, id, now) \in s.batches
<1> DEFINE b == NewBatch(r, id, now)
<1>1. body[r] \in BodyShape
  BY BodyAssumption
<1>2. [top |-> body[r].top, bottom |-> body[r].bottom] \in Interval
  BY <1>1 DEF BodyShape, Interval, Parses
<1>3. b \in Batch
  BY <1>1, <1>2, NormalAssumption DEF NewBatch, Batch, BodyShape
<1>4. b.id = id
  BY DEF NewBatch
<1>5. memory \in Snapshot /\ memory.batches \subseteq Batch
  BY DEF RegistryInv, StoreInv, Snapshot
<1> HIDE DEF b
<1>6. Stored(b) = memory.batches \cup {b}
  BY <1>4 DEF Stored, Free
<1>7. /\ s.batches = memory.batches \cup {b}
      /\ s.answers = memory.answers
      /\ s \in Snapshot
  BY <1>3, <1>5, <1>6 DEF Snapshot, b
<1>8. \A c \in memory.batches : c.site = b.site => ~Conflict(b, c) /\ ~Conflict(c, b)
  BY DEF Rivals, Conflict, Overlap, b
<1>9. Apart(s)
  BY <1>7, <1>8 DEF Apart, RegistryInv
<1>10. Carries(memory, s)
  BY <1>7 DEF Carries
<1> QED BY <1>7, <1>9, <1>10 DEF b

\* A batch that moves on stays where it is.
LEMMA AdvanceKeepsApart ==
    ASSUME RegistryInv, NEW b \in memory.batches,
           NEW s, s = [memory EXCEPT !.batches =
                         (memory.batches \ {b}) \cup {[b EXCEPT !.draft = FALSE]}]
    PROVE  /\ s \in Snapshot
           /\ Apart(s)
           /\ Carries(memory, s)
           /\ s.answers = memory.answers
<1> DEFINE moved == [b EXCEPT !.draft = FALSE]
<1>1. memory \in Snapshot /\ memory.batches \subseteq Batch
  BY DEF RegistryInv, StoreInv, Snapshot
<1>2. b \in Batch
  BY <1>1
<1>3. /\ moved \in Batch
      /\ moved.site = b.site /\ moved.code = b.code /\ moved.depth = b.depth
      /\ [moved EXCEPT !.draft = TRUE] = [b EXCEPT !.draft = TRUE]
  BY <1>2 DEF Batch
<1> HIDE DEF moved
<1>4. /\ s.batches = (memory.batches \ {b}) \cup {moved}
      /\ s.answers = memory.answers
      /\ s \in Snapshot
  BY <1>1, <1>3 DEF Snapshot, moved
<1>5. \A c \in memory.batches \ {b} :
          c.site = moved.site => ~Conflict(c, moved) /\ ~Conflict(moved, c)
  BY <1>3 DEF RegistryInv, Apart, Conflict
<1>6. Apart(s)
  BY <1>4, <1>5 DEF RegistryInv, Apart
<1>7. Carries(memory, s)
  BY <1>3, <1>4 DEF Carries
<1> QED BY <1>4, <1>6, <1>7

-----------------------------------------------------------------------------
(* The steps *)

\* A write of memory that keeps what is there keeps the invariant, whether or
\* not it reaches the file; answers may be added if it does for their batch.
LEMMA WriteStep ==
    ASSUME RegistryInv, Persisted \/ FailedToPersist,
           memory' \in Snapshot, Apart(memory'), Carries(memory, memory'),
           creating' \subseteq Answer, acked' \subseteq Answer,
           \A a \in creating' \cup acked' \cup memory'.answers :
               a \in Told \/ (disk' = memory' /\ Kept(a, memory'))
    PROVE  RegistryInv'
<1>1. /\ disk' = memory' \/ disk' = disk
      /\ faults' \in 0..MaxFaults
  BY NumberAssumption DEF Persisted, FailedToPersist, RegistryInv, StoreInv
<1>2. StoreInv'
  BY <1>1 DEF RegistryInv, StoreInv
<1>3. Apart(memory)' /\ Apart(disk)'
  BY <1>1 DEF RegistryInv, Apart
<1>4. ASSUME NEW a \in Told PROVE Kept(a, memory') /\ Kept(a, disk')
  BY <1>1, KeptIsCarried DEF RegistryInv
<1>5. \A a \in Told' : Kept(a, memory') /\ Kept(a, disk')
  BY <1>1, <1>4 DEF Told
<1>6. \A a \in Told' : Kept(a, memory)' /\ Kept(a, disk)'
  BY <1>5 DEF Kept, NewBatch
<1> QED BY <1>2, <1>3, <1>6 DEF RegistryInv

\* A creation, acknowledged or not, keeps the cores apart.
LEMMA CreateStep ==
    ASSUME RegistryInv, NEW r \in Request, CreateBatch(r) PROVE RegistryInv'
<1>1. PICK id \in ID, now \in Time :
        /\ \A c \in Rivals(NewBatch(r, id, now)) :
               ~Conflict(NewBatch(r, id, now), c)
        /\ Free(id)
        /\ memory' = [memory EXCEPT !.batches = Stored(NewBatch(r, id, now))]
        /\ \/ /\ Persisted
              /\ creating' = {[request |-> r, id |-> id, created |-> now]}
           \/ FailedToPersist /\ UNCHANGED creating
  <2>1. body[r] \in BodyShape
    BY BodyAssumption
  <2>2. (IF body[r].id = 0 THEN Generated ELSE {body[r].id}) \subseteq ID
    BY <2>1, NumberAssumption DEF BodyShape
  <2> QED BY <2>2 DEF CreateBatch
<1>2. Parses(body[r]) /\ acked' = acked
  BY DEF CreateBatch
<1> DEFINE b == NewBatch(r, id, now)
           a == [request |-> r, id |-> id, created |-> now]
<1>3. /\ memory' \in Snapshot /\ Apart(memory') /\ Carries(memory, memory')
      /\ memory'.answers = memory.answers
      /\ b \in memory'.batches
  BY <1>1, <1>2, CreationIsApart
<1>4. a \in Answer /\ Kept(a, memory')
  <2>1. a \in Answer
    BY DEF Answer
  <2>2. b = NewBatch(a.request, a.id, a.created) /\ b.draft = TRUE
    BY DEF NewBatch
  <2>3. b \in Batch
    BY <1>3 DEF Snapshot
  <2> HIDE DEF a, b
  <2>4. [b EXCEPT !.draft = TRUE] = b
    BY <2>2, <2>3 DEF Batch
  <2> QED BY <1>3, <2>1, <2>2, <2>4 DEF Kept
<1> HIDE DEF b
<1>5. CASE Persisted /\ creating' = {a}
  <2>1. disk' = memory'
    BY <1>5 DEF Persisted
  <2>2. creating' \subseteq Answer /\ acked' \subseteq Answer
    BY <1>2, <1>4, <1>5 DEF RegistryInv, StoreInv
  <2>3. ASSUME NEW x \in creating' \cup acked' \cup memory'.answers
        PROVE  x \in Told \/ (disk' = memory' /\ Kept(x, memory'))
    BY <1>2, <1>3, <1>4, <1>5, <2>1 DEF Told
  <2> QED BY <1>3, <1>5, <2>2, <2>3, WriteStep
<1>6. CASE FailedToPersist /\ UNCHANGED creating
  <2>1. creating' \subseteq Answer /\ acked' \subseteq Answer
    BY <1>2, <1>6 DEF RegistryInv, StoreInv
  <2>2. ASSUME NEW x \in creating' \cup acked' \cup memory'.answers
        PROVE  x \in Told
    BY <1>2, <1>3, <1>6 DEF Told
  <2> QED BY <1>3, <1>6, <2>1, <2>2, WriteStep
<1> QED BY <1>1, <1>5, <1>6

\* The batch of a recorded answer is in the file already.
LEMMA SaveStep == RegistryInv /\ SaveIdempotency => RegistryInv'
<1> SUFFICES ASSUME RegistryInv, SaveIdempotency PROVE RegistryInv'
  OBVIOUS
<1>1. /\ memory' = [memory EXCEPT !.answers = memory.answers \cup creating]
      /\ Persisted \/ FailedToPersist
      /\ creating' = {}
      /\ acked' = acked \cup creating \/ acked' = acked
  BY DEF SaveIdempotency
<1>2. memory \in Snapshot /\ creating \subseteq Answer /\ acked \subseteq Answer
  BY DEF RegistryInv, StoreInv
<1>3. /\ memory' \in Snapshot
      /\ memory'.batches = memory.batches
      /\ memory'.answers = memory.answers \cup creating
  BY <1>1, <1>2 DEF Snapshot
<1>4. Apart(memory') /\ Carries(memory, memory')
  BY <1>3 DEF RegistryInv, Apart, Carries
<1>5. ASSUME NEW x \in creating' \cup acked' \cup memory'.answers
      PROVE  x \in Told
  BY <1>1, <1>3 DEF Told
<1>6. creating' \subseteq Answer /\ acked' \subseteq Answer
  BY <1>1, <1>2
<1> QED BY <1>1, <1>3, <1>4, <1>5, <1>6, WriteStep

\* Every step keeps the cores apart and what was acknowledged.
LEMMA RegistryStep == RegistryInv /\ [Next]_vars => RegistryInv'
<1> SUFFICES ASSUME RegistryInv, [Next]_vars PROVE RegistryInv'
  OBVIOUS
<1>1. ASSUME NEW r \in Request, CreateBatch(r) PROVE RegistryInv'
  BY <1>1, CreateStep
<1>2. CASE SaveIdempotency
  BY <1>2, SaveStep
<1>3. ASSUME NEW b \in memory.batches, Advance(b) PROVE RegistryInv'
  <2>1. /\ memory' = [memory EXCEPT !.batches =
                        (memory.batches \ {b}) \cup {[b EXCEPT !.draft = FALSE]}]
        /\ Persisted \/ FailedToPersist
        /\ UNCHANGED <<creating, acked>>
    BY <1>3 DEF Advance
  <2>2. /\ memory' \in Snapshot /\ Apart(memory') /\ Carries(memory, memory')
        /\ memory'.answers = memory.answers
    BY <2>1, AdvanceKeepsApart
  <2>3. creating' \subseteq Answer /\ acked' \subseteq Answer
    BY <2>1 DEF RegistryInv, StoreInv
  <2>4. ASSUME NEW x \in creating' \cup acked' \cup memory'.answers
        PROVE  x \in Told
    BY <2>1, <2>2 DEF Told
  <2> QED BY <2>1, <2>2, <2>3, <2>4, WriteStep
<1>4. CASE Restart
  <2>1. memory' = disk /\ disk' = disk /\ creating' = {} /\ acked' = acked
        /\ faults' = faults
    BY <1>4 DEF Restart
  <2>2. StoreInv' /\ Apart(memory)' /\ Apart(disk)'
    BY <2>1 DEF RegistryInv, StoreInv, Apart
  <2>3. ASSUME NEW x \in Told' PROVE Kept(x, memory)' /\ Kept(x, disk)'
    BY <2>1 DEF RegistryInv, Told, Kept
  <2> QED BY <2>2, <2>3 DEF RegistryInv
<1>5. ASSUME NEW r \in Request, Replay(r) PROVE RegistryInv'
  <2>1. /\ UNCHANGED <<memory, disk, creating, faults>>
        /\ acked \subseteq acked'
        /\ acked' \subseteq acked \cup memory.answers
    BY <1>5 DEF Replay
  <2>2. Told' = Told
    BY <2>1 DEF Told
  <2>3. StoreInv' /\ Apart(memory)' /\ Apart(disk)'
    <3>1. memory.answers \subseteq Answer
      BY DEF RegistryInv, StoreInv, Snapshot
    <3> QED BY <2>1, <3>1 DEF RegistryInv, StoreInv, Apart
  <2> QED BY <2>1, <2>2, <2>3 DEF RegistryInv, Kept
<1>6. CASE UNCHANGED <<memory, disk, creating, acked, faults>>
  BY <1>6 DEF RegistryInv, StoreInv, Apart, Told, Kept
<1>7. (\E draftOnly \in BOOLEAN : FirstPage(draftOnly)) \/ NextPage
      \/ UNCHANGED vars
      => UNCHANGED <<memory, disk, creating, acked, faults>>
  BY DEF FirstPage, NextPage, Turn, vars
<1> QED BY <1>1, <1>2, <1>3, <1>4, <1>5, <1>6, <1>7 DEF Next

\* The invariant holds in every state.
LEMMA RegistryInvariant == Spec => []RegistryInv
BY RegistryInit, RegistryStep, PTL DEF Spec

-----------------------------------------------------------------------------
(* Theorems *)

\* The cores of a site stay apart in memory and in the file: CreateBatch also
\* compares with the batches its failed writes left behind.
THEOREM CoresStayApart == Spec => []NoConflicts
<1>1. RegistryInv => NoConflicts
  BY DEF RegistryInv, Apart, NoConflicts
<1> QED BY <1>1, RegistryInvariant, PTL

\* No restart and no batch with a chosen id loses an acknowledged batch.
THEOREM AcknowledgedBatchIsKept == Spec => []AcknowledgedIsKept
<1>1. RegistryInv => AcknowledgedIsKept
  BY DEF RegistryInv, Told, Kept, AcknowledgedIsKept
<1> QED BY <1>1, RegistryInvariant, PTL

\* Whatever becomes of its record, a creation sent again makes no second batch:
\* the code of its core is taken.
THEOREM RetryIsOneBatch == Spec => []RetryMakesNoSecondBatch
<1>1. RegistryInv => RetryMakesNoSecondBatch
  <2> SUFFICES ASSUME RegistryInv, NEW a \in acked, NEW b \in acked,
                      a.request = b.request
               PROVE  a = b
    BY DEF RetryMakesNoSecondBatch
  <2>1. a \in Answer /\ b \in Answer /\ memory.batches \subseteq Batch
    BY DEF RegistryInv, StoreInv, Snapshot
  <2>2. Kept(a, memory) /\ Kept(b, memory)
    BY DEF RegistryInv, Told
  <2>3. PICK x \in memory.batches :
          [x EXCEPT !.draft = TRUE] = NewBatch(a.request, a.id, a.created)
    BY <2>2 DEF Kept
  <2>4. PICK y \in memory.batches :
          [y EXCEPT !.draft = TRUE] = NewBatch(b.request, b.id, b.created)
    BY <2>2 DEF Kept
  <2>5. /\ x.id = a.id /\ x.created = a.created
        /\ x.site = body[a.request].site /\ x.code = normal[body[a.request].code]
    BY <2>1, <2>3 DEF Batch, NewBatch
  <2>6. /\ y.id = b.id /\ y.created = b.created
        /\ y.site = body[b.request].site /\ y.code = normal[body[b.request].code]
    BY <2>1, <2>4 DEF Batch, NewBatch
  <2>7. x = y
    BY <2>5, <2>6 DEF RegistryInv, Apart, Conflict
  <2> QED BY <2>1, <2>5, <2>6, <2>7 DEF Answer
<1> QED BY <1>1, RegistryInvariant, PTL

-----------------------------------------------------------------------------
(* Keys in order *)

\* The place of a batch is never that of no cursor.
LEMMA KeyParts ==
    \A k \in Key : k.created \in Nat /\ k.id \in Nat /\ k # NoCursor
<1>1. \A k \in Key : k.created \in Nat /\ k.id \in Nat \ {0}
  BY NumberAssumption DEF Key
<1> QED BY <1>1 DEF NoCursor

\* Before is a strict total order.
LEMMA BeforeIsOrder ==
    /\ \A k \in Key : ~Before(k, k)
    /\ \A k, l \in Key : k = l \/ Before(k, l) \/ Before(l, k)
    /\ \A k, l, m \in Key : Before(k, l) /\ Before(l, m) => Before(k, m)
<1>1. \A k, l \in Key : k.created = l.created /\ k.id = l.id => k = l
  BY DEF Key
<1> QED BY <1>1, KeyParts DEF Before

\* Every finite set of keys can be put in order: each has its place by the
\* number of those before it.
LEMMA KeysCanBeSorted ==
    ASSUME NEW keys \in SUBSET Key, IsFiniteSet(keys)
    PROVE  \E s \in [1..Cardinality(keys) -> keys] :
               \A i, j \in DOMAIN s : i < j => Before(s[i], s[j])
<1> DEFINE n == Cardinality(keys)
           Earlier(k) == {l \in keys : Before(l, k)}
           place == [k \in keys |-> Cardinality(Earlier(k)) + 1]
<1>1. n \in Nat /\ IsFiniteSet(1..n) /\ Cardinality(1..n) = n
  <2>1. n \in Nat
    BY FS_CardinalityType
  <2> HIDE DEF n
  <2> QED BY <2>1, FS_Interval
<1>2. \A k \in keys : /\ IsFiniteSet(Earlier(k)) /\ Cardinality(Earlier(k)) \in Nat
                      /\ Cardinality(Earlier(k)) < n
  <2> SUFFICES ASSUME NEW k \in keys
               PROVE  /\ IsFiniteSet(Earlier(k)) /\ Cardinality(Earlier(k)) \in Nat
                      /\ Cardinality(Earlier(k)) < n
    OBVIOUS
  <2>1. Earlier(k) \in SUBSET keys /\ Earlier(k) # keys
    BY BeforeIsOrder
  <2> HIDE DEF Earlier
  <2>2. /\ IsFiniteSet(Earlier(k)) /\ Cardinality(Earlier(k)) <= n
        /\ Cardinality(Earlier(k)) # n
    BY <2>1, FS_Subset
  <2>3. Cardinality(Earlier(k)) \in Nat
    BY <2>2, FS_CardinalityType
  <2> HIDE DEF n
  <2> QED BY <1>1, <2>2, <2>3
<1>3. \A k, l \in keys : Before(k, l) => place[k] < place[l]
  <2> SUFFICES ASSUME NEW k \in keys, NEW l \in keys, Before(k, l)
               PROVE  place[k] < place[l]
    OBVIOUS
  <2>1. /\ Earlier(k) \in SUBSET Earlier(l)
        /\ Earlier(k) # Earlier(l)
    <3>1. k \in Earlier(l) /\ k \notin Earlier(k)
      BY BeforeIsOrder
    <3>2. \A m \in Earlier(k) : m \in Earlier(l)
      BY BeforeIsOrder
    <3> QED BY <3>1, <3>2
  <2>2. /\ IsFiniteSet(Earlier(l))
        /\ Cardinality(Earlier(k)) \in Nat /\ Cardinality(Earlier(l)) \in Nat
    BY <1>2
  <2>3. place[k] = Cardinality(Earlier(k)) + 1 /\ place[l] = Cardinality(Earlier(l)) + 1
    OBVIOUS
  <2> HIDE DEF Earlier, place
  <2>4. /\ Cardinality(Earlier(k)) <= Cardinality(Earlier(l))
        /\ Cardinality(Earlier(k)) # Cardinality(Earlier(l))
    BY <2>1, <2>2, FS_Subset
  <2> QED BY <2>2, <2>3, <2>4
<1>4. place \in [keys -> 1..n]
  <2> HIDE DEF n, Earlier
  <2> QED BY <1>1, <1>2
<1> HIDE DEF place
<1>5. place \in Surjection(keys, 1..n)
  <2>1. place \in Injection(keys, 1..n)
    <3>1. \A k, l \in keys : place[k] = place[l] => k = l
      <4>1. \A k \in keys : place[k] \in Nat
        BY <1>4
      <4> QED BY <1>3, <4>1, BeforeIsOrder
    <3> QED BY <1>4, <3>1 DEF Injection, IsInjective
  <2> QED BY <1>1, <2>1, FS_Injection
<1>6. \A i \in 1..n : \E k \in keys : place[k] = i
  BY <1>5 DEF Surjection
<1> DEFINE s == [i \in 1..n |-> CHOOSE k \in keys : place[k] = i]
<1>7. /\ s \in [1..n -> keys]
      /\ \A i \in 1..n : place[s[i]] = i
  <2> HIDE DEF n
  <2> QED BY <1>6
<1> HIDE DEF s
<1>8. \A i, j \in DOMAIN s : i < j => Before(s[i], s[j])
  <2> SUFFICES ASSUME NEW i \in 1..n, NEW j \in 1..n, i < j
               PROVE  Before(s[i], s[j])
    BY <1>7
  <2>1. s[i] \in keys /\ s[j] \in keys /\ place[s[i]] = i /\ place[s[j]] = j
    BY <1>7
  <2>2. i \in Nat /\ j \in Nat
    BY <1>1
  <2>3. ~Before(s[j], s[i])
    BY <1>3, <2>1, <2>2
  <2>4. s[i] # s[j]
    BY <2>1, <2>2
  <2> QED BY <2>1, <2>3, <2>4, BeforeIsOrder
<1> QED BY <1>7, <1>8

\* A sorted set of keys has each of them once, in order.
LEMMA SortedIsInOrder ==
    ASSUME NEW keys \in SUBSET Key, IsFiniteSet(keys), NEW s, s = Sorted(keys)
    PROVE  /\ s \in Seq(keys) /\ Range(s) = keys
           /\ \A i, j \in 1..Len(s) : i < j => Before(s[i], s[j])
<1> DEFINE n == Cardinality(keys)
<1>1. n \in Nat /\ IsFiniteSet(1..n) /\ Cardinality(1..n) = n
  <2>1. n \in Nat
    BY FS_CardinalityType
  <2> HIDE DEF n
  <2> QED BY <2>1, FS_Interval
<1>2. /\ s \in [1..n -> keys]
      /\ \A i, j \in DOMAIN s : i < j => Before(s[i], s[j])
  BY KeysCanBeSorted, Zenon DEF Sorted
<1> HIDE DEF n
<1>3. s \in Seq(keys) /\ Len(s) = n /\ DOMAIN s = 1..n
  BY <1>1, <1>2
<1>4. s \in Injection(1..n, keys)
  <2>1. \A i, j \in 1..n : s[i] = s[j] => i = j
    <3> SUFFICES ASSUME NEW i \in 1..n, NEW j \in 1..n, i < j PROVE s[i] # s[j]
      BY <1>1
    <3>1. Before(s[i], s[j]) /\ s[i] \in Key
      BY <1>2, <1>3
    <3> QED BY <3>1, BeforeIsOrder
  <2> QED BY <1>2, <2>1 DEF Injection, IsInjective
<1>5. s \in Surjection(1..n, keys)
  BY <1>1, <1>4, FS_Injection DEF n
<1>6. Range(s) = keys
  <2>1. \A k \in keys : \E i \in 1..n : s[i] = k
    BY <1>5 DEF Surjection
  <2> QED BY <1>2, <2>1 DEF Range
<1> QED BY <1>2, <1>3, <1>6

-----------------------------------------------------------------------------
(* Pages *)

\* Where the text of the times is in their order, what comes after a cursor as
\* text is what comes after it.
LEMMA AfterIsBefore ==
    ASSUME NEW k \in Key, NEW c \in Key, TextInOrder({k, c})
    PROVE  After(k, c) <=> Before(c, k)
<1>1. k.created \in Nat /\ c.created \in Nat /\ k.id \in Nat /\ c.id \in Nat
  BY KeyParts
<1>2. /\ k.created < c.created => TextBefore(k.created, c.created)
      /\ c.created < k.created => TextBefore(c.created, k.created)
  BY DEF TextInOrder
<1>3. ASSUME TextBefore(c.created, k.created)
      PROVE  k.created # c.created /\ ~TextBefore(k.created, c.created)
  BY <1>1, <1>3 DEF TextBefore, Extends
<1> QED BY <1>1, <1>2, <1>3 DEF After, Before

\* The times of fewer keys are in order too.
LEMMA FewerInOrder ==
    ASSUME NEW S, NEW T \in SUBSET S, TextInOrder(S)
    PROVE  TextInOrder(T)
BY DEF TextInOrder

\* What follows the cursor is in order, begins after the cursor, and has every
\* key that is after the cursor.
LEMMA RestFollowsCursor ==
    ASSUME NEW keys \in SUBSET Key, IsFiniteSet(keys),
           NEW cursor \in Key \cup {NoCursor},
           NEW rest, rest = From(Sorted(keys), cursor)
    PROVE  /\ rest \in Seq(keys)
           /\ \A i, j \in 1..Len(rest) : i < j => Before(rest[i], rest[j])
           /\ cursor # NoCursor /\ rest # <<>> => After(rest[1], cursor)
           /\ \A k \in keys : cursor = NoCursor \/ After(k, cursor) =>
                 \E i \in 1..Len(rest) : rest[i] = k
<1> DEFINE s == Sorted(keys)
<1>1. /\ s \in Seq(keys) /\ Range(s) = keys
      /\ \A i, j \in 1..Len(s) : i < j => Before(s[i], s[j])
  BY SortedIsInOrder
<1>2. rest = IF cursor = NoCursor THEN s
             ELSE LET start == SelectInSeq(s, LAMBDA k : After(k, cursor))
                  IN  IF start = 0 THEN <<>> ELSE SubSeq(s, start, Len(s))
  BY DEF From
<1> HIDE DEF s
<1>3. /\ Len(s) \in Nat
      /\ \A k \in keys : \E i \in 1..Len(s) : s[i] = k
  BY <1>1 DEF Range
<1>4. CASE cursor = NoCursor
  BY <1>1, <1>2, <1>3, <1>4
<1>5. CASE cursor # NoCursor
  <2> DEFINE I == {i \in 1..Len(s) : After(s[i], cursor)}
             start == IF I # {} THEN Min(I) ELSE 0
  <2>1. rest = IF start = 0 THEN <<>> ELSE SubSeq(s, start, Len(s))
    BY <1>2, <1>5 DEF SelectInSeq
  <2>2. CASE I = {}
    <3>1. rest = <<>>
      BY <2>1, <2>2
    <3>2. \A k \in keys : ~After(k, cursor)
      BY <1>3, <2>2
    <3> QED BY <1>5, <3>1, <3>2
  <2>3. CASE I # {}
    <3>1. I \in SUBSET Nat
      BY <1>3
    <3>2. start \in I /\ \A i \in I : start <= i
      <4> HIDE DEF I
      <4> QED BY <2>3, <3>1, LeastNatural DEF Min
    <3>3. start \in 1..Len(s) /\ After(s[start], cursor)
      BY <3>2
    <3>4. \A i \in 1..Len(s) : After(s[i], cursor) => start <= i
      BY <3>2
    <3> HIDE DEF I, start
    <3>5. rest = SubSeq(s, start, Len(s))
      BY <1>3, <2>1, <3>3
    <3>6. /\ rest \in Seq(keys) /\ Len(rest) = Len(s) - start + 1
          /\ \A i \in 1..Len(rest) : rest[i] = s[start + i - 1]
      <4> DEFINE length == Len(s)
                 r == SubSeq(s, start, length)
      <4>1. start \in Int /\ length \in Nat /\ start \in 1..length
        BY <1>3, <3>3
      <4>2. \A i \in 1..length : s[i] \in keys
        BY <1>1
      <4>3. DOMAIN s = 1..length
        BY <1>1
      <4> HIDE DEF length
      <4>4. r = [i \in 1..(length - start + 1) |-> s[start + i - 1]]
        BY <4>1, <4>3
      <4>5. \A i \in 1..(length - start + 1) : start + i - 1 \in 1..length
        BY <4>1
      <4>6. length - start + 1 \in Nat
        BY <4>1
      <4> HIDE DEF r
      <4>7. /\ r \in [1..(length - start + 1) -> keys]
            /\ \A i \in 1..(length - start + 1) : r[i] = s[start + i - 1]
        BY <4>2, <4>4, <4>5
      <4>8. r \in Seq(keys) /\ Len(r) = length - start + 1
        BY <4>6, <4>7
      <4> QED BY <3>5, <4>7, <4>8 DEF r, length
    <3>7. \A i, j \in 1..Len(rest) : i < j => Before(rest[i], rest[j])
      <4> SUFFICES ASSUME NEW i \in 1..Len(rest), NEW j \in 1..Len(rest), i < j
                   PROVE  Before(rest[i], rest[j])
        OBVIOUS
      <4> DEFINE a == start + i - 1
                 b == start + j - 1
      <4>1. a \in 1..Len(s) /\ b \in 1..Len(s) /\ a < b
        BY <1>3, <3>3, <3>6
      <4>2. rest[i] = s[a] /\ rest[j] = s[b]
        BY <3>6
      <4> HIDE DEF a, b
      <4> QED BY <1>1, <4>1, <4>2
    <3>8. After(rest[1], cursor)
      <4>1. 1 \in 1..Len(rest) /\ start + 1 - 1 = start
        BY <1>3, <3>3, <3>6
      <4> QED BY <3>3, <3>6, <4>1
    <3>9. ASSUME NEW k \in keys, After(k, cursor)
          PROVE  \E i \in 1..Len(rest) : rest[i] = k
      <4>1. PICK j \in 1..Len(s) : s[j] = k
        BY <1>3
      <4> DEFINE i == j - start + 1
      <4>2. start <= j
        BY <3>4, <3>9, <4>1
      <4>3. i \in 1..Len(rest) /\ start + i - 1 = j
        BY <1>3, <3>3, <3>6, <4>2
      <4> QED BY <3>6, <4>1, <4>3
    <3> QED BY <1>5, <3>6, <3>7, <3>8, <3>9
  <2> QED BY <2>2, <2>3
<1> QED BY <1>4, <1>5

\* What a listing is answered: a page in order that begins after the cursor, and
\* a cursor at its last key if there is more; every key after the old cursor is
\* on the page or after the new one.
Follows(result, keys, cursor) ==
    /\ result.page \in Seq(Key)
    /\ result.next \in Key \cup {NoCursor}
    /\ \A i \in 1..(Len(result.page) - 1) :
          Before(result.page[i], result.page[i + 1])
    /\ cursor # NoCursor /\ result.page # <<>> => After(result.page[1], cursor)
    /\ result.next # NoCursor =>
          result.page # <<>> /\ result.next = result.page[Len(result.page)]
    /\ \A k \in keys : cursor = NoCursor \/ After(k, cursor) =>
          \/ k \in Range(result.page)
          \/ result.next # NoCursor /\ Before(result.next, k)

\* What follows a cursor in order, cut at the length of a page, does.
LEMMA CutFollows ==
    ASSUME NEW keys \in SUBSET Key, NEW cursor,
           NEW rest \in Seq(keys),
           \A i, j \in 1..Len(rest) : i < j => Before(rest[i], rest[j]),
           cursor # NoCursor /\ rest # <<>> => After(rest[1], cursor),
           \A k \in keys : cursor = NoCursor \/ After(k, cursor) =>
               \E i \in 1..Len(rest) : rest[i] = k,
           NEW result,
           result = IF Len(rest) > Limit
                    THEN [page |-> SubSeq(rest, 1, Limit), next |-> NextCursor(rest)]
                    ELSE [page |-> rest, next |-> NoCursor]
    PROVE  Follows(result, keys, cursor)
<1>1. /\ Limit \in Nat \ {0} /\ Len(rest) \in Nat
      /\ \A i \in 1..Len(rest) : rest[i] \in keys /\ rest[i] \in Key
      /\ rest \in Seq(Key) /\ DOMAIN rest = 1..Len(rest)
  BY NumberAssumption
<1>2. CASE ~ (Len(rest) > Limit)
  <2>1. result.page = rest /\ result.next = NoCursor
    BY <1>2
  <2>2. \A i \in 1..(Len(rest) - 1) : Before(rest[i], rest[i + 1])
    BY <1>1
  <2>3. \A i \in 1..Len(rest) : rest[i] \in Range(rest)
    BY <1>1 DEF Range
  <2>4. \A k \in keys : cursor = NoCursor \/ After(k, cursor) => k \in Range(rest)
    BY <2>3
  <2> QED BY <1>1, <2>1, <2>2, <2>4 DEF Follows
<1>3. CASE Len(rest) > Limit
  <2> DEFINE page == SubSeq(rest, 1, Limit)
  <2>1. result = [page |-> page, next |-> rest[Limit]]
    BY <1>3 DEF NextCursor
  <2>2. page \in Seq(Key) /\ Len(page) = Limit
    BY <1>1, <1>3
  <2>3. \A i \in 1..Limit : page[i] = rest[i]
    BY <1>1, <1>3
  <2> HIDE DEF page
  <2>4. result.page = page /\ result.next = rest[Limit]
    BY <2>1
  <2>5. \A i \in 1..(Limit - 1) : Before(page[i], page[i + 1])
    <3> SUFFICES ASSUME NEW i \in 1..(Limit - 1)
                 PROVE  Before(page[i], page[i + 1])
      OBVIOUS
    <3>1. /\ i \in 1..Limit /\ i + 1 \in 1..Limit /\ i < i + 1
          /\ i \in 1..Len(rest) /\ i + 1 \in 1..Len(rest)
      BY <1>1, <1>3
    <3> QED BY <2>3, <3>1
  <2>6. page # <<>> /\ page[1] = rest[1] /\ rest # <<>> /\ page[Limit] = rest[Limit]
    BY <1>1, <1>3, <2>2, <2>3
  <2>7. rest[Limit] \in Key /\ rest[Limit] # NoCursor
    <3>1. rest[Limit] \in Key
      BY <1>1, <1>3
    <3> QED BY <3>1, KeyParts
  <2>8. \A i \in 1..Limit : rest[i] \in Range(page)
    BY <1>1, <2>2, <2>3 DEF Range
  <2>9. ASSUME NEW i \in 1..Len(rest), i \notin 1..Limit
        PROVE  Before(rest[Limit], rest[i])
    <3>1. Limit \in 1..Len(rest) /\ Limit < i
      BY <1>1, <1>3, <2>9
    <3> QED BY <3>1
  <2>10. ASSUME NEW k \in keys, cursor = NoCursor \/ After(k, cursor)
         PROVE  k \in Range(page) \/ Before(rest[Limit], k)
    BY <2>8, <2>9, <2>10
  <2> QED BY <2>2, <2>4, <2>5, <2>6, <2>7, <2>10 DEF Follows
<1> QED BY <1>2, <1>3

\* The page of a set of keys at a cursor follows it.
LEMMA SortedPageFollows ==
    ASSUME NEW keys \in SUBSET Key, IsFiniteSet(keys),
           NEW cursor \in Key \cup {NoCursor},
           NEW rest, rest = From(Sorted(keys), cursor),
           NEW result,
           result = IF Len(rest) > Limit
                    THEN [page |-> SubSeq(rest, 1, Limit), next |-> NextCursor(rest)]
                    ELSE [page |-> rest, next |-> NoCursor]
    PROVE  Follows(result, keys, cursor)
<1>1. /\ rest \in Seq(keys)
      /\ \A i, j \in 1..Len(rest) : i < j => Before(rest[i], rest[j])
      /\ cursor # NoCursor /\ rest # <<>> => After(rest[1], cursor)
      /\ \A k \in keys : cursor = NoCursor \/ After(k, cursor) =>
            \E i \in 1..Len(rest) : rest[i] = k
  BY RestFollowsCursor
<1> QED BY <1>1, CutFollows

\* A page of QueryBatches follows its cursor.
LEMMA PageFollowsCursor ==
    ASSUME NEW draftOnly, NEW cursor \in Key \cup {NoCursor},
           {KeyOf(b) : b \in Matching(memory.batches, draftOnly)} \in SUBSET Key,
           IsFiniteSet({KeyOf(b) : b \in Matching(memory.batches, draftOnly)})
    PROVE  Follows(QueryBatches(draftOnly, cursor),
                   {KeyOf(b) : b \in Matching(memory.batches, draftOnly)}, cursor)
<1> DEFINE keys == {KeyOf(b) : b \in Matching(memory.batches, draftOnly)}
           rest == From(Sorted(keys), cursor)
           result == IF Len(rest) > Limit
                     THEN [page |-> SubSeq(rest, 1, Limit),
                           next |-> NextCursor(rest)]
                     ELSE [page |-> rest, next |-> NoCursor]
<1>1. QueryBatches(draftOnly, cursor) = result
  BY DEF QueryBatches
<1>2. keys \in SUBSET Key /\ IsFiniteSet(keys)
  OBVIOUS
<1> HIDE DEF keys
<1>3. Follows(result, keys, cursor)
  BY <1>2, SortedPageFollows
<1> QED BY <1>1, <1>3 DEF keys

-----------------------------------------------------------------------------
(* The listing, page after page *)

\* The keys a listing chooses from.
Keys(s, draftOnly) == {KeyOf(b) : b \in Matching(s.batches, draftOnly)}

\* A listing that goes on does so from the last batch it has seen.
Placed(l) ==
    l.step = "paging" => l.seen # <<>> /\ l.cursor = l.seen[Len(l.seen)]

\* What was seen is in order, if the times have their order as text too.
SeenInOrder(l) ==
    TextInOrder(Range(l.seen)) =>
        \A i \in 1..(Len(l.seen) - 1) : Before(l.seen[i], l.seen[i + 1])

\* A steady batch has been seen or is still to come, if its time and those of
\* the batches seen have their order as text too.
Covered(l) ==
    \A k \in l.steady : TextInOrder(Range(l.seen) \cup {k}) =>
        \/ k \in Range(l.seen)
        \/ l.step = "paging" /\ Before(l.cursor, k)

\* A listing after one page more.
Turned(l, result) ==
    [l EXCEPT !.step = IF result.next = NoCursor THEN "done" ELSE "paging",
              !.cursor = result.next,
              !.seen = l.seen \o result.page]

\* One page more keeps a listing in its place, in order and complete.
LEMMA TurnFollows ==
    ASSUME NEW l \in Listing, NEW keys \in SUBSET Key, l.steady \subseteq keys,
           \/ l.cursor = NoCursor /\ l.seen = <<>>
           \/ l.step = "paging" /\ Placed(l) /\ Covered(l),
           SeenInOrder(l),
           NEW result, Follows(result, keys, l.cursor),
           NEW m, m = Turned(l, result)
    PROVE  m \in Listing /\ m.steady = l.steady /\ m.draftOnly = l.draftOnly
           /\ Placed(m) /\ SeenInOrder(m) /\ Covered(m)
<1> DEFINE page == result.page
           seen == l.seen \o page
           step == IF result.next = NoCursor THEN "done" ELSE "paging"
<1>1. /\ page \in Seq(Key) /\ l.seen \in Seq(Key)
      /\ result.next \in Key \cup {NoCursor}
      /\ l.cursor \in Key \cup {NoCursor}
      /\ l.steady \subseteq Key
  BY DEF Follows, Listing
<1>2. /\ seen \in Seq(Key) /\ Len(seen) = Len(l.seen) + Len(page)
      /\ Len(l.seen) \in Nat /\ Len(page) \in Nat
      /\ \A i \in 1..Len(l.seen) : seen[i] = l.seen[i]
      /\ \A i \in 1..Len(page) : seen[Len(l.seen) + i] = page[i]
  <2> HIDE DEF page
  <2> QED BY <1>1
<1>3. /\ m \in Listing /\ m.steady = l.steady /\ m.draftOnly = l.draftOnly
      /\ m.step = step /\ m.cursor = result.next /\ m.seen = seen
  <2>1. m = [l EXCEPT !.step = step, !.cursor = result.next, !.seen = seen]
    BY DEF Turned
  <2>2. step \in {"paging", "done"}
    OBVIOUS
  <2> HIDE DEF step, seen
  <2> QED BY <1>1, <1>2, <2>1, <2>2 DEF Listing
<1> HIDE DEF page, seen
<1>4. DOMAIN l.seen = 1..Len(l.seen) /\ DOMAIN page = 1..Len(page)
      /\ DOMAIN seen = 1..Len(seen)
  BY <1>1, <1>2
<1>5. Range(seen) = Range(l.seen) \cup Range(page)
  <2>1. \A i \in 1..Len(seen) : i \in 1..Len(l.seen)
                               \/ \E j \in 1..Len(page) : i = Len(l.seen) + j
    <3> SUFFICES ASSUME NEW i \in 1..Len(seen), i \notin 1..Len(l.seen)
                 PROVE  \E j \in 1..Len(page) : i = Len(l.seen) + j
      OBVIOUS
    <3>1. i - Len(l.seen) \in 1..Len(page) /\ i = Len(l.seen) + (i - Len(l.seen))
      BY <1>2
    <3> QED BY <3>1
  <2>2. /\ \A i \in 1..Len(l.seen) : i \in 1..Len(seen)
        /\ \A i \in 1..Len(page) : Len(l.seen) + i \in 1..Len(seen)
    BY <1>2
  <2>3. \A k \in Range(seen) : k \in Range(l.seen) \cup Range(page)
    <3> SUFFICES ASSUME NEW i \in 1..Len(seen)
                 PROVE  seen[i] \in Range(l.seen) \cup Range(page)
      BY <1>4 DEF Range
    <3>1. CASE i \in 1..Len(l.seen)
      BY <1>2, <1>4, <3>1 DEF Range
    <3>2. ASSUME NEW j \in 1..Len(page), i = Len(l.seen) + j
          PROVE  seen[i] \in Range(page)
      BY <1>2, <1>4, <3>2 DEF Range
    <3> QED BY <2>1, <3>1, <3>2
  <2>4. \A k \in Range(l.seen) \cup Range(page) : k \in Range(seen)
    BY <1>2, <1>4, <2>2 DEF Range
  <2> QED BY <2>3, <2>4
<1>6. Range(seen) \subseteq Key
  BY <1>2, <1>4 DEF Range
<1>7. Placed(m)
  <2>1. CASE result.next = NoCursor
    BY <1>3, <2>1 DEF Placed
  <2>2. CASE result.next # NoCursor
    <3>1. page # <<>> /\ result.next = page[Len(page)]
      BY <2>2 DEF Follows, page
    <3>2. Len(page) \in 1..Len(page) /\ Len(seen) \in 1..Len(seen)
      BY <1>1, <1>2, <3>1
    <3>3. seen[Len(seen)] = page[Len(page)]
      BY <1>2, <3>2
    <3>4. seen # <<>>
      BY <1>2, <3>2
    <3> QED BY <1>3, <3>1, <3>3, <3>4 DEF Placed
  <2> QED BY <2>1, <2>2
<1>8. ASSUME l.cursor # NoCursor
      PROVE  /\ l.step = "paging" /\ Covered(l)
             /\ l.seen # <<>> /\ l.cursor = l.seen[Len(l.seen)]
             /\ l.cursor \in Range(l.seen) /\ l.cursor \in Key
             /\ Len(l.seen) \in 1..Len(l.seen)
  <2>1. /\ l.step = "paging" /\ Covered(l)
        /\ l.seen # <<>> /\ l.cursor = l.seen[Len(l.seen)]
    BY <1>8 DEF Placed
  <2>2. Len(l.seen) \in 1..Len(l.seen)
    BY <1>1, <2>1
  <2> QED BY <1>1, <1>4, <1>8, <2>1, <2>2 DEF Range
<1>9. SeenInOrder(m)
  <2> SUFFICES ASSUME TextInOrder(Range(seen)), NEW i \in 1..(Len(seen) - 1)
               PROVE  Before(seen[i], seen[i + 1])
    BY <1>3 DEF SeenInOrder
  <2>1. CASE i < Len(l.seen)
    <3>1. TextInOrder(Range(l.seen))
      BY <1>5, FewerInOrder
    <3>2. i \in 1..(Len(l.seen) - 1) /\ i \in 1..Len(l.seen)
          /\ i + 1 \in 1..Len(l.seen)
      BY <1>2, <2>1
    <3>3. Before(l.seen[i], l.seen[i + 1])
      BY <3>1, <3>2 DEF SeenInOrder
    <3> QED BY <1>2, <3>2, <3>3
  <2>2. CASE i = Len(l.seen)
    <3>1. Len(l.seen) \in 1..Len(l.seen) /\ 1 \in 1..Len(page)
      BY <1>2, <2>2
    <3>2. l.cursor # NoCursor
      <4>1. l.seen # <<>> /\ l.seen[Len(l.seen)] \in Key
        BY <1>1, <3>1
      <4>2. l.cursor = NoCursor => l.cursor = l.seen[Len(l.seen)]
        BY <4>1 DEF Placed
      <4> QED BY <4>1, <4>2, KeyParts
    <3>3. page # <<>>
      BY <3>1
    <3>4. After(page[1], l.cursor)
      BY <3>2, <3>3 DEF Follows, page
    <3>5. page[1] \in Range(page) /\ page[1] \in Key
      BY <1>1, <1>4, <3>1 DEF Range
    <3>6. TextInOrder({page[1], l.cursor})
      BY <1>5, <1>8, <3>2, <3>5, FewerInOrder
    <3>7. Before(l.cursor, page[1])
      BY <1>8, <3>2, <3>4, <3>5, <3>6, AfterIsBefore
    <3>8. seen[i] = l.cursor
      BY <1>2, <1>8, <2>2, <3>1, <3>2
    <3>9. seen[i + 1] = page[1]
      BY <1>2, <2>2, <3>1
    <3> QED BY <3>7, <3>8, <3>9
  <2>3. CASE i > Len(l.seen)
    <3> DEFINE j == i - Len(l.seen)
               p == Len(l.seen)
               q == Len(page)
    <3>1. p \in Nat /\ q \in Nat /\ i \in 1..(p + q - 1) /\ i > p
      BY <1>2, <2>3
    <3> HIDE DEF p, q
    <3>2. /\ i - p \in 1..(q - 1) /\ i - p \in 1..q /\ (i - p) + 1 \in 1..q
          /\ i = p + (i - p) /\ i + 1 = p + ((i - p) + 1)
      BY <3>1
    <3>3. /\ j \in 1..(Len(page) - 1) /\ j \in 1..Len(page) /\ j + 1 \in 1..Len(page)
          /\ i = Len(l.seen) + j /\ i + 1 = Len(l.seen) + (j + 1)
      BY <3>2 DEF p, q
    <3> HIDE DEF j
    <3>4. Before(page[j], page[j + 1])
      BY <3>3 DEF Follows, page
    <3>5. seen[i] = page[j] /\ seen[i + 1] = page[j + 1]
      BY <1>2, <3>3
    <3> QED BY <3>4, <3>5
  <2> QED BY <1>2, <2>1, <2>2, <2>3
<1>10. Covered(m)
  <2> SUFFICES ASSUME NEW k \in l.steady, TextInOrder(Range(seen) \cup {k}),
                      k \notin Range(seen)
               PROVE  step = "paging" /\ Before(result.next, k)
    BY <1>3 DEF Covered
  <2>1. k \in keys /\ k \in Key
    BY <1>1
  <2>2. l.cursor = NoCursor \/ After(k, l.cursor)
    <3> SUFFICES ASSUME l.cursor # NoCursor PROVE After(k, l.cursor)
      OBVIOUS
    <3>1. TextInOrder(Range(l.seen) \cup {k}) /\ k \notin Range(l.seen)
      BY <1>5, FewerInOrder
    <3>2. Before(l.cursor, k)
      BY <1>8, <3>1 DEF Covered
    <3>3. TextInOrder({k, l.cursor})
      BY <1>5, <1>8, FewerInOrder
    <3> QED BY <1>8, <2>1, <3>2, <3>3, AfterIsBefore
  <2>3. k \in Range(page) \/ (result.next # NoCursor /\ Before(result.next, k))
    BY <2>1, <2>2 DEF Follows, page
  <2> QED BY <1>5, <2>3
<1> QED BY <1>3, <1>7, <1>9, <1>10

\* The store is finite, and a listing in its place, in order and complete; what
\* it follows is in the store.
ListingInv ==
    /\ RegistryInv
    /\ IsFiniteSet(memory.batches) /\ IsFiniteSet(disk.batches)
    /\ listing \in Listing
    /\ listing.steady \subseteq Keys(memory, listing.draftOnly)
    /\ Placed(listing) /\ SeenInOrder(listing) /\ Covered(listing)

\* There is no listing at first.
LEMMA ListingInit == Init => ListingInv
<1> SUFFICES ASSUME Init PROVE ListingInv
  OBVIOUS
<1>1. /\ memory.batches = {} /\ disk.batches = {}
      /\ listing = NotListing
  BY DEF Init
<1>2. /\ NotListing \in Listing
      /\ NotListing.steady = {} /\ NotListing.step = "done"
      /\ NotListing.seen = <<>>
  BY DEF NotListing, Listing
<1>3. Placed(NotListing) /\ SeenInOrder(NotListing) /\ Covered(NotListing)
  BY <1>2 DEF Placed, SeenInOrder, Covered
<1> QED BY <1>1, <1>2, <1>3, RegistryInit, FS_EmptySet DEF ListingInv

\* The keys of a finite store are finitely many.
LEMMA KeysOfStore ==
    ASSUME NEW s \in Snapshot, IsFiniteSet(s.batches), NEW draftOnly
    PROVE  Keys(s, draftOnly) \in SUBSET Key /\ IsFiniteSet(Keys(s, draftOnly))
<1> DEFINE M == Matching(s.batches, draftOnly)
           key == [b \in M |-> KeyOf(b)]
<1>1. M \in SUBSET s.batches /\ s.batches \subseteq Batch
  BY DEF Matching, Snapshot
<1>2. IsFiniteSet(M)
  <2> HIDE DEF M
  <2> QED BY <1>1, FS_Subset
<1>3. Keys(s, draftOnly) = {KeyOf(b) : b \in M}
  BY DEF Keys
<1> HIDE DEF M
<1>4. key \in Surjection(M, {KeyOf(b) : b \in M})
  BY DEF Surjection
<1> HIDE DEF key
<1>5. IsFiniteSet({KeyOf(b) : b \in M})
  BY <1>2, <1>4, FS_Surjection
<1>6. \A b \in M : KeyOf(b) \in Key
  BY <1>1 DEF KeyOf, Key, Batch
<1> QED BY <1>3, <1>5, <1>6

\* A step that answers a page.
LEMMA TurnStep ==
    ASSUME ListingInv, NEW l \in Listing,
           l.steady \subseteq Keys(memory, l.draftOnly),
           \/ l.cursor = NoCursor /\ l.seen = <<>>
           \/ l.step = "paging" /\ Placed(l) /\ Covered(l),
           SeenInOrder(l), Turn(l), RegistryInv'
    PROVE  ListingInv'
<1> DEFINE keys == Keys(memory, l.draftOnly)
           result == QueryBatches(l.draftOnly, l.cursor)
<1>1. keys \in SUBSET Key /\ IsFiniteSet(keys)
  BY KeysOfStore DEF ListingInv, RegistryInv, StoreInv
<1>2. l.cursor \in Key \cup {NoCursor}
  BY DEF Listing
<1>3. Follows(result, keys, l.cursor)
  BY <1>1, <1>2, PageFollowsCursor DEF Keys
<1>4. listing' = Turned(l, result) /\ UNCHANGED <<memory, disk>>
  BY DEF Turn, Turned
<1>5. l.steady \subseteq keys
  OBVIOUS
<1> HIDE DEF keys, result
<1>6. /\ listing' \in Listing
      /\ listing'.steady = l.steady /\ listing'.draftOnly = l.draftOnly
      /\ Placed(listing') /\ SeenInOrder(listing') /\ Covered(listing')
  <2>1. keys \in SUBSET Key
    BY <1>1
  <2> QED BY <1>3, <1>4, <1>5, <2>1, TurnFollows
<1>7. listing'.steady \subseteq Keys(memory', listing'.draftOnly)
  BY <1>4, <1>6
<1>8. Placed(listing)' /\ SeenInOrder(listing)' /\ Covered(listing)'
  BY <1>6 DEF Placed, SeenInOrder, Covered
<1> QED BY <1>4, <1>6, <1>7, <1>8 DEF ListingInv, Keys

\* A step that changes the batches: a listing follows those that stay.
LEMMA FollowStep ==
    ASSUME ListingInv, Follow, RegistryInv',
           IsFiniteSet(memory'.batches), IsFiniteSet(disk'.batches)
    PROVE  ListingInv'
<1>1. listing \in Listing
  BY DEF ListingInv
<1> DEFINE steady == listing.steady \cap Keys(memory', listing.draftOnly)
<1>2. listing' = [listing EXCEPT !.steady = steady]
  BY DEF Follow, Keys
<1>3. steady \subseteq listing.steady
      /\ steady \subseteq Keys(memory', listing.draftOnly)
  OBVIOUS
<1> HIDE DEF steady
<1>4. /\ listing' \in Listing /\ listing'.steady = steady
      /\ listing'.step = listing.step /\ listing'.cursor = listing.cursor
      /\ listing'.seen = listing.seen /\ listing'.draftOnly = listing.draftOnly
  BY <1>1, <1>2, <1>3 DEF Listing
<1>5. Placed(listing)' /\ SeenInOrder(listing)' /\ Covered(listing)'
  BY <1>3, <1>4 DEF ListingInv, Placed, SeenInOrder, Covered
<1>6. listing'.steady \subseteq Keys(memory, listing.draftOnly)'
  BY <1>3, <1>4 DEF Keys
<1> QED BY <1>4, <1>5, <1>6 DEF ListingInv

\* Every step keeps the listing.
LEMMA ListingStep == ListingInv /\ [Next]_vars => ListingInv'
<1> SUFFICES ASSUME ListingInv, [Next]_vars PROVE ListingInv'
  OBVIOUS
<1>1. /\ RegistryInv /\ RegistryInv'
      /\ IsFiniteSet(memory.batches) /\ IsFiniteSet(disk.batches)
      /\ memory \in Snapshot
  BY RegistryStep DEF ListingInv, RegistryInv, StoreInv
<1>2. ASSUME Persisted \/ FailedToPersist, IsFiniteSet(memory'.batches)
      PROVE  IsFiniteSet(disk'.batches)
  BY <1>1, <1>2 DEF Persisted, FailedToPersist
<1>3. ASSUME UNCHANGED listing, memory'.batches = memory.batches,
             IsFiniteSet(disk'.batches)
      PROVE  ListingInv'
  BY <1>1, <1>3 DEF ListingInv, Keys, Placed, SeenInOrder, Covered
<1>4. ASSUME NEW r \in Request, CreateBatch(r) PROVE ListingInv'
  <2>1. PICK b : memory' = [memory EXCEPT !.batches = Stored(b)]
    BY <1>4 DEF CreateBatch
  <2>2. memory'.batches = Stored(b)
    BY <1>1, <2>1 DEF Snapshot
  <2>3. IsFiniteSet({c \in memory.batches : c.id # b.id})
    <3>1. {c \in memory.batches : c.id # b.id} \in SUBSET memory.batches
      OBVIOUS
    <3> QED BY <1>1, <3>1, FS_Subset
  <2>4. IsFiniteSet(memory'.batches)
    BY <2>2, <2>3, FS_AddElement DEF Stored
  <2>5. Follow /\ (Persisted \/ FailedToPersist)
    BY <1>4 DEF CreateBatch
  <2> QED BY <1>1, <1>2, <2>4, <2>5, FollowStep
<1>5. CASE SaveIdempotency
  <2>1. /\ memory'.batches = memory.batches
        /\ Persisted \/ FailedToPersist
        /\ UNCHANGED listing
    BY <1>1, <1>5 DEF SaveIdempotency, Snapshot
  <2> QED BY <1>1, <1>2, <1>3, <2>1
<1>6. ASSUME NEW b \in memory.batches, Advance(b) PROVE ListingInv'
  <2> DEFINE moved == [b EXCEPT !.draft = FALSE]
  <2>1. memory'.batches = (memory.batches \ {b}) \cup {moved}
    BY <1>1, <1>6 DEF Advance, Snapshot
  <2> HIDE DEF moved
  <2>2. IsFiniteSet(memory.batches \ {b})
    BY <1>1, FS_RemoveElement
  <2>3. IsFiniteSet(memory'.batches)
    BY <2>1, <2>2, FS_AddElement
  <2>4. Follow /\ (Persisted \/ FailedToPersist)
    BY <1>6 DEF Advance
  <2> QED BY <1>1, <1>2, <2>3, <2>4, FollowStep
<1>7. CASE Restart
  BY <1>1, <1>7, FollowStep DEF Restart
<1>8. ASSUME NEW r \in Request, Replay(r) PROVE ListingInv'
  BY <1>1, <1>3, <1>8 DEF Replay
<1>9. ASSUME NEW draftOnly \in BOOLEAN, FirstPage(draftOnly) PROVE ListingInv'
  <2> DEFINE l == [NotListing EXCEPT !.draftOnly = draftOnly,
                                     !.steady = Keys(memory, draftOnly)]
  <2>1. Keys(memory, draftOnly) \in SUBSET Key
    BY <1>1, KeysOfStore
  <2>2. Turn(l)
    BY <1>9 DEF FirstPage, Keys
  <2>3. /\ NotListing \in Listing
        /\ NotListing.cursor = NoCursor /\ NotListing.seen = <<>>
    BY DEF NotListing, Listing
  <2>4. /\ l \in Listing /\ l.steady = Keys(memory, draftOnly)
        /\ l.draftOnly = draftOnly /\ l.cursor = NoCursor /\ l.seen = <<>>
    BY <2>1, <2>3 DEF Listing
  <2> HIDE DEF l
  <2>5. SeenInOrder(l)
    BY <2>4 DEF SeenInOrder
  <2> QED BY <1>1, <2>2, <2>4, <2>5, TurnStep
<1>10. CASE NextPage
  <2>1. listing.step = "paging" /\ Turn(listing)
    BY <1>10 DEF NextPage
  <2> QED BY <1>1, <2>1, TurnStep DEF ListingInv
<1>11. CASE UNCHANGED vars
  BY <1>1, <1>3, <1>11 DEF vars
<1> QED BY <1>4, <1>5, <1>6, <1>7, <1>8, <1>9, <1>10, <1>11 DEF Next

\* The listing is always in its place.
LEMMA ListingInvariant == Spec => []ListingInv
BY ListingInit, ListingStep, PTL DEF Spec

\* Every variable keeps its type: a page and its cursor are keys of batches,
\* whatever is listed.
THEOREM TypeCorrect == Spec => []TypeOK
<1>1. ListingInv => TypeOK
  BY DEF ListingInv, RegistryInv, StoreInv, TypeOK
<1> QED BY <1>1, ListingInvariant, PTL

\* A listing shows the batches in order and none twice, whatever is created,
\* moved on or lost between its pages, if the text of their times is in order.
THEOREM ListingIsInOrder == Spec => []ListingInOrder
<1>1. ListingInv => ListingInOrder
  BY DEF ListingInv, SeenInOrder, ListingInOrder
<1> QED BY <1>1, ListingInvariant, PTL

\* On the same condition no batch is missed that stayed from the first page to
\* the last.
THEOREM SteadyBatchIsListed == Spec => []SteadyBatchesListed
<1>1. ListingInv => SteadyBatchesListed
  <2> SUFFICES ASSUME ListingInv, listing.step = "done",
                      TextInOrder(Range(listing.seen) \cup listing.steady),
                      NEW k \in listing.steady
               PROVE  k \in Range(listing.seen)
    BY DEF SteadyBatchesListed
  <2>1. TextInOrder(Range(listing.seen) \cup {k})
    BY FewerInOrder
  <2> QED BY <2>1 DEF ListingInv, Covered
<1> QED BY <1>1, ListingInvariant, PTL

=============================================================================
