-------------------------- MODULE DurabilityProofs --------------------------
(***************************************************************************)
(* Theorems about Durability, for every set of batches and requests, any   *)
(* number of failed writes and interrupted operations.                     *)
(***************************************************************************)
EXTENDS Durability, TLAPS

-----------------------------------------------------------------------------
(* Type correctness *)

\* A service that starts for the first time has empty files.
LEMMA TypeInit == Init => TypeOK
<1> SUFFICES ASSUME Init PROVE TypeOK
  OBVIOUS
<1>1. Empty \in Snapshot
  BY DEF Snapshot, Empty, NoAnswer
<1>2. /\ log \in Seq(Event)
      /\ made \in Nat
      /\ tail \in 0..made
      /\ op = Idle
      /\ acked \subseteq Request
  BY DEF Init, NoDigest
<1>3. faults \in 0..MaxFaults /\ crashes \in 0..MaxCrashes
  BY BoundAssumption DEF Init
<1> QED BY <1>1, <1>2, <1>3 DEF Init, TypeOK

\* A request names one of the batches and one of the ids.
LEMMA RequestFields ==
    ASSUME NEW r \in Request
    PROVE  /\ r.id \in RequestId
           /\ r.batch \in Batch
           /\ r.expected \in Nat
           /\ r.events \in 1..2
BY RequestAssumption DEF RequestShape

\* What an operation in progress holds.
LEMMA OperationFields ==
    ASSUME op \in {Idle} \cup Operation, op # Idle
    PROVE  /\ op \in Operation
           /\ op.request \in Request
           /\ op.left \in 0..2
           /\ op.step = "append" => op.left \in 1..2
BY DEF Operation

\* A request added to the history of its batch leaves a snapshot.
LEMMA PutType ==
    ASSUME NEW s \in Snapshot, NEW r \in Request
    PROVE  [s EXCEPT !.batches[r.batch] = Append(@, r)] \in Snapshot
<1>1. [s.batches EXCEPT ![r.batch] = Append(@, r)] \in [Batch -> Seq(Request)]
  BY RequestFields DEF Snapshot
<1> QED BY <1>1 DEF Snapshot

\* So does an answer added to the record.
LEMMA SaveType ==
    ASSUME NEW s \in Snapshot, NEW r \in Request
    PROVE  [s EXCEPT !.answers[r.id] = AnswerTo(r)] \in Snapshot
<1>1. [s.answers EXCEPT ![r.id] = AnswerTo(r)] \in [RequestId -> Nat]
  BY RequestFields DEF Snapshot, AnswerTo
<1> QED BY <1>1 DEF Snapshot

\* An event apart from how much of it can be read.
SameEvent(l, e) ==
    /\ l.batch = e.batch
    /\ l.revision = e.revision
    /\ l.prev = e.prev
    /\ l.digest = e.digest

\* What an attempt to write an event may leave of the log.
Attempts(e) == {log, Append(log, e)} \cup CutShort(e)

\* Such an attempt changes no event that is there and adds at most the new one.
LEMMA LogChange ==
    ASSUME log \in Seq(Event), NEW e \in Event, NEW after \in Attempts(e)
    PROVE  /\ after \in Seq(Event)
           /\ Len(log) <= Len(after)
           /\ \A i \in DOMAIN log : after[i] = log[i]
           /\ \A i \in DOMAIN after :
                 \/ SameEvent(after[i], e)
                 \/ i \in DOMAIN log /\ after[i] = log[i]
<1>1. CASE after = log
  BY <1>1
<1>2. CASE after # log
  <2>1. ASSUME NEW f \in {"unended", "torn"}
        PROVE  /\ [e EXCEPT !.form = f] \in Event
               /\ SameEvent([e EXCEPT !.form = f], e)
    BY DEF Event, SameEvent
  <2>2. PICK l \in Event : after = Append(log, l) /\ SameEvent(l, e)
    BY <1>2, <2>1 DEF Attempts, CutShort, SameEvent
  <2>3. after \in Seq(Event) /\ Len(after) = Len(log) + 1
        /\ after[Len(log) + 1] = l
        /\ \A i \in DOMAIN log : after[i] = log[i]
    BY <2>2
  <2> QED BY <2>2, <2>3
<1> QED BY <1>1, <1>2

\* The next event of the operation in progress is an event of the log.
LEMMA NewEventType ==
    ASSUME TypeOK, op \in Operation
    PROVE  NewEvent \in Event
<1>1. op.request \in Request /\ tail \in Nat /\ made + 1 \in Nat
  BY DEF Operation, TypeOK
<1>2. op.request.batch \in Batch /\ op.request.expected + 1 \in Nat
  BY <1>1, RequestFields
<1> QED BY <1>1, <1>2 DEF NewEvent, Event

\* No event has a digest that was not made.  The tail that a restart takes from
\* the log is one of them.
DigestsMade == \A i \in DOMAIN log : log[i].digest \in 1..made

TypeInv == TypeOK /\ DigestsMade

\* A restart finds the tail of the chain in the log, or starts a new chain.
LEMMA StartTail ==
    ASSUME NEW events \in Seq(Event), NEW n \in Nat,
           \A i \in DOMAIN events : events[i].digest \in 1..n
    PROVE  RestoredTail(events) \in 0..n
<1>1. CASE events # <<>>
  <2>1. Len(events) \in DOMAIN events
    BY <1>1
  <2> QED BY <2>1 DEF RestoredTail, Last, NoDigest
<1>2. CASE events = <<>>
  BY <1>2 DEF RestoredTail, NoDigest
<1> QED BY <1>1, <1>2

\* Trying to log an event leaves events with digests that were made.
LEMMA EventLogged ==
    ASSUME TypeInv, op \in Operation, made' = made + 1,
           log' \in Attempts(NewEvent)
    PROVE  log' \in Seq(Event) /\ made' \in Nat /\ DigestsMade'
<1>1. NewEvent \in Event /\ NewEvent.digest = made + 1
  BY NewEventType DEF TypeInv, NewEvent
<1>2. log \in Seq(Event) /\ made \in Nat
  BY DEF TypeInv, TypeOK
<1>3. log' \in Seq(Event)
      /\ \A i \in DOMAIN log' :
            \/ SameEvent(log'[i], NewEvent)
            \/ i \in DOMAIN log /\ log'[i] = log[i]
  BY <1>1, <1>2, LogChange
<1>4. \A i \in DOMAIN log' : log'[i].digest \in 1..made'
  BY <1>1, <1>2, <1>3 DEF SameEvent, TypeInv, DigestsMade
<1> QED BY <1>2, <1>3, <1>4 DEF DigestsMade

\* Every step keeps every field in its range.
LEMMA TypeStep == TypeInv /\ [Next]_vars => TypeInv'
<1> SUFFICES ASSUME TypeInv, [Next]_vars PROVE TypeInv'
  OBVIOUS
<1> USE DEF TypeInv
<1>1. ASSUME NEW r \in Request, Replay(r) PROVE TypeInv'
  BY <1>1 DEF Replay, files, TypeOK, DigestsMade
<1>2. ASSUME NEW r \in Request, Put(r) PROVE TypeInv'
  <2>1. memory' \in Snapshot
    <3>1. [memory EXCEPT !.batches[r.batch] = Append(@, r)] \in Snapshot
      BY PutType DEF TypeOK
    <3> QED BY <1>2, <3>1 DEF Put
  <2>2. snapshot' \in Snapshot /\ faults' \in 0..MaxFaults
    <3>1. Persisted \/ FailedToPersist
      BY <1>2 DEF Put, PutFailed
    <3> QED BY <2>1, <3>1, BoundAssumption
            DEF Persisted, FailedToPersist, TypeOK
  <2>3. Commit(r) \in Operation
    BY RequestFields DEF Commit, Operation
  <2>4. op' \in {Idle} \cup Operation
    BY <1>2, <2>3 DEF Put, PutFailed
  <2> QED BY <1>2, <2>1, <2>2, <2>4 DEF Put, audit, TypeOK, DigestsMade
<1>3. ASSUME AppendEvent PROVE TypeInv'
  <2>1. op \in Operation /\ op.left \in 1..2
    BY <1>3 DEF AppendEvent, TypeOK, Operation, Idle
  <2>4. log' \in Seq(Event) /\ made' = made + 1 /\ DigestsMade'
    BY <1>3, <2>1, EventLogged
       DEF AppendEvent, ExtendChain, Attempts
  <2>5. made' \in Nat /\ tail' \in 0..made'
    BY <1>3 DEF AppendEvent, ExtendChain, TypeOK
  <2>6. op' \in {Idle} \cup Operation
    <3>1. EventDone
      BY <1>3 DEF AppendEvent
    <3>2. CASE op.left = 1
      BY <2>1, <3>1, <3>2 DEF EventDone, Operation
    <3>3. CASE op.left = 2
      <4>1. op' = [op EXCEPT !.left = 1]
        BY <3>1, <3>3 DEF EventDone
      <4>2. op.step = "append"
        BY <1>3 DEF AppendEvent
      <4> QED BY <2>1, <4>1, <4>2 DEF Operation
    <3> QED BY <2>1, <3>2, <3>3
  <2>7. faults' \in 0..MaxFaults
    BY <1>3, BoundAssumption DEF AppendEvent, TypeOK
  <2> QED BY <1>3, <2>4, <2>5, <2>6, <2>7 DEF AppendEvent, TypeOK
<1>4. ASSUME SaveIdempotency PROVE TypeInv'
  <2>1. op.request \in Request
    BY <1>4, OperationFields DEF SaveIdempotency, TypeOK, Idle
  <2>2. memory' \in Snapshot
    BY <1>4, <2>1, SaveType DEF SaveIdempotency, TypeOK
  <2>3. snapshot' \in Snapshot /\ faults' \in 0..MaxFaults
    BY <1>4, <2>2, BoundAssumption
       DEF SaveIdempotency, Persisted, FailedToPersist, TypeOK
  <2> QED BY <1>4, <2>1, <2>2, <2>3
          DEF SaveIdempotency, audit, TypeOK, DigestsMade
<1>5. ASSUME Restart PROVE TypeInv'
  <2>1. tail' \in 0..made
    BY <1>5, StartTail DEF Restart, Start, TypeOK, DigestsMade
  <2> QED BY <1>5, <2>1 DEF Restart, Start, TypeOK, DigestsMade
<1>6. ASSUME Crash PROVE TypeInv'
  <2>1. log' \in Seq(Event) /\ made' \in Nat /\ DigestsMade'
    <3>1. CASE UNCHANGED <<log, made>>
      BY <3>1 DEF TypeOK, DigestsMade
    <3>2. CASE /\ op.step = "append"
                /\ log' \in CutShort(NewEvent)
                /\ made' = made + 1
      BY <1>6, <3>2, EventLogged, OperationFields
         DEF Crash, Attempts, TypeOK
    <3> QED BY <1>6, <3>1, <3>2 DEF Crash
  <2>2. tail' \in 0..made'
    BY <1>6, <2>1, StartTail DEF Crash, Start, DigestsMade
  <2>3. crashes' \in 0..MaxCrashes
    BY <1>6, BoundAssumption DEF Crash, TypeOK
  <2> QED BY <1>6, <2>1, <2>2, <2>3 DEF Crash, Start, TypeOK, DigestsMade
<1>7. ASSUME UNCHANGED vars PROVE TypeInv'
  BY <1>7 DEF vars, TypeOK, DigestsMade
<1> QED BY <1>1, <1>2, <1>3, <1>4, <1>5, <1>6, <1>7 DEF Next

\* Every field keeps to its range, and an operation appends exactly the events
\* it has to before it records its answer.
THEOREM TypeCorrect == Spec => []TypeOK
<1>1. Init => TypeInv
  BY TypeInit DEF TypeInv, Init, DigestsMade
<1>2. TypeInv => TypeOK
  BY DEF TypeInv
<1> QED BY <1>1, <1>2, TypeStep, PTL DEF Spec

-----------------------------------------------------------------------------
(* Histories: what memory and the snapshot file hold *)

\* A request stands in the history of its own batch, at the revision it makes.
Placed(s) ==
    \A b \in Batch : \A n \in DOMAIN s.batches[b] :
        s.batches[b][n].batch = b /\ s.batches[b][n].expected + 1 = n

\* Memory holds what the file holds, and perhaps more.
Behind(s, t) ==
    \A b \in Batch :
        /\ Len(s.batches[b]) <= Len(t.batches[b])
        /\ \A n \in DOMAIN s.batches[b] : t.batches[b][n] = s.batches[b][n]

\* An operation past its Put is in the file, and so is all there is in memory.
PutPersisted ==
    op # Idle => /\ snapshot.batches = memory.batches
                 /\ InHistory(snapshot, op.request)

Histories ==
    /\ Placed(memory)
    /\ Placed(snapshot)
    /\ Behind(snapshot, memory)
    /\ PutPersisted

HistoryInv == Histories /\ LogNotAheadOfSnapshot

StoreInv == TypeInv /\ HistoryInv

\* A request put at the revision it expects stands in its place, behind all
\* that was there.
LEMMA PutHistory ==
    ASSUME NEW s \in Snapshot, Placed(s), NEW r \in Request,
           Len(s.batches[r.batch]) = r.expected,
           NEW t, t = [s EXCEPT !.batches[r.batch] = Append(@, r)]
    PROVE  Placed(t) /\ Behind(s, t) /\ InHistory(t, r)
<1> DEFINE h == s.batches
<1>1. h \in [Batch -> Seq(Request)] /\ r.batch \in Batch /\ r.expected \in Nat
  BY RequestFields DEF Snapshot
<1>2. t.batches = [h EXCEPT ![r.batch] = Append(@, r)]
  BY DEF Snapshot
<1>3. ASSUME NEW b \in Batch, b # r.batch PROVE t.batches[b] = h[b]
  BY <1>1, <1>2, <1>3
<1>4. t.batches[r.batch] = Append(h[r.batch], r)
  BY <1>1, <1>2
<1>5. h[r.batch] \in Seq(Request)
  BY <1>1
<1>6. /\ Len(t.batches[r.batch]) = r.expected + 1
      /\ DOMAIN t.batches[r.batch] = 1..(r.expected + 1)
      /\ t.batches[r.batch][r.expected + 1] = r
      /\ \A n \in DOMAIN h[r.batch] : t.batches[r.batch][n] = h[r.batch][n]
      /\ DOMAIN h[r.batch] = 1..r.expected
  BY <1>1, <1>4, <1>5
<1>7. Placed(t)
  <2>1. ASSUME NEW b \in Batch, NEW n \in DOMAIN t.batches[b]
        PROVE  t.batches[b][n].batch = b /\ t.batches[b][n].expected + 1 = n
    <3>1. CASE b # r.batch
      BY <1>3, <2>1, <3>1 DEF Placed
    <3>2. CASE b = r.batch /\ n = r.expected + 1
      BY <1>6, <3>2
    <3>3. CASE b = r.batch /\ n # r.expected + 1
      <4>1. n \in DOMAIN h[b] /\ t.batches[b][n] = h[b][n]
        BY <1>1, <1>6, <2>1, <3>3
      <4> QED BY <4>1 DEF Placed
    <3> QED BY <3>1, <3>2, <3>3
  <2> QED BY <2>1 DEF Placed
<1>8. Behind(s, t)
  <2>1. ASSUME NEW b \in Batch
        PROVE  /\ Len(h[b]) <= Len(t.batches[b])
               /\ \A n \in DOMAIN h[b] : t.batches[b][n] = h[b][n]
    <3>1. CASE b # r.batch
      <4>1. Len(h[b]) \in Nat
        BY <1>1
      <4> QED BY <1>3, <3>1, <4>1
    <3>2. CASE b = r.batch
      BY <1>1, <1>6, <3>2
    <3> QED BY <3>1, <3>2
  <2> QED BY <2>1 DEF Behind
<1>9. InHistory(t, r)
  BY <1>1, <1>6 DEF InHistory
<1> QED BY <1>7, <1>8, <1>9

\* What a history holds, a longer one that begins with it holds too.
LEMMA BehindKeeps ==
    ASSUME NEW s \in Snapshot, NEW t \in Snapshot, Behind(s, t),
           NEW r \in Request, InHistory(s, r)
    PROVE  InHistory(t, r)
<1>1. r.batch \in Batch
  BY RequestFields
<1>2. PICK n \in DOMAIN s.batches[r.batch] : s.batches[r.batch][n] = r
  BY DEF InHistory
<1>3. n \in DOMAIN t.batches[r.batch]
  BY <1>1 DEF Behind, Snapshot
<1> QED BY <1>1, <1>2, <1>3 DEF Behind, InHistory

\* A batch that holds a request has reached the revision the request made.
LEMMA HistoryReaches ==
    ASSUME NEW s \in Snapshot, Placed(s), NEW r \in Request, InHistory(s, r)
    PROVE  /\ r.expected + 1 \in 1..Revision(s, r.batch)
           /\ s.batches[r.batch][r.expected + 1] = r
<1>1. r.batch \in Batch /\ r.expected \in Nat
  BY RequestFields
<1>2. PICK n \in DOMAIN s.batches[r.batch] : s.batches[r.batch][n] = r
  BY DEF InHistory
<1>3. n = r.expected + 1
  BY <1>1, <1>2 DEF Placed
<1>4. DOMAIN s.batches[r.batch] = 1..Len(s.batches[r.batch])
  BY <1>1 DEF Snapshot
<1> QED BY <1>2, <1>3, <1>4 DEF Revision

\* A prefix of a prefix is a prefix, and a history is a prefix of itself.
LEMMA BehindOrder ==
    ASSUME NEW s \in Snapshot, NEW t \in Snapshot, NEW u \in Snapshot
    PROVE  /\ s.batches = t.batches => Behind(s, t)
           /\ Behind(s, t) /\ Behind(t, u) => Behind(s, u)
<1>1. \A b \in Batch : /\ s.batches[b] \in Seq(Request)
                       /\ t.batches[b] \in Seq(Request)
                       /\ u.batches[b] \in Seq(Request)
  BY DEF Snapshot
<1>2. ASSUME s.batches = t.batches PROVE Behind(s, t)
  <2>1. \A b \in Batch : Len(s.batches[b]) \in Nat
    BY <1>1
  <2> QED BY <1>2, <2>1 DEF Behind
<1>3. ASSUME Behind(s, t), Behind(t, u) PROVE Behind(s, u)
  <2>1. ASSUME NEW b \in Batch
        PROVE  /\ Len(s.batches[b]) <= Len(u.batches[b])
               /\ \A n \in DOMAIN s.batches[b] : u.batches[b][n] = s.batches[b][n]
    <3>1. /\ Len(s.batches[b]) <= Len(t.batches[b])
          /\ Len(t.batches[b]) <= Len(u.batches[b])
      BY <1>3 DEF Behind
    <3>2. \A n \in DOMAIN s.batches[b] : n \in DOMAIN t.batches[b]
      BY <1>1, <3>1
    <3> QED BY <1>1, <1>3, <3>1, <3>2 DEF Behind
  <2> QED BY <2>1 DEF Behind
<1> QED BY <1>2, <1>3

\* Recording an answer leaves the batches alone.
LEMMA SaveKeepsBatches ==
    ASSUME TypeOK, SaveIdempotency
    PROVE  memory'.batches = memory.batches
BY DEF SaveIdempotency, TypeOK, Snapshot

\* A batch that is put makes memory longer than it was.
LEMMA PutGrowsMemory ==
    ASSUME StoreInv, NEW r \in Request, Put(r)
    PROVE  /\ memory' \in Snapshot
           /\ Placed(memory')
           /\ Behind(memory, memory')
           /\ InHistory(memory', r)
<1>1. memory \in Snapshot /\ Placed(memory)
  BY DEF StoreInv, TypeInv, TypeOK, HistoryInv, Histories
<1>2. memory' = [memory EXCEPT !.batches[r.batch] = Append(@, r)]
      /\ Len(memory.batches[r.batch]) = r.expected
  BY DEF Put, RevisionMatches
<1>3. memory' \in Snapshot
  BY <1>1, <1>2, PutType
<1>4. /\ Placed(memory')
      /\ Behind(memory, memory')
      /\ InHistory(memory', r)
  BY <1>1, <1>2, PutHistory
<1> QED BY <1>3, <1>4

\* No step, a crash and a failed write included, takes anything from the
\* histories in the snapshot file.
LEMMA SnapshotGrows ==
    ASSUME StoreInv, [Next]_vars
    PROVE  Behind(snapshot, snapshot')
<1>0. /\ TypeOK /\ memory \in Snapshot /\ snapshot \in Snapshot
      /\ Behind(snapshot, memory)
  BY DEF StoreInv, TypeInv, TypeOK, HistoryInv, Histories
<1>1. CASE UNCHANGED snapshot
  BY <1>0, <1>1, BehindOrder
<1>2. ASSUME NEW r \in Request, Put(r) PROVE Behind(snapshot, snapshot')
  <2>1. memory' \in Snapshot /\ Behind(memory, memory')
    BY <1>2, PutGrowsMemory
  <2>2. Behind(snapshot, memory')
    BY <1>0, <2>1, BehindOrder
  <2>3. snapshot' = memory' \/ snapshot' = snapshot
    BY <1>2 DEF Put, PutFailed, Persisted, FailedToPersist
  <2> QED BY <1>1, <2>2, <2>3
<1>3. CASE SaveIdempotency
  <2>1. op # Idle /\ snapshot.batches = memory.batches
    BY <1>3 DEF SaveIdempotency, Idle, StoreInv, HistoryInv, Histories, PutPersisted
  <2>2. snapshot'.batches = snapshot.batches
    BY <1>0, <1>3, <2>1, SaveKeepsBatches
       DEF SaveIdempotency, Persisted, FailedToPersist
  <2>3. snapshot' \in Snapshot
    BY <1>0, TypeStep DEF StoreInv, TypeInv, TypeOK
  <2> QED BY <1>0, <2>2, <2>3, BehindOrder
<1>4. ASSUME ~SaveIdempotency, \A r \in Request : ~Put(r)
      PROVE  UNCHANGED snapshot
  BY <1>4 DEF Next, vars, Replay, AppendEvent, Restart, Crash, Start, files
<1> QED BY <1>1, <1>2, <1>3, <1>4

\* The log never gets ahead of the file: an event is written after the Put that
\* made its revision, and the file does not shrink.
LEMMA LogStep ==
    ASSUME StoreInv, [Next]_vars
    PROVE  LogNotAheadOfSnapshot'
<1>1. /\ snapshot \in Snapshot /\ snapshot' \in Snapshot
      /\ log \in Seq(Event) /\ log' \in Seq(Event)
      /\ Behind(snapshot, snapshot')
      /\ LogNotAheadOfSnapshot
  BY TypeStep, SnapshotGrows DEF StoreInv, TypeInv, TypeOK, HistoryInv, Histories
<1>2. ASSUME NEW b \in Batch
      PROVE  /\ Revision(snapshot, b) \in Nat /\ Revision(snapshot', b) \in Nat
             /\ Revision(snapshot, b) <= Revision(snapshot', b)
  BY <1>1 DEF Behind, Revision, Snapshot
<1>3. \/ log' = log
      \/ /\ op # Idle
         /\ log' \in Attempts(NewEvent)
  BY DEF Next, vars, Replay, Put, AppendEvent, SaveIdempotency, Restart, Crash,
         Start, files, audit, Idle, Attempts
<1>4. \A i \in DOMAIN log : /\ log[i].batch \in Batch /\ log[i].revision \in Nat
                            /\ log[i].revision <= Revision(snapshot, log[i].batch)
  <2>1. ASSUME NEW i \in DOMAIN log
        PROVE  log[i].batch \in Batch /\ log[i].revision \in Nat
    <3>1. log[i] \in Event
      BY <1>1
    <3> QED BY <3>1 DEF Event
  <2> QED BY <1>1, <2>1 DEF LogNotAheadOfSnapshot
<1>5. CASE log' = log
  BY <1>2, <1>4, <1>5 DEF LogNotAheadOfSnapshot
<1>6. CASE op # Idle /\ log' \in Attempts(NewEvent)
  <2>1. op \in Operation /\ op.request \in Request
    BY <1>6, OperationFields DEF StoreInv, TypeInv, TypeOK
  <2>2. InHistory(snapshot, op.request) /\ Placed(snapshot)
    BY <1>6 DEF StoreInv, HistoryInv, Histories, PutPersisted
  <2>3. op.request.expected + 1 \in 1..Revision(snapshot, op.request.batch)
    BY <1>1, <2>1, <2>2, HistoryReaches
  <2>4. /\ NewEvent \in Event
        /\ NewEvent.batch = op.request.batch
        /\ NewEvent.revision = op.request.expected + 1
    BY <2>1, NewEventType DEF NewEvent, StoreInv, TypeInv
  <2>5. \A i \in DOMAIN log' :
           \/ SameEvent(log'[i], NewEvent)
           \/ i \in DOMAIN log /\ log'[i] = log[i]
    BY <1>1, <1>6, <2>4, LogChange
  <2>6. op.request.batch \in Batch
    BY <2>1, RequestFields
  <2> QED BY <1>2, <1>4, <2>3, <2>4, <2>5, <2>6
          DEF LogNotAheadOfSnapshot, SameEvent
<1> QED BY <1>3, <1>5, <1>6

\* Every step keeps the histories in order: the file takes over what memory has,
\* and memory falls back to the file when the process starts again.
LEMMA HistoriesStep == StoreInv /\ [Next]_vars => Histories'
<1> SUFFICES ASSUME StoreInv, [Next]_vars PROVE Histories'
  OBVIOUS
<1>1. /\ TypeOK
      /\ memory \in Snapshot /\ snapshot \in Snapshot
      /\ memory' \in Snapshot /\ snapshot' \in Snapshot
  BY TypeStep DEF StoreInv, TypeInv, TypeOK
<1>2. Histories
  BY DEF StoreInv, HistoryInv
<1>3. ASSUME UNCHANGED <<memory, snapshot>>, op' # Idle => op # Idle,
             op' # Idle => op'.request = op.request
      PROVE  Histories'
  BY <1>2, <1>3 DEF Histories, PutPersisted, InHistory, Placed, Behind
<1>4. ASSUME NEW r \in Request, Put(r) PROVE Histories'
  <2>1. Placed(memory') /\ Behind(memory, memory') /\ InHistory(memory', r)
    BY <1>4, PutGrowsMemory
  <2>2. CASE Persisted /\ op' = Commit(r)
    <3>1. snapshot' = memory' /\ op'.request = r
      BY <2>2 DEF Persisted, Commit
    <3>2. Behind(snapshot', memory')
      BY <1>1, <3>1, BehindOrder
    <3> QED BY <2>1, <3>1, <3>2 DEF Histories, PutPersisted
  <2>3. CASE PutFailed(r)
    <3>1. snapshot' = snapshot /\ op' = Idle
      BY <2>3 DEF PutFailed, FailedToPersist
    <3>2. Behind(snapshot', memory')
      BY <1>1, <1>2, <2>1, <3>1, BehindOrder DEF Histories
    <3> QED BY <1>2, <2>1, <3>1, <3>2 DEF Histories, PutPersisted
  <2> QED BY <1>4, <2>2, <2>3 DEF Put
<1>5. ASSUME AppendEvent PROVE Histories'
  <2>1. op # Idle /\ op'.request = op.request
    <3>1. op \in Operation /\ op # Idle
      BY <1>1, <1>5 DEF AppendEvent, TypeOK, Idle
    <3>2. EventDone
      BY <1>5 DEF AppendEvent
    <3> QED BY <3>1, <3>2 DEF EventDone, Operation
  <2> QED BY <1>3, <1>5, <2>1 DEF AppendEvent
<1>6. ASSUME SaveIdempotency PROVE Histories'
  <2>1. memory'.batches = memory.batches /\ op' = Idle
        /\ (snapshot' = memory' \/ snapshot' = snapshot)
    BY <1>1, <1>6, SaveKeepsBatches
       DEF SaveIdempotency, Persisted, FailedToPersist
  <2>2. snapshot.batches = memory.batches
    BY <1>2, <1>6 DEF SaveIdempotency, Idle, Histories, PutPersisted
  <2>3. snapshot'.batches = memory'.batches
    BY <2>1, <2>2
  <2>4. Behind(snapshot', memory')
    BY <1>1, <2>3, BehindOrder
  <2> QED BY <1>2, <2>1, <2>2, <2>4 DEF Histories, Placed, PutPersisted
<1>7. ASSUME Restart \/ Crash PROVE Histories'
  <2>1. memory' = snapshot /\ snapshot' = snapshot /\ op' = Idle
    BY <1>7 DEF Restart, Crash, Start
  <2>2. Behind(snapshot', memory')
    BY <1>1, <2>1, BehindOrder
  <2> QED BY <1>2, <2>1, <2>2 DEF Histories, PutPersisted
<1>8. ASSUME NEW r \in Request, Replay(r) PROVE Histories'
  BY <1>3, <1>8 DEF Replay, files
<1>9. ASSUME UNCHANGED vars PROVE Histories'
  BY <1>3, <1>9 DEF vars
<1> QED BY <1>4, <1>5, <1>6, <1>7, <1>8, <1>9 DEF Next

\* The store invariant holds in every state.
LEMMA StoreInvariant == Spec => []StoreInv
<1>1. Init => StoreInv
  <2> SUFFICES ASSUME Init PROVE StoreInv
    OBVIOUS
  <2>1. TypeInv /\ LogNotAheadOfSnapshot
    BY TypeInit DEF TypeInv, Init, DigestsMade, LogNotAheadOfSnapshot
  <2>2. Histories
    BY DEF Init, Empty, Histories, Placed, Behind, PutPersisted
  <2> QED BY <2>1, <2>2 DEF StoreInv, HistoryInv
<1>2. StoreInv /\ [Next]_vars => StoreInv'
  BY TypeStep, HistoriesStep, LogStep DEF StoreInv, HistoryInv
<1> QED BY <1>1, <1>2, PTL DEF Spec

\* A request sent again after a crash, a failed write or a lost answer is
\* applied at most once: it stands only at the revision it makes.
THEOREM AppliedOnceHolds == Spec => []AppliedOnce
<1>1. StoreInv => AppliedOnce
  <2> SUFFICES ASSUME StoreInv, NEW b \in Batch,
                      NEW h \in {memory.batches[b], snapshot.batches[b]},
                      NEW m \in DOMAIN h, NEW n \in DOMAIN h, h[m] = h[n]
               PROVE  m = n
    BY DEF AppliedOnce
  <2> QED BY DEF StoreInv, HistoryInv, Histories, Placed
<1> QED BY <1>1, StoreInvariant, PTL

\* The audit log never tells of a revision that a restart could forget.
THEOREM LogNotAhead == Spec => []LogNotAheadOfSnapshot
<1>1. StoreInv => LogNotAheadOfSnapshot
  BY DEF StoreInv, HistoryInv
<1> QED BY <1>1, StoreInvariant, PTL

-----------------------------------------------------------------------------
(* Answers: what the clients were told *)

\* No two requests share an id.  The service does not see to this: it takes
\* the id from the client, and a client that sends none gets an id made of
\* method and path.  Without it success may answer another request's id, which
\* is what SuccessMeansApplied is violated for.
UniqueIds == \A r, q \in Request : r.id = q.id => r = q

\* A snapshot answers only requests that are in the file, with the revision
\* they made.
AnswersDurable(s) ==
    \A r \in Request :
        Answered(s, r) =>
            s.answers[r.id] = AnswerTo(r) /\ InHistory(snapshot, r)

AnswerInv ==
    /\ StoreInv
    /\ AnswersDurable(memory)
    /\ AnswersDurable(snapshot)
    /\ AckedIsDurable

\* A request in the file stays in the file.
LEMMA DurableStays ==
    ASSUME StoreInv, [Next]_vars, NEW r \in Request, InHistory(snapshot, r)
    PROVE  InHistory(snapshot', r)
<1>1. snapshot \in Snapshot /\ snapshot' \in Snapshot
  BY TypeStep DEF StoreInv, TypeInv, TypeOK
<1> QED BY <1>1, SnapshotGrows, BehindKeeps

\* Recording an answer in memory answers the request in progress and no other.
LEMMA SaveAnswers ==
    ASSUME UniqueIds, AnswerInv, SaveIdempotency,
           NEW r \in Request, Answered(memory', r)
    PROVE  memory'.answers[r.id] = AnswerTo(r) /\ InHistory(snapshot, r)
<1>1. TypeOK /\ op # Idle
  BY DEF AnswerInv, StoreInv, TypeInv, SaveIdempotency, Idle
<1>2. op.request \in Request
  BY <1>1, OperationFields DEF TypeOK
<1>3. memory.answers \in [RequestId -> Nat] /\ r.id \in RequestId
  BY <1>1, RequestFields DEF TypeOK, Snapshot
<1>4. memory'.answers
        = [memory.answers EXCEPT ![op.request.id] = AnswerTo(op.request)]
  BY <1>1 DEF SaveIdempotency, TypeOK, Snapshot
<1>5. CASE r = op.request
  BY <1>1, <1>3, <1>4, <1>5
     DEF AnswerInv, StoreInv, HistoryInv, Histories, PutPersisted
<1>6. CASE r # op.request
  <2>1. r.id # op.request.id
    BY <1>2, <1>6 DEF UniqueIds
  <2>2. memory'.answers[r.id] = memory.answers[r.id]
    BY <1>3, <1>4, <2>1
  <2> QED BY <2>2 DEF Answered, AnswerInv, AnswersDurable
<1> QED BY <1>5, <1>6

\* Whatever memory and the file answer after a step is in the file.
LEMMA AnswersStep ==
    ASSUME UniqueIds, AnswerInv, [Next]_vars
    PROVE  AnswersDurable(memory)' /\ AnswersDurable(snapshot)'
<1>1. \/ SaveIdempotency
      \/ memory'.answers = memory.answers
      \/ memory'.answers = snapshot.answers
  <2>1. ASSUME NEW r \in Request, Put(r)
        PROVE  memory'.answers = memory.answers
    BY <2>1 DEF Put, AnswerInv, StoreInv, TypeInv, TypeOK, Snapshot
  <2> QED BY <2>1 DEF Next, vars, Replay, AppendEvent, Restart, Crash, Start
<1>2. snapshot' = snapshot \/ snapshot' = memory'
  BY DEF Next, vars, Replay, Put, PutFailed, AppendEvent, SaveIdempotency,
         Restart, Crash, Start, Persisted, FailedToPersist, files
<1>3. ASSUME NEW r \in Request, Answered(memory', r)
      PROVE  memory'.answers[r.id] = AnswerTo(r) /\ InHistory(snapshot, r)
  <2>1. CASE SaveIdempotency
    BY <1>3, <2>1, SaveAnswers
  <2>2. CASE ~SaveIdempotency
    BY <1>1, <1>3, <2>2 DEF Answered, AnswerInv, AnswersDurable
  <2> QED BY <2>1, <2>2
<1>4. ASSUME NEW r \in Request, Answered(snapshot', r)
      PROVE  snapshot'.answers[r.id] = AnswerTo(r) /\ InHistory(snapshot, r)
  BY <1>2, <1>3, <1>4 DEF Answered, AnswerInv, AnswersDurable
<1>5. \A r \in Request : InHistory(snapshot, r) => InHistory(snapshot', r)
  BY DurableStays DEF AnswerInv
<1> QED BY <1>3, <1>4, <1>5 DEF AnswersDurable, Answered, AnswerTo, InHistory

\* A request is acknowledged from the record of answers, or at the end of the
\* operation that put it in the file; and it stays there.
LEMMA AckedStep ==
    ASSUME AnswerInv, [Next]_vars
    PROVE  AckedIsDurable'
<1>1. \A r \in Request : InHistory(snapshot, r) => InHistory(snapshot', r)
  BY DurableStays DEF AnswerInv
<1>2. TypeOK /\ acked \subseteq Request /\ AckedIsDurable
  BY DEF AnswerInv, StoreInv, TypeInv, TypeOK
<1>3. ASSUME NEW r \in Request, Replay(r) PROVE AckedIsDurable'
  <2>1. acked' = acked \cup {r} /\ InHistory(snapshot, r)
    BY <1>3 DEF Replay, AnswerInv, AnswersDurable
  <2> QED BY <1>1, <1>2, <2>1 DEF AckedIsDurable, InHistory
<1>4. ASSUME SaveIdempotency PROVE AckedIsDurable'
  <2>1. op # Idle
    BY <1>4 DEF SaveIdempotency, Idle
  <2>2. op.request \in Request
    BY <1>2, <2>1, OperationFields DEF TypeOK
  <2>3. InHistory(snapshot, op.request)
    BY <2>1 DEF AnswerInv, StoreInv, HistoryInv, Histories, PutPersisted
  <2>4. acked' = acked \cup {op.request}
    BY <1>4 DEF SaveIdempotency
  <2> QED BY <1>1, <1>2, <2>2, <2>3, <2>4 DEF AckedIsDurable, InHistory
<1>5. CASE acked' = acked
  BY <1>1, <1>2, <1>5 DEF AckedIsDurable, InHistory
<1> QED BY <1>3, <1>4, <1>5
        DEF Next, vars, Put, AppendEvent, Restart, Crash, Start

\* The answer invariant holds in every state, given unique request ids.
LEMMA AnswerInvariant ==
    ASSUME UniqueIds PROVE Spec => []AnswerInv
<1>1. Init => AnswersDurable(memory) /\ AnswersDurable(snapshot)
              /\ AckedIsDurable
  <2> SUFFICES ASSUME Init
               PROVE  /\ AnswersDurable(memory)
                      /\ AnswersDurable(snapshot)
                      /\ AckedIsDurable
    OBVIOUS
  <2>1. \A r \in Request : ~Answered(Empty, r)
    BY RequestFields DEF Answered, Empty, NoAnswer
  <2> QED BY <2>1 DEF Init, AnswersDurable, AckedIsDurable
<1>2. AnswerInv /\ [Next]_vars
        => AnswersDurable(memory)' /\ AnswersDurable(snapshot)'
           /\ AckedIsDurable'
  BY AnswersStep, AckedStep
<1>3. AnswerInv <=> StoreInv /\ AnswersDurable(memory)
                    /\ AnswersDurable(snapshot) /\ AckedIsDurable
  BY DEF AnswerInv
<1> QED BY <1>1, <1>2, <1>3, StoreInvariant, PTL DEF Spec

\* A client that was told its request succeeded never loses it, whatever write
\* failed or crash came since.
THEOREM AckedStaysDurable ==
    ASSUME UniqueIds PROVE Spec => []AckedIsDurable
<1>1. AnswerInv => AckedIsDurable
  BY DEF AnswerInv
<1> QED BY <1>1, AnswerInvariant, PTL

\* A recorded answer is the revision its request made, in memory and in the
\* file alike.
THEOREM AnswersMatch ==
    ASSUME UniqueIds PROVE Spec => []AnswersMatchBatches
<1>1. AnswerInv => AnswersMatchBatches
  <2> SUFFICES ASSUME AnswerInv, NEW s \in {memory, snapshot},
                      NEW r \in Request, Answered(s, r)
               PROVE  /\ s.answers[r.id] \in 1..Revision(s, r.batch)
                      /\ s.batches[r.batch][s.answers[r.id]] = r
    BY DEF AnswersMatchBatches
  <2>1. /\ memory \in Snapshot /\ snapshot \in Snapshot
        /\ Placed(s) /\ Behind(snapshot, memory)
    BY DEF AnswerInv, StoreInv, TypeInv, TypeOK, HistoryInv, Histories
  <2>2. s.answers[r.id] = AnswerTo(r) /\ InHistory(snapshot, r)
    BY DEF AnswerInv, AnswersDurable
  <2>3. InHistory(s, r)
    BY <2>1, <2>2, BehindKeeps
  <2>4. /\ r.expected + 1 \in 1..Revision(s, r.batch)
        /\ s.batches[r.batch][r.expected + 1] = r
    BY <2>1, <2>3, HistoryReaches
  <2> QED BY <2>2, <2>4 DEF AnswerTo
<1> QED BY <1>1, AnswerInvariant, PTL

-----------------------------------------------------------------------------
(* Verification of the audit log *)

\* Verification up to an event looks at no event after it, except that the last
\* one of all may lack its newline.
LEMMA VerifyPrefix ==
    ASSUME TypeOK, log' \in Seq(Event), Len(log) <= Len(log'),
           \A i \in DOMAIN log : log'[i] = log[i],
           ~EndsUnended,
           NEW b \in Batch, NEW revision \in Nat, VerifyChain(b, revision)
    PROVE  VerifyChain(b, revision)'
<1>1. PICK n \in DOMAIN log :
         /\ log[n].batch = b
         /\ log[n].revision = revision
         /\ Chained(n)
         /\ \A i \in 1..n : log[i].batch = b =>
                /\ log[i].revision <= revision
                /\ log[i].revision - LastRevision(b, i) \in 0..1
  BY DEF VerifyChain
<1>2. DOMAIN log = 1..Len(log) /\ DOMAIN log' = 1..Len(log')
  BY DEF TypeOK
<1>3. n \in 1..Len(log) /\ n \in DOMAIN log'
  BY <1>2
<1>4. \A i \in 1..n : log'[i] = log[i]
  BY <1>2, <1>3
<1>5. Chained(n)'
  <2>1. ASSUME NEW i \in 1..n PROVE log[i].form = "whole" /\ Linked(log, i)
    <3>1. EndsLine(i) /\ Linked(log, i)
      BY <1>1, <2>1 DEF Chained
    <3>2. log # <<>>
      BY <1>3
    <3> QED BY <3>1, <3>2 DEF EndsLine, EndsUnended, Last
  <2>2. ASSUME NEW i \in 1..n PROVE PrevDigest(log', i) = PrevDigest(log, i)
    BY <1>3, <1>4, <2>2 DEF PrevDigest
  <2> QED BY <1>4, <2>1, <2>2 DEF Chained, EndsLine, Linked
<1>6. \A i \in 1..n : RevisionsBefore(b, i)' = RevisionsBefore(b, i)
  BY <1>3, <1>4 DEF RevisionsBefore
<1>7. \A i \in 1..n : LastRevision(b, i)' = LastRevision(b, i)
  BY <1>6 DEF LastRevision
<1>8. n \in 1..n
  BY <1>3
<1> QED BY <1>1, <1>3, <1>4, <1>5, <1>7, <1>8 DEF VerifyChain

\* No step, a failed write or a crash included, changes an event in the log.
LEMMA LogOnlyGrows ==
    ASSUME TypeInv, [Next]_vars
    PROVE  /\ log' \in Seq(Event)
           /\ Len(log) <= Len(log')
           /\ \A i \in DOMAIN log : log'[i] = log[i]
<1>1. \/ log' = log
      \/ op # Idle /\ log' \in Attempts(NewEvent)
  BY DEF Next, vars, Replay, Put, AppendEvent, SaveIdempotency, Restart, Crash,
         Start, files, audit, Idle, Attempts
<1>2. CASE log' = log
  BY <1>2 DEF TypeInv, TypeOK
<1>3. CASE op # Idle /\ log' \in Attempts(NewEvent)
  <2>1. NewEvent \in Event /\ log \in Seq(Event)
    BY <1>3, NewEventType, OperationFields DEF TypeInv, TypeOK
  <2> QED BY <1>3, <2>1, LogChange
<1> QED BY <1>1, <1>2, <1>3

\* A receipt, once good, stays good: no later write, failure or crash takes
\* back what VerifyChain said of a revision while the log ended with a newline.
THEOREM VerifiedStays == Spec => VerifiedStaysVerified
<1>1. StoreInv /\ [Next]_vars =>
        [~EndsUnended =>
            \A b \in Batch : \A n \in 1..Revision(snapshot, b) :
                VerifyChain(b, n) => VerifyChain(b, n)']_vars
  <2> SUFFICES ASSUME StoreInv, [Next]_vars, ~EndsUnended,
                      NEW b \in Batch, NEW n \in 1..Revision(snapshot, b),
                      VerifyChain(b, n)
               PROVE  VerifyChain(b, n)'
    OBVIOUS
  <2>1. TypeInv /\ n \in Nat
    BY DEF StoreInv
  <2> QED BY <2>1, LogOnlyGrows, VerifyPrefix DEF TypeInv
<1> QED BY <1>1, StoreInvariant, PTL DEF Spec, VerifiedStaysVerified

-----------------------------------------------------------------------------
(* The chain while no write fails and no operation is interrupted *)

\* The operation in progress has not told of the revision it made yet.
FirstPending(b) ==
    op.step = "append" /\ op.left = op.request.events /\ op.request.batch = b

\* The revision of the batch that the log has come to.
Told(b) == Revision(snapshot, b) - (IF FirstPending(b) THEN 1 ELSE 0)

IsLatest(b, i, revision) ==
    /\ revision \in RevisionsBefore(b, i) \cup {0}
    /\ \A x \in RevisionsBefore(b, i) \cup {0} : x <= revision

\* What an operation between its Put and its last event still has to tell.
PendingOK ==
    op.step = "append" =>
        /\ op.left <= op.request.events
        /\ Revision(snapshot, op.request.batch) = op.request.expected + 1

Gapless ==
    /\ \A i \in DOMAIN log :
          log[i].revision - LastRevision(log[i].batch, i) \in 0..1
    /\ \A b \in Batch : IsLatest(b, Len(log) + 1, Told(b))

\* Every event was written whole and refers to the one before it.
AllLinked == \A i \in DOMAIN log : log[i].form = "whole" /\ Linked(log, i)

Unbroken ==
    /\ snapshot = memory
    /\ PendingOK
    /\ AllLinked
    /\ tail = PrevDigest(log, Len(log) + 1)
    /\ Gapless

\* The latest revision is the greatest, which Max chooses.
LEMMA LatestIsLast ==
    ASSUME NEW b, NEW i, NEW revision \in Nat, IsLatest(b, i, revision),
           RevisionsBefore(b, i) \subseteq Nat
    PROVE  LastRevision(b, i) = revision
<1> DEFINE S == RevisionsBefore(b, i) \cup {0}
<1>1. revision \in S /\ \A x \in S : revision >= x
  BY DEF IsLatest
<1>2. Max(S) \in S /\ \A x \in S : Max(S) >= x
  BY <1>1 DEF Max
<1>3. Max(S) = revision
  BY <1>1, <1>2
<1> QED BY <1>3 DEF LastRevision

\* The revisions told of are numbers.
LEMMA RevisionsAreNumbers ==
    ASSUME log \in Seq(Event), NEW b, NEW i \in 1..(Len(log) + 1)
    PROVE  RevisionsBefore(b, i) \subseteq Nat
<1>1. ASSUME NEW j \in 1..(i - 1) PROVE log[j].revision \in Nat
  <2>1. log[j] \in Event
    <3>1. j \in 1..Len(log)
      OBVIOUS
    <3> QED BY <3>1
  <2> QED BY <2>1 DEF Event
<1> QED BY <1>1 DEF RevisionsBefore

\* An event written whole goes on with the chain and with the revisions of its
\* batch.
LEMMA EventExtends ==
    ASSUME StoreInv, Unbroken, op # Idle, op.step = "append",
           log' = Append(log, NewEvent), ExtendChain, EventDone, UNCHANGED snapshot
    PROVE  /\ AllLinked'
           /\ tail' = PrevDigest(log', Len(log') + 1)
           /\ PendingOK'
           /\ Gapless'
<1> DEFINE N == Len(log)
           b == op.request.batch
           rev == op.request.expected + 1
<1>1. /\ op \in Operation /\ op.request \in Request /\ b \in Batch
      /\ rev \in Nat /\ NewEvent \in Event /\ log \in Seq(Event)
      /\ op.left \in 1..2 /\ op.request.events \in 1..2 /\ N \in Nat
      /\ snapshot \in Snapshot /\ tail \in Nat /\ made \in Nat
  <2>1. TypeOK
    BY DEF StoreInv, TypeInv
  <2>2. op \in Operation /\ op.request \in Request /\ op.left \in 1..2
    BY <2>1, OperationFields DEF TypeOK
  <2> QED BY <2>1, <2>2, RequestFields, NewEventType DEF TypeOK
<1>3. /\ log' \in Seq(Event) /\ Len(log') = N + 1
      /\ log'[N + 1] = NewEvent
      /\ \A i \in 1..N : log'[i] = log[i]
      /\ DOMAIN log' = 1..(N + 1)
  BY <1>1
<1>4. /\ NewEvent.prev = tail /\ NewEvent.digest = made + 1
      /\ NewEvent.batch = b /\ NewEvent.revision = rev
      /\ NewEvent.form = "whole"
  BY DEF NewEvent
<1>5. AllLinked'
  <2>1. ASSUME NEW i \in 1..(N + 1)
        PROVE  log'[i].form = "whole" /\ log'[i].prev = PrevDigest(log', i)
    <3>1. CASE i \in 1..N
      <4>1. PrevDigest(log', i) = PrevDigest(log, i)
        BY <1>1, <1>3, <3>1 DEF PrevDigest
      <4>2. log[i].form = "whole" /\ Linked(log, i)
        BY <1>1, <3>1 DEF Unbroken, AllLinked
      <4> QED BY <1>3, <3>1, <4>1, <4>2 DEF Linked
    <3>2. CASE i = N + 1
      <4>1. PrevDigest(log', N + 1) = PrevDigest(log, N + 1)
        BY <1>1, <1>3 DEF PrevDigest
      <4> QED BY <1>3, <1>4, <3>2, <4>1 DEF Unbroken
    <3> QED BY <1>1, <3>1, <3>2
  <2> QED BY <1>3, <2>1 DEF AllLinked, Linked
<1>6. tail' = PrevDigest(log', N + 2)
  <2>1. PrevDigest(log', N + 2) = log'[N + 1].digest
    BY <1>1 DEF PrevDigest
  <2> QED BY <1>3, <1>4, <2>1 DEF ExtendChain
<1>7. /\ ~ \E c \in Batch : FirstPending(c)'
      /\ PendingOK'
      /\ \A c \in Batch : Revision(snapshot, c)' = Revision(snapshot, c)
  <2>1. op.left <= op.request.events /\ Revision(snapshot, b) = rev
    BY DEF Unbroken, PendingOK
  <2>2. op'.request = op.request
        /\ (op'.step = "save" \/ op'.left = op.left - 1)
    BY <1>1 DEF EventDone, Operation
  <2> QED BY <1>1, <2>1, <2>2 DEF FirstPending, PendingOK, Revision
<1>8. \A c \in Batch : \A i \in 1..(N + 1) :
         RevisionsBefore(c, i)' = RevisionsBefore(c, i)
  BY <1>1, <1>3 DEF RevisionsBefore
<1>9. \A c \in Batch :
         RevisionsBefore(c, Len(log) + 1)'
             = RevisionsBefore(c, N + 1) \cup (IF c = b THEN {rev} ELSE {})
  <2> SUFFICES ASSUME NEW c \in Batch, NEW x
               PROVE  x \in RevisionsBefore(c, Len(log) + 1)'
                        <=> \/ x \in RevisionsBefore(c, N + 1)
                            \/ c = b /\ x = rev
    OBVIOUS
  <2>1. x \in RevisionsBefore(c, Len(log) + 1)'
          <=> \E j \in 1..(N + 1) : log'[j].batch = c /\ x = log'[j].revision
    <3>1. (Len(log) + 1)' - 1 = N + 1
      BY <1>1, <1>3
    <3> QED BY <3>1 DEF RevisionsBefore
  <2>2. x \in RevisionsBefore(c, N + 1)
          <=> \E j \in 1..N : log[j].batch = c /\ x = log[j].revision
    BY <1>1 DEF RevisionsBefore
  <2>3. \A j : j \in 1..(N + 1) <=> j \in 1..N \/ j = N + 1
    BY <1>1
  <2> QED BY <1>3, <1>4, <2>1, <2>2, <2>3
<1>10. ASSUME NEW c \in Batch PROVE IsLatest(c, N + 1, Told(c))
  BY DEF Unbroken, Gapless
<1>11. /\ Told(b) \in Nat /\ rev - Told(b) \in 0..1
       /\ \A c \in Batch : c # b => Told(c) = Revision(snapshot, c)
       /\ \A c \in Batch : Told(c)' = Revision(snapshot, c)
  <2>1. Revision(snapshot, b) = rev /\ rev >= 1
    BY <1>1, RequestFields DEF Unbroken, PendingOK
  <2>2. \A c \in Batch : Revision(snapshot, c) \in Nat
    BY <1>1 DEF Revision, Snapshot
  <2>3. Told(b) = rev \/ Told(b) = rev - 1
    BY <1>1, <2>1 DEF Told
  <2>4. Told(b) \in Nat /\ rev - Told(b) \in 0..1
    BY <1>1, <2>1, <2>3
  <2>5. \A c \in Batch : c # b => Told(c) = Revision(snapshot, c)
    BY <2>2 DEF Told, FirstPending
  <2>6. \A c \in Batch : Told(c)' = Revision(snapshot, c)
    BY <1>7, <2>2 DEF Told
  <2> QED BY <2>4, <2>5, <2>6
<1>12. ASSUME NEW i \in 1..(N + 1)
       PROVE  (log[i].revision - LastRevision(log[i].batch, i) \in 0..1)'
  <2>1. \A c \in Batch : LastRevision(c, i)' = LastRevision(c, i)
    BY <1>8 DEF LastRevision
  <2>2. CASE i \in 1..N
    <3>1. i \in DOMAIN log /\ log'[i] = log[i] /\ log[i] \in Event
      BY <1>1, <1>3, <2>2
    <3>2. log[i].batch \in Batch
      BY <3>1 DEF Event
    <3>3. log[i].revision - LastRevision(log[i].batch, i) \in 0..1
      BY <3>1 DEF Unbroken, Gapless
    <3> QED BY <2>1, <3>1, <3>2, <3>3
  <2>3. CASE i = N + 1
    <3>1. RevisionsBefore(b, N + 1) \subseteq Nat
      BY <1>1, RevisionsAreNumbers
    <3>2. LastRevision(b, N + 1) = Told(b)
      BY <1>1, <1>10, <1>11, <3>1, LatestIsLast
    <3> QED BY <1>1, <1>3, <1>4, <1>11, <2>1, <2>3, <3>2
  <2> QED BY <1>1, <2>2, <2>3
<1>13. ASSUME NEW c \in Batch PROVE IsLatest(c, Len(log) + 1, Told(c))'
  <2>1. CASE c = b
    <3>1. Told(c)' = rev
      BY <1>11, <2>1 DEF Unbroken, PendingOK
    <3>2. \A x \in RevisionsBefore(b, N + 1) \cup {0} : x <= rev
      <4>1. RevisionsBefore(b, N + 1) \cup {0} \subseteq Nat
        BY <1>1, RevisionsAreNumbers
      <4>2. \A x \in RevisionsBefore(b, N + 1) \cup {0} : x <= Told(b)
        BY <1>1, <1>10 DEF IsLatest
      <4> QED BY <1>1, <1>11, <4>1, <4>2
    <3>3. RevisionsBefore(c, Len(log) + 1)' = RevisionsBefore(b, N + 1) \cup {rev}
      BY <1>9, <2>1
    <3> QED BY <1>1, <2>1, <3>1, <3>2, <3>3 DEF IsLatest
  <2>2. CASE c # b
    <3>1. RevisionsBefore(c, Len(log) + 1)' = RevisionsBefore(c, N + 1)
      BY <1>9, <2>2
    <3>2. Told(c)' = Told(c)
      BY <1>11, <2>2
    <3> QED BY <1>10, <3>1, <3>2 DEF IsLatest
  <2> QED BY <2>1, <2>2
<1>14. Gapless'
  <2> QED BY <1>3, <1>12, <1>13 DEF Gapless
<1>15. Len(log') + 1 = N + 2
  BY <1>1, <1>3
<1> QED BY <1>3, <1>5, <1>6, <1>7, <1>14, <1>15

\* Nothing but a failed write or an interrupted operation breaks the chain.
LEMMA UnbrokenStep ==
    ASSUME StoreInv, Unbroken, [Next]_vars, faults' = faults, crashes' = crashes
    PROVE  Unbroken'
<1>1. /\ memory \in Snapshot /\ memory' \in Snapshot /\ snapshot \in Snapshot
      /\ TypeOK /\ faults \in Nat /\ crashes \in Nat
  BY TypeStep, BoundAssumption DEF StoreInv, TypeInv, TypeOK
<1>2. \A b \in Batch : Revision(snapshot, b) \in Nat
  BY <1>1 DEF Revision, Snapshot
<1>3. ASSUME UNCHANGED <<log, tail>>, snapshot' = memory', PendingOK',
             \A b \in Batch : Told(b)' = Told(b)
      PROVE  Unbroken'
  <2>1. Gapless'
    BY <1>3 DEF Unbroken, Gapless, IsLatest, LastRevision, RevisionsBefore
  <2> QED BY <1>3, <2>1 DEF Unbroken, AllLinked, Linked, PrevDigest
<1>4. ASSUME UNCHANGED snapshot, ~ \E b \in Batch : FirstPending(b),
             ~ \E b \in Batch : FirstPending(b)'
      PROVE  \A b \in Batch : Told(b)' = Told(b)
  BY <1>4 DEF Told, Revision
<1>5. ASSUME NEW r \in Request, Replay(r) PROVE Unbroken'
  <2>1. UNCHANGED <<memory, snapshot, log, tail, op>>
    BY <1>5 DEF Replay, files
  <2> QED BY <1>3, <2>1
          DEF Told, FirstPending, Revision, Unbroken, PendingOK
<1>6. ASSUME NEW r \in Request, Put(r) PROVE Unbroken'
  <2>1. /\ snapshot' = memory' /\ op = Idle /\ op' = Commit(r)
        /\ UNCHANGED <<log, tail>>
    BY <1>1, <1>6
       DEF Put, PutFailed, FailedToPersist, Persisted, audit
  <2>2. /\ r.batch \in Batch /\ r.expected \in Nat
        /\ Len(memory.batches[r.batch]) = r.expected
        /\ memory'.batches
             = [memory.batches EXCEPT ![r.batch] = Append(@, r)]
    BY <1>1, <1>6, RequestFields DEF Put, RevisionMatches, Snapshot
  <2>3. Revision(snapshot, r.batch)' = Revision(snapshot, r.batch) + 1
        /\ Revision(snapshot, r.batch) = r.expected
    BY <1>1, <2>1, <2>2 DEF Revision, Unbroken, Snapshot
  <2>4. ASSUME NEW b \in Batch, b # r.batch
        PROVE  Revision(snapshot, b)' = Revision(snapshot, b)
    BY <1>1, <2>1, <2>2, <2>4 DEF Revision, Unbroken, Snapshot
  <2>5. PendingOK'
    <3>1. op'.step = "append" /\ op'.request = r /\ op'.left = r.events
      BY <2>1 DEF Commit
    <3>2. r.events \in 1..2
      BY RequestFields
    <3>3. Revision(snapshot', r.batch) = r.expected + 1
      BY <2>3 DEF Revision
    <3> QED BY <3>1, <3>2, <3>3 DEF PendingOK
  <2>6. \A b \in Batch : Told(b)' = Told(b)
    <3>1. \A b \in Batch : FirstPending(b)' <=> b = r.batch
      BY <2>1 DEF FirstPending, Commit
    <3>2. \A b \in Batch : ~FirstPending(b)
      BY <2>1 DEF FirstPending, Idle
    <3> QED BY <1>2, <2>3, <2>4, <3>1, <3>2 DEF Told
  <2> QED BY <1>3, <2>1, <2>5, <2>6
<1>7. ASSUME AppendEvent PROVE Unbroken'
  <2>1. log' = Append(log, NewEvent) /\ op # Idle
    BY <1>1, <1>7 DEF AppendEvent, Idle
  <2>2. /\ AllLinked'
        /\ tail' = PrevDigest(log', Len(log') + 1)
        /\ PendingOK'
        /\ Gapless'
    BY <1>7, <2>1, EventExtends DEF AppendEvent
  <2> QED BY <1>7, <2>2 DEF AppendEvent, Unbroken, AllLinked, Linked, PrevDigest
<1>8. ASSUME SaveIdempotency PROVE Unbroken'
  <2>1. /\ snapshot' = memory' /\ op' = Idle /\ op.step = "save"
        /\ UNCHANGED <<log, tail>>
    BY <1>1, <1>8
       DEF SaveIdempotency, Persisted, FailedToPersist, audit
  <2>2. \A b \in Batch : Revision(snapshot, b)' = Revision(snapshot, b)
    BY <1>1, <1>8, <2>1, SaveKeepsBatches DEF Revision, Unbroken
  <2>3. \A b \in Batch : ~FirstPending(b) /\ ~FirstPending(b)'
    BY <2>1 DEF FirstPending, Idle
  <2>4. PendingOK'
    BY <2>1 DEF PendingOK, Idle
  <2>5. \A b \in Batch : Told(b)' = Told(b)
    BY <2>2, <2>3 DEF Told
  <2> QED BY <1>3, <2>1, <2>4, <2>5
<1>9. ASSUME Restart PROVE Unbroken'
  <2>1. /\ op = Idle /\ op' = Idle /\ log' = log
        /\ memory' = snapshot /\ snapshot' = snapshot
        /\ tail' = RestoredTail(log)
    BY <1>9 DEF Restart, Start
  <2>2. tail' = tail
    <3>1. /\ log \in Seq(Event) /\ AllLinked
          /\ tail = PrevDigest(log, Len(log) + 1)
      BY <1>1 DEF TypeOK, Unbroken
    <3>2. CASE log = <<>>
      BY <2>1, <3>1, <3>2 DEF RestoredTail, PrevDigest
    <3>3. CASE log # <<>>
      <4>1. Len(log) \in Nat /\ Len(log) # 0
        BY <3>1, <3>3
      <4>2. PrevDigest(log, Len(log) + 1) = log[Len(log)].digest
        BY <4>1 DEF PrevDigest
      <4> QED BY <2>1, <3>1, <3>3, <4>2 DEF RestoredTail, Last, AllLinked
    <3> QED BY <3>2, <3>3
  <2>3. PendingOK'
    BY <2>1 DEF PendingOK, Idle
  <2>4. \A b \in Batch : Told(b)' = Told(b)
    BY <2>1 DEF Told, FirstPending, Revision
  <2> QED BY <1>3, <2>1, <2>2, <2>3, <2>4
<1>10. ASSUME UNCHANGED vars PROVE Unbroken'
  BY <1>3, <1>10
     DEF vars, Told, FirstPending, Revision, Unbroken, PendingOK
<1>11. ~Crash
  BY <1>1 DEF Crash
<1> QED BY <1>5, <1>6, <1>7, <1>8, <1>9, <1>10, <1>11 DEF Next

\* Between operations every batch verifies, across any number of restarts, as
\* long as no write has failed and no operation was interrupted.
THEOREM UnharmedVerifies == Spec => []UnharmedChainVerifies
<1> DEFINE Unharmed == faults = 0 /\ crashes = 0 => Unbroken
<1>1. Init => Unharmed
  <2> SUFFICES ASSUME Init PROVE Unbroken
    OBVIOUS
  <2>1. log = <<>> /\ tail = NoDigest /\ op = Idle /\ snapshot = memory
    BY DEF Init
  <2>2. PendingOK /\ \A b \in Batch : ~FirstPending(b)
    BY <2>1 DEF PendingOK, FirstPending, Idle
  <2>3. \A b \in Batch : Told(b) = 0
    BY <2>2 DEF Told, Revision, Init, Empty
  <2>4. \A b \in Batch : RevisionsBefore(b, Len(log) + 1) = {}
    BY <2>1 DEF RevisionsBefore
  <2>5. Gapless
    BY <2>1, <2>3, <2>4 DEF Gapless, IsLatest
  <2>6. AllLinked /\ tail = PrevDigest(log, Len(log) + 1)
    BY <2>1 DEF AllLinked, PrevDigest
  <2> QED BY <2>1, <2>2, <2>5, <2>6 DEF Unbroken
<1>2. StoreInv /\ Unharmed /\ [Next]_vars => Unharmed'
  <2> SUFFICES ASSUME StoreInv, Unharmed, [Next]_vars, faults' = 0, crashes' = 0
               PROVE  Unbroken'
    OBVIOUS
  <2>1. faults \in Nat /\ crashes \in Nat
    BY BoundAssumption DEF StoreInv, TypeInv, TypeOK
  <2>2. faults' \in {faults, faults + 1} /\ crashes' \in {crashes, crashes + 1}
    BY DEF Next, vars, Replay, Put, PutFailed, AppendEvent, SaveIdempotency,
           Restart, Crash, Start, Persisted, FailedToPersist
  <2> QED BY <2>1, <2>2, UnbrokenStep
<1>3. StoreInv /\ Unharmed => UnharmedChainVerifies
  <2> SUFFICES ASSUME StoreInv, Unbroken, op = Idle,
                      NEW b \in Batch, Recorded(b)
               PROVE  VerifyChain(b, Revision(snapshot, b))
    BY DEF UnharmedChainVerifies
  <2>1. log \in Seq(Event) /\ Revision(snapshot, b) \in Nat
    BY DEF StoreInv, TypeInv, TypeOK, Revision, Snapshot
  <2>2. Told(b) = Revision(snapshot, b)
    BY <2>1 DEF Told, FirstPending, Idle
  <2>3. Revision(snapshot, b) \in RevisionsBefore(b, Len(log) + 1)
    BY <2>1, <2>2 DEF Unbroken, Gapless, IsLatest, Recorded
  <2>4. PICK n \in 1..Len(log) :
           log[n].batch = b /\ log[n].revision = Revision(snapshot, b)
    BY <2>1, <2>3 DEF RevisionsBefore
  <2>5. DOMAIN log = 1..Len(log) /\ \A i \in 1..n : i \in 1..Len(log)
    BY <2>1
  <2>6. Chained(n)
    <3>1. AllLinked
      BY DEF Unbroken
    <3> QED BY <2>5, <3>1 DEF AllLinked, Chained, EndsLine
  <2>7. \A i \in 1..n : log[i].batch = b =>
           /\ log[i].revision <= Revision(snapshot, b)
           /\ log[i].revision - LastRevision(b, i) \in 0..1
    BY <2>5 DEF StoreInv, HistoryInv, LogNotAheadOfSnapshot, Unbroken, Gapless
  <2> QED BY <2>4, <2>5, <2>6, <2>7 DEF VerifyChain
<1> QED BY <1>1, <1>2, <1>3, StoreInvariant, PTL DEF Spec

-----------------------------------------------------------------------------
(* Refinement of Ledger *)

\* What is a prefix here is a prefix there.
LEMMA BehindIsPrefix ==
    ASSUME NEW s \in Snapshot, NEW t \in Snapshot, Behind(s, t), NEW b \in Batch
    PROVE  IsPrefix(s.batches[b], t.batches[b])
<1>1. s.batches[b] \in Seq(Request) /\ t.batches[b] \in Seq(Request)
  BY DEF Snapshot
<1>2. /\ Len(s.batches[b]) <= Len(t.batches[b])
      /\ \A n \in 1..Len(s.batches[b]) : t.batches[b][n] = s.batches[b][n]
  BY <1>1 DEF Behind
<1> QED BY <1>1, <1>2 DEF IsPrefix

\* Requests that stand where they belong stand there once.
LEMMA PlacedOnce ==
    ASSUME NEW s \in Snapshot, Placed(s)
    PROVE  Promise!AppliedAtMostOnce(s.batches)
<1> SUFFICES ASSUME NEW b \in Batch, NEW c \in Batch,
                    NEW m \in DOMAIN s.batches[b], NEW n \in DOMAIN s.batches[c],
                    s.batches[b][m] = s.batches[c][n]
             PROVE  b = c /\ m = n
  BY DEF Promise!AppliedAtMostOnce
<1> QED BY DEF Placed

\* A request in the snapshot file is one the ledger holds.
LEMMA HistoryIsHeld ==
    ASSUME NEW r \in Request, InHistory(snapshot, r)
    PROVE  Promise!Holds(snapshot.batches, r)
BY RequestFields DEF InHistory, Promise!Holds

\* A step that answers a client leaves the batches in the file alone.
LEMMA AcknowledgeStep ==
    ASSUME UniqueIds, AnswerInv, [Next]_vars,
           (\E r \in Request : Replay(r)) \/ SaveIdempotency
    PROVE  \E r \in Request : Promise!Acknowledge(r)
<1>1. ASSUME NEW r \in Request, Replay(r) PROVE Promise!Acknowledge(r)
  <2>1. InHistory(snapshot, r)
    BY <1>1 DEF Replay, AnswerInv, AnswersDurable
  <2> QED BY <1>1, <2>1, HistoryIsHeld DEF Replay, files, Promise!Acknowledge
<1>2. ASSUME SaveIdempotency
      PROVE  op.request \in Request /\ Promise!Acknowledge(op.request)
  <2>1. TypeOK /\ op # Idle
    BY <1>2 DEF SaveIdempotency, Idle, AnswerInv, StoreInv, TypeInv
  <2>2. op.request \in Request
    BY <2>1, OperationFields DEF TypeOK
  <2>3. InHistory(snapshot, op.request) /\ snapshot.batches = memory.batches
    BY <2>1 DEF AnswerInv, StoreInv, HistoryInv, Histories, PutPersisted
  <2>4. snapshot'.batches = snapshot.batches
    BY <1>2, <2>1, <2>3, SaveKeepsBatches
       DEF SaveIdempotency, Persisted, FailedToPersist
  <2>5. acked' = acked \cup {op.request}
    BY <1>2 DEF SaveIdempotency
  <2> QED BY <2>2, <2>3, <2>4, <2>5, HistoryIsHeld DEF Promise!Acknowledge
<1> QED BY <1>1, <1>2

\* Every other step changes the file as the ledger records, or not at all.
LEMMA RecordStep ==
    ASSUME StoreInv, [Next]_vars, acked' = acked
    PROVE  Promise!Record
<1>1. /\ snapshot \in Snapshot /\ snapshot' \in Snapshot
      /\ Behind(snapshot, snapshot')
  BY TypeStep, SnapshotGrows DEF StoreInv, TypeInv, TypeOK
<1>2. Placed(snapshot')
  BY HistoriesStep DEF Histories
<1>3. snapshot'.batches \in [Batch -> Seq(Request)]
  BY <1>1 DEF Snapshot
<1>4. \A b \in Batch : IsPrefix(snapshot.batches[b], snapshot'.batches[b])
  BY <1>1, BehindIsPrefix
<1>5. Promise!AppliedAtMostOnce(snapshot'.batches)
  BY <1>1, <1>2, PlacedOnce
<1> QED BY <1>3, <1>4, <1>5 DEF Promise!Record, Promise!IsPrefix, IsPrefix

\* The service implements the abstract ledger: the snapshot file is a history
\* that survives everything, grows only, holds a request at most once, and
\* holds every request whose success a client was told of.
THEOREM LedgerImplemented ==
    ASSUME UniqueIds PROVE Spec => ImplementsLedger
<1>1. Init => Promise!Init
  BY DEF Init, Empty, Promise!Init
<1>2. AnswerInv /\ [Next]_vars => [Promise!Next]_(Promise!vars)
  <2> SUFFICES ASSUME AnswerInv, [Next]_vars PROVE Promise!Next
    OBVIOUS
  <2>1. CASE (\E r \in Request : Replay(r)) \/ SaveIdempotency
    BY <2>1, AcknowledgeStep DEF Promise!Next
  <2>2. CASE ~((\E r \in Request : Replay(r)) \/ SaveIdempotency)
    <3>1. acked' = acked
      BY <2>2 DEF Next, vars, Put, AppendEvent, Restart, Crash, Start
    <3> QED BY <3>1, RecordStep DEF AnswerInv, Promise!Next
  <2> QED BY <2>1, <2>2
<1> QED BY <1>1, <1>2, AnswerInvariant, PTL
        DEF Spec, ImplementsLedger, Promise!Spec

=============================================================================
