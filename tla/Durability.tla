----------------------------- MODULE Durability -----------------------------
(***************************************************************************)
(* How an operation of workflow.Service becomes durable: the commit path   *)
(* every one of them ends with (store.Put, audit.Append once or twice,     *)
(* store.SaveIdempotency, the answer), the snapshot file and the audit     *)
(* log it writes, the writes that fail, the process that dies anywhere in  *)
(* between, and what main makes of the files when it starts again.         *)
(*                                                                         *)
(* What an operation does to its batch is left to BatchWorkflow: here it   *)
(* is one more request in the history of the batch, whose length is the    *)
(* revision.  The service mutex admits one operation at a time; a refused  *)
(* one changes nothing and is no step.  Clients may send a request again   *)
(* at any time.                                                            *)
(***************************************************************************)
EXTENDS Integers, Sequences, SequencesExt, FiniteSetsExt

CONSTANTS
    Batch,      \* the batches
    RequestId,  \* the values of X-Request-ID
    Request,    \* the requests clients send
    MaxFaults,  \* bound: writes that fail
    MaxCrashes  \* bound: operations a crash interrupts

\* The revision a request expects is 0 when it creates the batch.  It appends
\* two events when it also announces a change of the integrity grade.
RequestShape == [id : RequestId, batch : Batch, expected : Nat, events : 1..2]

ASSUME RequestAssumption == Request \subseteq RequestShape

ASSUME BoundAssumption == MaxFaults \in Nat /\ MaxCrashes \in Nat

\* store.Snapshot, in memory and on disk: of each batch the requests that made
\* its revisions, of each request id the revision that was answered.
Snapshot == [batches : [Batch -> Seq(Request)], answers : [RequestId -> Nat]]

NoAnswer == 0

NoDigest == 0

\* An event in the audit log.  A write that stops short leaves it torn, or
\* unended: complete but for its newline.  The next one then continues its line.
Event == [batch : Batch, revision : Nat, prev : Nat, digest : Nat,
          form : {"whole", "unended", "torn"}]

VARIABLES
    memory,   \* store.data
    snapshot, \* the snapshot file
    log,      \* the events in the audit log, in the order they were written
    tail,     \* Logger.tail: the digest the next event will refer to
    made,     \* how many events were ever made; an event's digest is unique
    op,       \* the operation in progress: its request, its next step
    acked,    \* the requests answered with success
    faults,   \* the writes that failed
    crashes   \* the operations a crash interrupted

files == <<snapshot, log>>
audit == <<log, tail, made>>
vars  == <<memory, snapshot, log, tail, made, op, acked, faults, crashes>>

Idle == [step |-> "idle"]

\* With the number of events it still has to append.
Operation ==
    [step : {"append"}, request : Request, left : 1..2]
        \cup [step : {"save"}, request : Request, left : {0}]

\* Every field keeps to its range; in particular an operation appends exactly
\* the events it has to before it records its answer.
TypeOK ==
    /\ memory \in Snapshot
    /\ snapshot \in Snapshot
    /\ log \in Seq(Event)
    /\ made \in Nat
    /\ tail \in 0..made
    /\ op \in {Idle} \cup Operation
    /\ acked \subseteq Request
    /\ faults \in 0..MaxFaults
    /\ crashes \in 0..MaxCrashes

Empty == [batches |-> [b \in Batch |-> <<>>],
          answers |-> [id \in RequestId |-> NoAnswer]]

Init ==
    /\ memory = Empty
    /\ snapshot = Empty
    /\ log = <<>>
    /\ tail = NoDigest
    /\ made = 0
    /\ op = Idle
    /\ acked = {}
    /\ faults = 0
    /\ crashes = 0

-----------------------------------------------------------------------------
(* The snapshot file *)

Answered(s, r) == s.answers[r.id] # NoAnswer

Persisted == snapshot' = memory' /\ UNCHANGED faults

\* The bug of writing the snapshot in place: a failed write truncates it.
FailedToPersist_InPlace ==
    /\ faults < MaxFaults
    /\ faults' = faults + 1
    /\ snapshot' = Empty

\* The temporary file could not be written or renamed: the file is as before,
\* but memory has changed already.
FailedToPersist ==
    /\ faults < MaxFaults
    /\ faults' = faults + 1
    /\ UNCHANGED snapshot

-----------------------------------------------------------------------------
(* The operations of the service *)

\* A request whose answer is recorded gets that answer again.
Replay(r) ==
    /\ op = Idle
    /\ Answered(memory, r)
    /\ acked' = acked \cup {r}
    /\ UNCHANGED <<memory, files, tail, made, op, faults, crashes>>

RevisionMatches(r) == Len(memory.batches[r.batch]) = r.expected

Commit(r) == [step |-> "append", request |-> r, left |-> r.events]

\* The bug of ignoring the error of persistLocked.
PutFailed_Ignored(r) == FailedToPersist /\ op' = Commit(r)

\* The client gets the error; memory keeps the new revision all the same.
PutFailed(r) == FailedToPersist /\ op' = Idle

Put(r) ==
    /\ op = Idle
    /\ ~Answered(memory, r)
    /\ RevisionMatches(r)
    /\ memory' = [memory EXCEPT !.batches[r.batch] = Append(@, r)]
    /\ \/ Persisted /\ op' = Commit(r)
       \/ PutFailed(r)
    /\ UNCHANGED <<audit, acked, crashes>>

\* The event of the operation in progress.
NewEvent ==
    [batch |-> op.request.batch, revision |-> op.request.expected + 1,
     prev |-> tail, digest |-> made + 1, form |-> "whole"]

\* What a write that stops short leaves of the log.
CutShort(e) ==
    {Append(log, [e EXCEPT !.form = f]) : f \in {"unended", "torn"}}

\* The tail moves before the event is written, and stays if it is not.
ExtendChain == made' = made + 1 /\ tail' = made + 1

\* The bug of appending one event more than there is to tell.
EventDone_OneTooMany ==
    op' = IF op.left = 0 THEN [op EXCEPT !.step = "save"]
          ELSE [op EXCEPT !.left = @ - 1]

EventDone ==
    op' = IF op.left = 1 THEN [op EXCEPT !.step = "save", !.left = 0]
          ELSE [op EXCEPT !.left = @ - 1]

\* The operation ignores the error of Append.
AppendEvent ==
    /\ op.step = "append"
    /\ ExtendChain
    /\ \/ log' = Append(log, NewEvent) /\ UNCHANGED faults
       \/ /\ faults < MaxFaults
          /\ faults' = faults + 1
          /\ log' \in {log} \cup CutShort(NewEvent)
    /\ EventDone
    /\ UNCHANGED <<memory, snapshot, acked, crashes>>

\* The bug of recording the batch with the revision it had before.
AnswerTo_Stale(r) == r.expected

AnswerTo(r) == r.expected + 1

\* Records the answer and gives it, even when the record was not persisted.
SaveIdempotency ==
    /\ op.step = "save"
    /\ memory' = [memory EXCEPT
                    !.answers[op.request.id] = AnswerTo(op.request)]
    /\ Persisted \/ FailedToPersist
    /\ op' = Idle
    /\ acked' = acked \cup {op.request}
    /\ UNCHANGED <<audit, crashes>>

-----------------------------------------------------------------------------
(* Crash and restart *)

PrevDigest(events, i) == IF i = 1 THEN NoDigest ELSE events[i - 1].digest

Linked(events, i) == events[i].prev = PrevDigest(events, i)

\* The bug of starting a new chain whenever the process starts.
RestoredTail_Forgotten(events) == NoDigest

\* Logger.Verify decodes one event after the other, newline or not, and takes
\* the tail from the last; main ignores its error, and the tail of a log that
\* does not verify stays empty.
RestoredTail(events) ==
    IF /\ events # <<>>
       /\ \A i \in DOMAIN events : events[i].form # "torn" /\ Linked(events, i)
    THEN Last(events).digest ELSE NoDigest

\* The process starts from its files and forgets everything else.
Start ==
    /\ memory' = snapshot
    /\ tail' = RestoredTail(log')
    /\ op' = Idle
    /\ UNCHANGED <<snapshot, acked, faults>>

Restart == op = Idle /\ UNCHANGED <<log, made, crashes>> /\ Start

\* Anywhere in an operation, in the middle of writing an event too.
Crash ==
    /\ op # Idle
    /\ crashes < MaxCrashes
    /\ crashes' = crashes + 1
    /\ \/ UNCHANGED <<log, made>>
       \/ /\ op.step = "append"
          /\ log' \in CutShort(NewEvent)
          /\ made' = made + 1
    /\ Start

-----------------------------------------------------------------------------
(* Verification of the audit log *)

\* VerifyChain reads line by line: two events on one line are not readable.
EndsLine(i) ==
    \/ log[i].form = "whole"
    \/ log[i].form = "unended" /\ i = Len(log)

\* The first n events can be read and each refers to the one before it.
Chained(n) == \A i \in 1..n : EndsLine(i) /\ Linked(log, i)

RevisionsBefore(b, i) ==
    {log[j].revision : j \in {k \in 1..(i - 1) : log[k].batch = b}}

LastRevision(b, i) == Max(RevisionsBefore(b, i) \cup {0})

\* The bug of reading on after the revision was found.
VerifyChain_WholeLog(b, revision) ==
    /\ \E i \in DOMAIN log : log[i].batch = b /\ log[i].revision = revision
    /\ Chained(Len(log))
    /\ \A i \in DOMAIN log : log[i].batch = b =>
           log[i].revision - LastRevision(b, i) \in 0..1

\* Logger.VerifyChain: reads up to the event that made the given revision, and
\* wants every line before it chained and the revisions of the batch gapless.
VerifyChain(b, revision) ==
    \E n \in DOMAIN log :
        /\ log[n].batch = b
        /\ log[n].revision = revision
        /\ Chained(n)
        /\ \A i \in 1..n : log[i].batch = b =>
               /\ log[i].revision <= revision
               /\ log[i].revision - LastRevision(b, i) \in 0..1

-----------------------------------------------------------------------------
(* Specification *)

Next ==
    \/ \E r \in Request : Replay(r) \/ Put(r)
    \/ AppendEvent
    \/ SaveIdempotency
    \/ Restart
    \/ Crash

Spec == Init /\ [][Next]_vars

-----------------------------------------------------------------------------
(* Safety *)

InHistory(s, r) ==
    \E n \in DOMAIN s.batches[r.batch] : s.batches[r.batch][n] = r

Revision(s, b) == Len(s.batches[b])

\* A client that was told its request succeeded never loses it: the request is
\* in the snapshot file, whatever write failed or crash came since.  (Provided
\* that no two requests share an id, see SuccessMeansApplied.)
AckedIsDurable == \A r \in acked : InHistory(snapshot, r)

\* A request sent again after a crash, a failed write or a lost answer is
\* applied at most once, in memory and in the file.
AppliedOnce ==
    \A b \in Batch : \A h \in {memory.batches[b], snapshot.batches[b]} :
        \A m, n \in DOMAIN h : h[m] = h[n] => m = n

\* VerifyRevision: the log never tells of a revision the store could forget.
LogNotAheadOfSnapshot ==
    \A i \in DOMAIN log : log[i].revision <= Revision(snapshot, log[i].batch)

\* A recorded answer is the revision its request made, and the snapshot file
\* never holds an answer without the batch it speaks of.
AnswersMatchBatches ==
    \A s \in {memory, snapshot} : \A r \in Request :
        Answered(s, r) =>
            /\ s.answers[r.id] \in 1..Revision(s, r.batch)
            /\ s.batches[r.batch][s.answers[r.id]] = r

EndsUnended == log # <<>> /\ Last(log).form = "unended"

Recorded(b) == Revision(snapshot, b) > 0

\* Between operations every batch verifies, across any number of restarts, as
\* long as no write has failed and no operation was interrupted.
UnharmedChainVerifies ==
    op = Idle /\ faults = 0 /\ crashes = 0 =>
        \A b \in Batch :
            Recorded(b) => VerifyChain(b, Revision(snapshot, b))

\* A receipt, once good, stays good: what VerifyChain said of a revision, the
\* one that sealed the batch for instance, later damage to the log or to other
\* batches cannot take back.  The exception is a log that lacks its last newline:
\* it can be verified until the next event continues its line.
VerifiedStaysVerified ==
    [][ ~EndsUnended =>
          \A b \in Batch : \A n \in 1..Revision(snapshot, b) :
              VerifyChain(b, n) => VerifyChain(b, n)' ]_vars

\* The service implements the abstract ledger, with the snapshot file as the
\* durable history.
Promise == INSTANCE Ledger WITH history <- snapshot.batches

ImplementsLedger == Promise!Spec

-----------------------------------------------------------------------------
(* What the documents say of recovery and retries, and the code does not do *)

\* Idempotent requests under optimistic concurrency: success is an answer to
\* the request that got it, which is then part of its batch.
SuccessMeansApplied == \A r \in acked : InHistory(memory, r)

\* Recovery from the snapshot, request idempotency and an audit chain of what
\* was done: a request that is in the history of its batch is answered, not
\* refused, when the client sends it again, and the log tells of it.
AppliedIsAccountedFor ==
    op = Idle =>
        \A r \in Request :
            InHistory(memory, r) =>
                /\ Answered(memory, r)
                /\ \E i \in DOMAIN log :
                      log[i].batch = r.batch /\ log[i].revision = r.expected + 1

=============================================================================
