------------------------------ MODULE Requests ------------------------------
(***************************************************************************)
(* Requests to one batch on their way through the service, all at once:    *)
(* what each goroutine does before it takes the service mutex, what it     *)
(* does inside, one step after the other, and the readers, which never     *)
(* take it: GET of the batch, ReleasePrecheck and ReleaseReport.           *)
(*                                                                         *)
(* store.Get copies a batch but not what its pointers lead to: the plan    *)
(* is an object of its own here, and ApprovePlan writes the decision into  *)
(* it before it writes the batch.  CorrectObservation and                  *)
(* SubmitRemediation write through shared slices in the same way.          *)
(*                                                                         *)
(* To the clients that write it is as if each operation were one step:     *)
(* that is AtomicService, which this module implements.                    *)
(*                                                                         *)
(* But for one: a rejection that does not say why is refused only after it *)
(* was written into the plan.  AtomicService has that step too.            *)
(*                                                                         *)
(* No write fails here and nothing crashes (see Durability); the gates of  *)
(* the operations are reduced to the status and to that reason (see        *)
(* BatchWorkflow); plans have one stage.                                   *)
(***************************************************************************)
EXTENDS Naturals, Sequences

CONSTANTS
    Call,       \* requests that write, each sent once; a retry is another call
    request,    \* what each call asks for
    RequestId,  \* the values of X-Request-ID
    Reader,     \* clients that read, over and over
    Nobody      \* no call

Op == {"CreatePlan", "Approve", "Reject", "AddObservation", "Review"}

Decision == {"Approve", "Reject"}

\* "reason": a rejection says why.
RequestShape == [id : RequestId, op : Op, version : Nat, expected : Nat,
                 reason : BOOLEAN]

ASSUME RequestAssumption == request \in [Call -> RequestShape]

ASSUME NobodyAssumption == Nobody \notin Call

\* The batch is created and its transport registered before anything else.
FirstRevision == 2

VARIABLES
    batch,   \* store.data: revision, status, which plan b.Plan points to
    plans,   \* the plan objects, by version
    log,     \* the revisions the events in the audit log tell of
    record,  \* the request ids with a recorded answer
    mutex,   \* the call that holds Service.mu
    pc,      \* where each call is
    staged,  \* the batch the holder of the mutex is about to put
    answer,  \* what each call was answered
    reading  \* what each reader has read so far, or was told last

service == <<batch, plans, log, record, mutex, staged>>
calls   == <<pc, answer>>
vars    == <<service, calls, reading>>

Status ==
    {"awaiting_plan", "plan_pending", "thawing", "review", "sealed"}

\* "digest": the revision the digest in the release review was taken of, or 0.
Batch == [revision : Nat, status : Status, plan : Nat, digest : Nat]

Plan == [decision : {"pending", "approved", "rejected"}, by : Call \cup {Nobody}]

Steps ==
    {"idle", "check", "enter", "body", "put", "append", "announce", "save",
     "done"}

Question == {"GetBatch", "ReleasePrecheck", "ReleaseReport"}

\* What a reader has of the batch, then of the answer to its question; whether
\* an operation was under way meanwhile.
Reading ==
    [step : {"idle"}]
        \cup [step : {"fetched"}, asked : Question, batch : Batch,
              overlapped : BOOLEAN]
        \cup [step : {"verdict"}, verified : BOOLEAN, overlapped : BOOLEAN]
        \cup [step : {"view"}, batch : Batch, overlapped : BOOLEAN,
              decision : {"none", "pending", "approved", "rejected"}]

\* A call inside the mutex is the one that holds it.
TypeOK ==
    /\ batch \in Batch
    /\ plans \in Seq(Plan)
    /\ batch.plan \in 0..Len(plans)
    /\ log \in Seq(Nat)
    /\ record \subseteq RequestId
    /\ mutex \in Call \cup {Nobody}
    /\ pc \in [Call -> Steps]
    /\ staged \in Batch
    /\ answer \in [Call -> {"none", "ok", "replayed", "conflict", "refused"}]
    /\ reading \in [Reader -> Reading]

Registered ==
    [revision |-> FirstRevision, status |-> "awaiting_plan", plan |-> 0,
     digest |-> 0]

Init ==
    /\ batch = Registered
    /\ plans = <<>>
    /\ log = [i \in 1..FirstRevision |-> i]
    /\ record = {}
    /\ mutex = Nobody
    /\ pc = [c \in Call |-> "idle"]
    /\ staged = Registered
    /\ answer = [c \in Call |-> "none"]
    /\ reading = [r \in Reader |-> [step |-> "idle"]]

-----------------------------------------------------------------------------
(* Before the mutex *)

GoTo(c, step) == pc' = [pc EXCEPT ![c] = step]

Answer(c, a) == GoTo(c, "done") /\ answer' = [answer EXCEPT ![c] = a]

\* A client expects a revision it has seen.
Arrive(c) ==
    /\ pc[c] = "idle"
    /\ request[c].expected <= batch.revision
    /\ GoTo(c, IF request[c].op \in Decision THEN "check" ELSE "enter")
    /\ UNCHANGED <<service, answer, reading>>

\* The bug of checking more than the version before the record is looked up.
NamesCurrentPlan_Pending(c) ==
    request[c].version = batch.plan /\ batch.status = "plan_pending"

\* Versions count the plans of the batch.
NamesCurrentPlan(c) == batch.plan # 0 /\ request[c].version = batch.plan

\* ApprovePlanVersion compares the version without the mutex, then calls
\* ApprovePlan, which does not look at it again.
CheckVersion(c) ==
    /\ pc[c] = "check"
    /\ IF NamesCurrentPlan(c) THEN GoTo(c, "enter") /\ UNCHANGED answer
       ELSE Answer(c, "conflict")
    /\ UNCHANGED <<service, reading>>

\* The bug of an operation that does not take the mutex.
MutexFree_Ignored == TRUE

MutexFree == mutex = Nobody

\* Every reader between its two reads sees the operation that begins.
Overlap ==
    reading' = [r \in Reader |->
                  IF reading[r].step = "fetched"
                  THEN [reading[r] EXCEPT !.overlapped = TRUE]
                  ELSE reading[r]]

Enter(c) ==
    /\ pc[c] = "enter"
    /\ MutexFree
    /\ mutex' = c
    /\ GoTo(c, "body")
    /\ Overlap
    /\ UNCHANGED <<batch, plans, log, record, staged, answer>>

-----------------------------------------------------------------------------
(* Under the mutex *)

\* The bug of a refusal that returns without unlocking.
Refuse_KeepsMutex(c, a) == Answer(c, a) /\ UNCHANGED mutex

Refuse(c, a) == Answer(c, a) /\ mutex' = Nobody

\* The bug of leaving the revision to the check of store.Put.
Expected_Always(c) == TRUE

Expected(c) == request[c].expected = batch.revision

StatusBefore(op) ==
    CASE op = "CreatePlan"     -> "awaiting_plan"
      [] op \in Decision       -> "plan_pending"
      [] op = "AddObservation" -> "thawing"
      [] op = "Review"         -> "review"

StatusAfter(op) ==
    CASE op = "CreatePlan"     -> "plan_pending"
      [] op = "Approve"        -> "thawing"
      [] op = "Reject"         -> "awaiting_plan"
      [] op = "AddObservation" -> "review"
      [] op = "Review"         -> "sealed"

Accepted(c) == Expected(c) /\ batch.status = StatusBefore(request[c].op)

\* The bug of counting the new plan twice.
NewVersion_Later == Len(plans) + 2

NewVersion == Len(plans) + 1

\* The plan objects as the operation leaves them before it puts the batch.
PlansAfter(c) ==
    CASE request[c].op = "CreatePlan" ->
           Append(plans, [decision |-> "pending", by |-> Nobody])
      [] request[c].op = "Approve" ->
           [plans EXCEPT ![batch.plan] = [decision |-> "approved", by |-> c]]
      [] request[c].op = "Reject" ->
           [plans EXCEPT ![batch.plan] = [decision |-> "rejected", by |-> c]]
      [] OTHER -> plans

Replay(c) ==
    /\ pc[c] = "body"
    /\ request[c].id \in record
    /\ Refuse(c, "replayed")
    /\ UNCHANGED <<batch, plans, log, record, staged, reading>>

RefuseBody(c) ==
    /\ pc[c] = "body"
    /\ request[c].id \notin record
    /\ ~Accepted(c)
    /\ Refuse(c, IF Expected(c) THEN "refused" ELSE "conflict")
    /\ UNCHANGED <<batch, plans, log, record, staged, reading>>

WithoutReason(c) == request[c].op = "Reject" /\ ~request[c].reason

\* The decision is written through b.Plan before the reason is looked for.
RejectWithoutReason(c) ==
    /\ pc[c] = "body"
    /\ request[c].id \notin record
    /\ Accepted(c)
    /\ WithoutReason(c)
    /\ plans' = PlansAfter(c)
    /\ Refuse(c, "refused")
    /\ UNCHANGED <<batch, log, record, staged, reading>>

\* Review takes the digest of the batch as it is about to be stored.
Body(c) ==
    /\ pc[c] = "body"
    /\ request[c].id \notin record
    /\ Accepted(c)
    /\ ~WithoutReason(c)
    /\ plans' = PlansAfter(c)
    /\ staged' = [revision |-> batch.revision,
                  status |-> StatusAfter(request[c].op),
                  plan |-> IF request[c].op = "CreatePlan"
                           THEN NewVersion ELSE batch.plan,
                  digest |-> IF request[c].op = "Review"
                             THEN request[c].expected + 1 ELSE batch.digest]
    /\ GoTo(c, "put")
    /\ UNCHANGED <<batch, log, record, mutex, answer, reading>>

\* The bug of unlocking as soon as the batch is stored.
AfterPut_Unlocks == mutex' = Nobody

AfterPut == UNCHANGED mutex

\* store.Put gives the batch the revision after the stored one.
Put(c) ==
    /\ pc[c] = "put"
    /\ batch' = [staged EXCEPT !.revision = batch.revision + 1]
    /\ GoTo(c, "append")
    /\ AfterPut
    /\ UNCHANGED <<plans, log, record, staged, answer, reading>>

\* An observation can move the grade, which is an event of its own.
AppendEvent(c) ==
    /\ pc[c] = "append"
    /\ log' = Append(log, request[c].expected + 1)
    /\ \/ GoTo(c, "save")
       \/ request[c].op = "AddObservation" /\ GoTo(c, "announce")
    /\ UNCHANGED <<batch, plans, record, mutex, staged, answer, reading>>

\* The bug of giving the second event a revision of its own.
AnnouncedRevision_Next(c) == request[c].expected + 2

AnnouncedRevision(c) == request[c].expected + 1

Announce(c) ==
    /\ pc[c] = "announce"
    /\ log' = Append(log, AnnouncedRevision(c))
    /\ GoTo(c, "save")
    /\ UNCHANGED <<batch, plans, record, mutex, staged, answer, reading>>

\* The answer is recorded, given, and the mutex released.
Save(c) ==
    /\ pc[c] = "save"
    /\ record' = record \cup {request[c].id}
    /\ Answer(c, "ok")
    /\ mutex' = Nobody
    /\ UNCHANGED <<batch, plans, log, staged, reading>>

-----------------------------------------------------------------------------
(* Readers *)

\* No revision of the batch is skipped, and none is ahead of the one given.
Continuous(events, revision) ==
    \A i \in DOMAIN events :
        LET last == IF i = 1 THEN 0 ELSE events[i - 1]
        IN  events[i] \in {last, last + 1} /\ events[i] <= revision

\* Logger.VerifyChainSummary: the whole log, up to exactly this revision.
VerifyChainSummary(revision) ==
    /\ Continuous(log, revision)
    /\ log # <<>> => log[Len(log)] = revision

\* Logger.VerifyChain: up to the first event of the revision.
VerifyChain(revision) ==
    \E n \in DOMAIN log :
        log[n] = revision /\ Continuous(SubSeq(log, 1, n), revision)

\* GetBatch, ReleasePrecheck and ReleaseReport begin with store.Get.  A report
\* on a batch that is not sealed is refused at once.
Fetch(r, question) ==
    /\ reading[r].step # "fetched"
    /\ question = "ReleaseReport" => batch.status = "sealed"
    /\ reading' = [reading EXCEPT ![r] =
                     [step |-> "fetched", asked |-> question, batch |-> batch,
                      overlapped |-> mutex # Nobody]]
    /\ UNCHANGED <<service, calls>>

Asks(r, question) == reading[r].step = "fetched" /\ reading[r].asked = question

\* The handler encodes the batch as it was copied, the plan as it is now.
Encode(r) ==
    /\ Asks(r, "GetBatch")
    /\ LET b == reading[r].batch
       IN  reading' = [reading EXCEPT ![r] =
                         [step |-> "view", batch |-> b,
                          overlapped |-> reading[r].overlapped,
                          decision |-> IF b.plan = 0 THEN "none"
                                       ELSE plans[b.plan].decision]]
    /\ UNCHANGED <<service, calls>>

Verdict(r, verified) ==
    /\ reading' = [reading EXCEPT ![r] =
                     [step |-> "verdict", verified |-> verified,
                      overlapped |-> reading[r].overlapped]]
    /\ UNCHANGED <<service, calls>>

\* ReleasePrecheck, and ReleaseReport, read the log only after the batch.
Precheck(r) ==
    /\ Asks(r, "ReleasePrecheck")
    /\ Verdict(r, VerifyChainSummary(reading[r].batch.revision))

\* A report is also refused when the batch is not the one that was sealed.
Report(r) ==
    /\ Asks(r, "ReleaseReport")
    /\ LET b == reading[r].batch
       IN  Verdict(r, b.digest = b.revision /\ VerifyChain(b.revision))

-----------------------------------------------------------------------------
(* Specification *)

\* What a goroutine does without waiting for anyone.
Proceed(c) ==
    \/ CheckVersion(c)
    \/ Replay(c) \/ RefuseBody(c) \/ RejectWithoutReason(c) \/ Body(c)
    \/ Put(c) \/ AppendEvent(c) \/ Announce(c) \/ Save(c)

Finish(r) == Encode(r) \/ Precheck(r) \/ Report(r)

Next ==
    \/ \E c \in Call : Arrive(c) \/ Enter(c) \/ Proceed(c)
    \/ \E r \in Reader : Finish(r) \/ \E question \in Question : Fetch(r, question)

\* A goroutine that can run does run.  sync.Mutex hands itself over to a waiter
\* that has waited for a millisecond, so that nobody waits for ever.  Nothing
\* makes a client send or ask anything.
Fairness ==
    /\ \A c \in Call : WF_vars(Proceed(c)) /\ SF_vars(Enter(c))
    /\ \A r \in Reader : WF_vars(Finish(r))

Spec == Init /\ [][Next]_vars /\ Fairness

-----------------------------------------------------------------------------
(* Properties *)

\* The calls that have begun to write.
Underway == {c \in Call : pc[c] \in {"put", "append", "announce", "save"}}

\* The batch as it is once the operation that writes has put it.
Current ==
    IF \E c \in Call : pc[c] = "put"
    THEN [staged EXCEPT !.revision = batch.revision + 1]
    ELSE batch

Atomic ==
    INSTANCE AtomicService WITH
        batch   <- Current,
        applied <- Underway \cup {c \in Call : answer[c] = "ok"},
        record  <- record \cup {request[c].id : c \in Underway}

\* To the clients that write, each operation is one step, at its first write:
\* in it the revision, the status and the plan version that was compared
\* before the mutex all hold, and each answer is one that such steps justify.
\* The refused rejection that changes the plan is one step as well.
ImplementsAtomicService == Atomic!Spec

\* The update nobody may lose: whoever is about to put the batch still holds
\* the mutex, has staged the revision that is stored, and that is the one its
\* client expected.
NoLostUpdate ==
    \A c \in Call : pc[c] = "put" =>
        /\ mutex = c
        /\ staged.revision = batch.revision
        /\ request[c].expected = batch.revision

\* A rejection of this plan was refused for want of a reason.
Spoiled(plan) ==
    \E c \in Call :
        /\ WithoutReason(c)
        /\ request[c].version = plan
        /\ answer[c] = "refused"

\* What a decision on the current plan goes with.
Agree(status, plan, decision) ==
    CASE status = "awaiting_plan" -> plan = 0 \/ decision = "rejected"
      [] status = "plan_pending"  -> \/ decision = "pending"
                                     \/ decision = "rejected" /\ Spoiled(plan)
      [] OTHER                    -> decision = "approved"

\* Only while an operation is inside the mutex can the decision in the plan
\* disagree with the status of the batch; but for a refused rejection without
\* a reason, which leaves a rejected plan in a batch that awaits the decision.
QuietStateAgrees ==
    mutex = Nobody =>
        Agree(batch.status, batch.plan,
              IF batch.plan = 0 THEN "none" ELSE plans[batch.plan].decision)

\* A view of the batch that shows a decision the status does not have yet, or
\* no longer, was read while an operation was inside the mutex, or shows what a
\* refused rejection without a reason has left behind.
TornViewOverlapped ==
    \A r \in Reader :
        reading[r].step = "view" /\ ~reading[r].overlapped =>
            Agree(reading[r].batch.status, reading[r].batch.plan,
                  reading[r].decision)

\* A precheck or a report that says the audit chain does not verify, although
\* nothing is wrong with it, was overtaken by an operation.
FailedCheckOverlapped ==
    \A r \in Reader :
        reading[r].step = "verdict" /\ ~reading[r].overlapped =>
            reading[r].verified

\* A decision goes to the plan version its client named, although the version
\* is compared outside the mutex: the expected revision, compared inside, is
\* one the client had seen before.
DecisionHitsNamedVersion ==
    \A v \in DOMAIN plans :
        plans[v].by # Nobody => request[plans[v].by].version = v

\* A recorded decision that is sent again is answered from the record, unless
\* the plan has a newer version: only then the check before the mutex refuses it.
RetryRefusedOnlyAfterNewVersion ==
    [][\A c \in Call :
          /\ pc[c] = "check" /\ pc'[c] = "done"
          /\ request[c].id \in record
          => batch.plan > request[c].version]_vars

\* Every request that arrives is answered, and each is sent once, so that in
\* the end none is under way: no refusal, replay or reader leaves the mutex
\* locked or a goroutine waiting.
EveryCallReturns == <>[](\A c \in Call : pc[c] \in {"idle", "done"})

\* Answered either way, in the end and from then on, every question asked
\* anew is told that the chain verifies: the failures of FailedCheckOverlapped
\* pass.
ChecksSettle ==
    <>[][\A r \in Reader :
            reading[r].step = "fetched" /\ reading'[r].step = "verdict"
            => reading'[r].verified]_vars

=============================================================================
