# A verification model of the ice-core thaw release service

The service in `src/` ("iceguard") takes an ice-core sample batch from its
registration over the assessment of its transport, a thaw plan, staged thaw
observations and remediation to a sealed release report. It is one Go process
with an HTTP API, a JSON snapshot and a hash-chained audit log. This directory
holds TLA+ specifications of it, TLC configurations that check them on small
instances and TLAPS proofs of what holds for every instance.

## 1. The system

| component | source | state | operations |
|---|---|---|---|
| Domain rules | `internal/domain/rules.go`, `observation.go` | none | `EvaluateRisk`, `CanCreatePlan`, `CanObserve`, `ObservationAnomaly`, `EffectiveObservation` |
| Transport summary | `internal/domain/temperature.go` | none | `SummarizeTransport`, `DeviationSeverity` |
| Batch workflow | `internal/workflow/service.go`, `features.go`, `domain/report.go` | the batch (`entities.go`) | `CreateBatch`, `RegisterTransport`, `ReviewTransport`, `CreatePlan`, `ApprovePlan`, `AddObservation`, `CorrectObservation`, `AddRemediation`, `SubmitRemediation`, `VerifyRemediation`, `Review` |
| Snapshot store | `internal/store/store.go` | batches and idempotency record, in memory and in one file | `Put`, `SaveIdempotency`, `Get`, `GetIdempotency`, `load` |
| Audit log | `internal/audit` | the log file, the tail digest | `Append`, `Verify`, `VerifyChain`, `VerifyChainSummary`, `Events` |
| Status table | `domain/transition.go` | none | `TransitionAllowed` (never called) |
| Registry | `CreateBatch` in `service.go`, `QueryBatches` in `query.go` | all batches | creation against the other cores of a site, listing by pages |
| Readers | `internal/workflow/query.go` | none | `ReleasePrecheck`, `ReleaseReport`, views |
| HTTP layer | `internal/httpapi` | none | decoding, default request id, status codes |
| Process | `cmd/iceguard/main.go` | none | start from the files, self-check |

How they interact. Handlers of net/http run concurrently and call the service;
each write operation takes `Service.mu` for its whole length, looks its request
id up in the idempotency record, checks the expected revision and its own
guards, writes the batch (`store.Put`: memory first, then the snapshot file by
a temporary file and a rename), appends one or two audit events (errors
ignored), records its answer (a second snapshot write, errors ignored) and
answers. Readers take only the locks of the store and of the log, one after
the other. Nothing runs in the background; there are no timers.

What is hard here, and what would make it correct:

* *Long legal call sequences* over shared gates (status, pause, plan approval,
  grade, open tasks), with records that clients bring along: nothing is thawed
  over an anomaly the service found, no pause is lost, author, approver and
  reviewer give different names, the evidence a gate reads is the current
  evidence, what is approved or sealed stays as it is.
* *Failing writes and crashes between the three writes of a commit*: an
  acknowledged request is never lost, a retried one never applied twice, the
  log never ahead of the store, a verified chain never unverified.
* *Two computations of one gate* (`ReleasePrecheck` and `Review`) that can drift.
* *Mutation before validation* through pointers into the stored batch.
* *Readers between the writes of a commit*, and version checks and comparisons
  outside the mutex: a decision reaches the plan its client saw, evidence is
  stored once, and what a reader is told wrongly passes.
* *Who waits for the mutex*: every way out of eleven operations releases it.
* *Many batches*: cores of a site stay apart, an acknowledged one is kept, and
  a listing that is read while batches come and go skips none that stayed.

`PROJECT.json` lists each hazard at its line with the properties that cover it.

## 2. Modules

```
RiskRules            rules of internal/domain, pure operators
  BatchWorkflow      one batch, every write operation of workflow.Service,
                     and the status table it should keep to
    MCBatchWorkflow        instances for TLC
    BatchWorkflowProofs    theorems
LeastElements        least and greatest elements, which take the place of
                     induction in the proofs
TransportSummary     totals of temperature intervals, and a reference for them
    TransportSummaryProofs lemmas about them, for reports of any length
  Transport          the transport evidence behind its handler, which reads
                     the batch before the mutex is taken
    MCTransport            instances for TLC
    TransportProofs        theorems
AtomicService        what the service promises about requests that race
  Requests           requests to one batch around the mutex, step by step, and
                     readers that never take it; implements AtomicService
    MCRequests             an instance for TLC
    RequestsProofs         theorems
Registry             CreateBatch and QueryBatches over all batches, failed
                     writes, retries and restarts
    MCRegistry             an instance for TLC
    RegistryProofs         theorems
Ledger               what the service promises about durable requests
  Durability         the commit path: store, idempotency record, audit log,
                     failed writes, crash and restart; implements Ledger
    MCDurability           instances for TLC
    DurabilityProofs       theorems
```

Each module takes one aspect at full detail and the others as far as its
properties need them. Atomicity is what connects them: BatchWorkflow, Transport
and Registry may take an operation as one step because Requests implements
`AtomicService`, in which it is one step (`ImplementsAtomicService`), and
Durability shows what its writes leave behind when they fail.

### RiskRules

Temperatures, minutes and volumes appear as the comparisons the rules make with
them. A transport report is the set of risk factors it triggers, what of that
its own measurements give (`measured`; a client can send totals of its own on
top, which `RegisterTransport` keeps and `ReviewTransport` drops), and which
pieces of evidence it carries. A reading of a stage says whether it misses the
target by more than 2 degrees, held too short, melted more than 50 ml, looks
abnormal. A stage is *warm* when each reading within its tolerance is above the
8 degrees at which `ObservationAnomaly` raises an anomaly, and *cold* when none
is; the targets around 8 degrees, where it depends on the reading, are covered
by a cold stage with an abnormal reading. `DeviationCode` is the chain of code
assignments in `AddObservation` and `CorrectObservation`, which leaves no anomaly
without a code. But a client can send corrections along with a reading, and the
last of them is what `EffectiveObservation` returns from then on, with the hold
time and the code it came with (`SentAlong`; of a list of them only the last
counts). So `Anomalous` is the whole of `ObservationAnomaly`, and an observation
remembers in `asSent` that it took effect unexamined.

### BatchWorkflow

The variables are the fields of `domain.IceCoreBatch` that some gate reads, and
`events`, the types of the audit events of the last step. There is one action
per operation: `RegisterTransport`, `ReviewTransport`, `CreatePlan`,
`ApprovePlan`, `RejectPlan`, `AddObservation`, `CorrectObservation`,
`AddRemediation`, `SubmitRemediation`, `VerifyRemediation`, `Seal` and
`SendBack` (the two outcomes of `Review`). Each contains the risk reassessment,
the revision and the audit events of the operation (`Reassess`, `Commit`,
`WithRiskChange`). Since operations run under the service mutex they are
atomic here; what happens inside a commit is the subject of Durability.

A refused call changes nothing and is no step, with one exception, which is an
action: `RejectWithoutReason`, where the code writes the decision through
`b.Plan` into the stored batch before it refuses.

`AddObservation` takes a reading and the correction sent along with it, if any:
the reading decides on pause and status, the correction is what the risk is
computed from. `CreatePlan` takes any author and any approver, the empty ones
included. A task a client sends keeps the status, the submitter and the
verifier it came with (`NewTask`, `SentStatus`); of the statuses only those a
gate tests for are told apart, `other` being all the rest. `FirstWithId` is the
lookup of tasks by id, so that lists with duplicate ids are included.

Three pieces of history serve the properties only: `asSent` in an observation,
and in a task that nothing was done to since it was sent, and `remediated`, the
stages that were there when a verdict left no task open.

Abstractions. The expected revision is the batch's at every step, for a call
with another one is refused. Inputs that are required but only logged
(operators, reasons, notes, due dates) are always supplied. A creation request
carries the registration fields only: `CreateBatch` would store whatever else
the client put into the body, a plan or a transport report included, and with
such clients hardly any property of the workflow holds.

`TransitionAllowed` is the table of `domain/transition.go`, which no operation
consults. `StatusFollowsTable` checks them against it and names the two ways
they leave it: a correction that resumes the thaw, and a verdict that reopens a
sealed batch.

### Durability and Ledger

An operation is a request `[id, batch, expected, events]`; what it does to the
batch is abstracted to its place in the batch's history, whose length is the
revision. `memory` and `snapshot` are `store.Snapshot` in memory and on disk.
Steps: `Replay`, `Put` (memory, then the file: written, or failed with the file
as it was), `AppendEvent` once or twice (the tail moves first; the event is
written, lost, torn, or complete but for its newline), `SaveIdempotency` (second
write, failure ignored; the answer), `Restart` at rest, `Crash` anywhere inside
an operation, in the middle of writing an event too. `Start` loads the snapshot
and restores the tail as `Logger.Verify` does, with the empty tail when the log
does not verify, because `main` ignores the error. The two readers of the log
differ: `Verify` decodes a stream and needs no newlines, `VerifyChain` reads
lines, so an event without its newline is readable to it only as the last one
(`EndsLine`). Atomic steps are those whose intermediate states
nobody can see: the file is replaced by a rename, so a crash before it is the
crash without the write. A digest is the number of the event: digests of
different events differ. That the operating system may lose a renamed file is
not modelled (the code never syncs), nor is tampering with the log.

`Ledger` is the promise without files, memory and failures: per batch a history
that only grows and holds each request at most once, and success answered only
for what it holds. Durability implements it with the snapshot file as the
history (`ImplementsLedger`). The mapping shows why `Record` must allow several
requests at once: an operation whose write failed stays in memory, and the next
write of anyone brings it along.

### TransportSummary and Transport

`Summarized` is `SummarizeTransport` on an acceptable report (`Acceptable`: the
range, each interval, each against its predecessor); `Running` is its loop, as a
function from the number of intervals looked at to the report so far. The
reference counts instead: the minutes some interval below (above) the range
covers, the pairs of a minute and a degree outside the range in it, the greatest
of the excesses. Since a set holds a minute once, the reference shows double
counting. Temperatures are whole degrees, times whole minutes, and time 0 is the
one a client did not send. Totals a client sends with its report are of any
sign, for nothing checks them. Float rounding is left out.

`Transport` has one call per request that arrives, a retry included. `ReadBatch`
is the handler: it reads the batch without the mutex, compares the fields that
were sent with the stored ones, and goes on to the registration or the review.
`RegisterTransport`, `ReviewTransportDecision`, `Replay` and `Refuse` are the
two operations under the mutex; `OtherOperation` stands for the plan and all
that follows, the late remediation that reopens a sealed batch included, which
move status and revision. Of a review the number is kept, and
whether it has an operator and a reason; what it does to the risk is in
BatchWorkflow.

### Requests and AtomicService

A call goes `idle`, (`check`,) `enter`, `body`, `put`, `append`, (`announce`,)
`save`, `done`. `CheckVersion` is `ApprovePlanVersion` outside the mutex; `Body`
is everything from the replay to the writes through shared pointers, which is
why `plans` are objects of their own and the batch only says which is current;
`Put`, `AppendEvent`, `Announce` and `Save` are the writes of the commit.
`Reader` runs over and over: `Fetch` is `store.Get`, then `Encode` (the JSON of
`GET /v1/batches/{id}`), `Precheck` (`VerifyChainSummary`) or `Report`
(`VerifyChain`) reads the rest. `overlapped` is a history variable: an operation
was inside the mutex, or entered it, between the two reads.

The five operations are those that differ in what they do to plan, status and
log; the others are like `AddObservation` without the second event.
`RejectWithoutReason` is the one refusal that writes: the decision is in the
plan before the reason is looked for. Nothing repairs it but the next decision,
so the properties about quiet states and views name it (`Spoiled`). `digest`
stands for the digest in the release review, which `Report` compares before it
looks at the log. A client is
assumed to expect a revision it has seen (`Arrive`); it can be outdated by then.
A client that guesses a later revision can have its decision land on a plan
it has not seen, and that is the one assumption of `DecisionHitsNamedVersion`.
A plan that is read while it is written, a data race, shows here the decision
before or after the write, and nothing in between.

`AtomicService` is the promise to the clients that write: an operation is one
step, in which the expected revision, the status and the plan version a client
named all hold of what is stored, and each answer is one that such steps
justify. It has no mutex and no order of writes; the refused rejection that
changes the plan is a step of its own, for the code does not do better. Requests implements it with the
operation taking place at its first write (`Body`), which is where others can
begin to see it; from there until `Put`, `Current` is the batch to be put. The
version, which the code compares before it waits for the mutex, is part of the
atomic step: the comparison of the revision inside makes up for the time between.

### Registry

`CreateBatch` compares the new core with those of its site in memory and puts
it; `SaveIdempotency` records and answers; a write may fail in either, and
`Restart` may come between the two. `Advance` is the first other operation on a
batch. Codes are compared as `Normalize` leaves them (`normal`); `DepthLimit` is
where `ParseDepthInterval` no longer reads what `Normalize` printed, because of
the exponent. The two requests for one core under different spellings are the
case in the run. `QueryBatches` sorts (`Sorted` chooses the one sequence in order;
keys differ by their ids) by time and id, but its cursor compares
times as text. A fraction of a second is printed without trailing zeros, and the
`Z` behind it sorts after digits and point: a time sorts behind all later ones
whose digits extend its own (`Extends`, `TextBefore`), `.2Z` behind `.25Z` and a
whole second behind all of that second. The properties of a listing are stated
for times whose text is in their order (`TextInOrder`); of two times of which
one extends the other, batches are skipped or repeated. `Places` are the places
at which a text can end, from the finest digit but one up to the second.

## 3. Runs

| run | bounds | what it shows |
|---|---|---|
| `lifecycle` | three people and the empty name (symmetric), one-stage plans, good and short readings, task lists with duplicate ids, with tasks that come passed by their own submitter, submitted, or in a status of no meaning, 8 operations; 1.6 million states | types; different names; independent verdicts; complete plan history; approved plans frozen; status against its table; a task hidden by its id blocks the release for ever |
| `evidence` | two people and the empty name, plans of two stages (one warm) and of three, four readings, with no correction sent along, a clean one or an anomalous one without a code, reports of no, two and three factors and one with totals of the client's, one task, 8 operations; 1.6 million states | thaw, pause, anomaly and remediation; stored risk; precheck against review; what a seal requires |
| `durability` | two batches, six requests (two compete for a revision, one has two events), 2 failed writes, 1 interrupted operation, unlimited restarts and retries | log not ahead; answers match; chain verifies if unharmed; a verified chain stays so while the log ends with a newline; implements `Ledger` (acknowledged is durable, applied at most once) |
| `transport` | a registration, the same sent again, a rival and a review; reports of up to three intervals (inside, below, above, both sides, touching, overlapping; invalid ones alone), extremes that cover them or not, totals (above and below zero) and excess claimed by the client; 117,000 states | totals against the reference through registrations and reviews; no minute twice; severity; evidence stored once; success is truthful; when a retry is refused |
| `requests` | seven calls to one batch at once: a plan, an approval, a rival rejection and the same without its reason, a revised plan, an observation, the release; one reader; 80,000 states, about a minute with liveness | operations are atomic to their clients (`AtomicService`: no update lost, no request carried out twice); what readers may see; a decision hits its plan; retried decisions; every call returns; failed checks pass |
| `registry` | four creations (touching, overlapping and with one code spelled twice, unordered), three ids, three times (`.12`, `.2` and `.25` of a second, of which the last extends the second), pages of one, 2 failed writes, unlimited retries and restarts; 330,000 states | cores of a site apart; acknowledged batches kept; no second batch; listings ordered and complete |
| `sealed_immutable` | as `lifecycle`, simpler inputs | violated: see findings |
| `precheck_offer` | same | violated |
| `atomic_rejection` | same | violated |
| `two_person_approval` | same | violated |
| `interrupted_commit` | one batch, two requests, no failed write, one crash | violated |
| `headerless` | two requests with one id, nothing fails | violated |

`MaxRevision` bounds the operations: a batch is created at revision 1 and takes
eight. In `lifecycle` they take a plan that is rejected, revised and approved up
to its release; or they are the transport, a plan, its approval, the only stage,
tasks, a submission, a verdict and the release. In `evidence` they thaw a
three-stage plan with an anomaly that is corrected, and release it, or a
two-stage plan with an anomaly that is remediated. What takes longer, a verdict
on a sealed batch for one, is left to the proofs: all properties of these two
runs are proved for every bound, and the bounds here serve to find mistakes
early.
In `durability` two faults are what it takes to lose an unnoticed `Put` and the
write after it, or to spoil the log and go on behind it; the interrupted
operation adds a restart in between, and restarts at rest are unlimited. Its
properties are proved as well.

In `transport` three intervals are the fewest where a predecessor check can miss
a pair, the values put each threshold of the severity (3 and 10 degrees, 120
minutes, exposure 180) on either side, and three operations are a registration
and two reviews or a review under a plan. In `requests` the revisions reach a
second plan version, so that a retry can meet a newer one, and the seal, so
that a report can be asked for. In `registry` a batch can be lost by a failed
write and a restart and its core created again, and a listing goes through
three pages while that happens.

Deadlock is checked in `requests` and `registry`, where readers and restarts can
always go on. In the others it is not: a sealed batch without tasks takes no
operation, a batch at its revision bound neither, and a service whose clients
have no request left that it accepts, or all of whose calls are answered, does
nothing.

### Fairness and liveness

Only `Requests` states fairness; in the other modules every step waits for a
client. There nothing makes a client send or ask anything either. What the
code's scheduling gives: a goroutine that can run does run (weak fairness of
`Proceed` and `Finish`), and `sync.Mutex` hands itself over to a waiter that has
waited for a millisecond, so that a call that waits while the mutex is free
again and again gets it (strong fairness of `Enter`; with weak fairness others
could overtake it for ever). Under it `EveryCallReturns`, and `ChecksSettle`: once
the calls have been answered, every check that begins is told that the chain
verifies.

Each property of a passing run has a mutant in `PROJECT.json`: an operator that
stands beside its original in the module (`..._OffByOne`, `..._Self`,
`PutFailed_Ignored`) with the bug it makes in a comment, and breaks it.

### Findings

* `SealedBatchImmutable`: `SubmitRemediation` and `VerifyRemediation` accept a
  sealed batch, and a verdict can return it to review.
* `OfferedPassIsAccepted`: the precheck has no gate for the status, so it offers
  a pass in remediation which `Review` refuses. (The converse is a theorem.)
* `EveryChangeIsRevisioned`: a rejection without a reason is refused after it
  changed the stored plan.
* `ApprovedByTwo`: an approval without `approver_id`, or of a plan without
  `author_id`, counts as one by somebody else; the README of the service
  promises an approval by two people.
* `AppliedIsAccountedFor`: a crash between the writes of a commit leaves a
  request whose retry is refused, or a batch whose audit chain never verifies
  again. `main` (`main.go:62`) returns without waiting for `Shutdown`, so an
  ordinary stop is such a crash.
* `SuccessMeansApplied`: the default request id makes the second post to a path
  a replay of the first. All properties of `durability` are about requests with
  ids of their own.

What the properties of the passing runs allow is as telling. A reader that an
operation overlaps may see a decision without its status or be told that a
sound chain is broken (`TornViewOverlapped`, `FailedCheckOverlapped`); a retried
decision is refused once there is a newer plan (`RetryRefusedOnlyAfterNewVersion`);
a retried registration that claims its own excess is refused as different
(`RetryDiffersOnlyInClaim`); the severity looks at extremes nothing compares with
the intervals (`SeverityCoversDeviation` assumes that they cover them). A
correction that came with its reading lets a batch thaw on over an anomaly
(`ThawingIsClean`, `AnomalyWasRemediated` except those `asSent`); a task that came
passed is never verified by anybody (`PassedTasksVerifiedByAnother`); a plan that
was rejected without a reason is shown as rejected while it can still be approved
(`TornViewOverlapped`, `HistoryRecordsDecisions`). And a transport review drops
the totals a client had claimed at its registration, with the risk factors they
triggered (`ReviewTransport`, `Reset`).

## 4. Proofs

`BatchWorkflowProofs` proves for every set of people, task ids, reports, plans,
readings, task lists and every revision bound (assumptions: `PersonAssumption`,
`NilAssumption`, `InputAssumption`) all invariants and action properties of the
runs `lifecycle` and `evidence`, and two more, `PausedOnlyUnderReview` and
`GradeChangesAreAudited`.

1. *Types* (`TypeCorrect`), from lemmas about what each helper returns.
2. *The inductive invariant* `IInv` (`Invariant`). The safety properties are not
   inductive: that a thawing batch has a stage left depends on observations
   existing only under an approved plan, which depends on the status. `PhaseInv`
   adds it: the plan is approved exactly in the executing statuses (thawing,
   review, remediation, sealed), a plan needs a registered transport and has
   stages, observations and tasks need an approved plan. With it
   `ThawingHasNextStage`, `PausedOnlyUnderReview`, `NamesDiffer` and
   `RiskMatchesEvidence` are preserved together (`SafeStep`), and
   `ThawingIsClean` with `AnomalyWasRemediated` on top (`AnomalyStep`).
   This is where the missing status check of the remediation steps matters: a
   verdict can move a sealed batch to review, and the invariant has to hold there.
3. *Consequences*: `AcceptedIsOffered`, `SealRequiresClearance` (while the
   stored revision matches, the stored assessment is the current one),
   `GradeChangesAnnounced`, `ApprovalIsFinal`, `StatusKeepsToTable`.
4. *Verdicts and versions*: `VerdictIsIndependent` is inductive with the types;
   `HistoryIsComplete` needs that the last version is pending exactly while the
   batch waits for a decision (`DecisionInv`). `HiddenTaskIsDeadEnd` is a step
   property: submissions and verdicts reach the first task of an id only.

`DurabilityProofs` proves every property of the run `durability`, the refinement
of `Ledger` included, for every set of batches and requests and any number of
failed writes and interrupted operations (`RequestAssumption`,
`BoundAssumption`).

1. *Types* (`TypeCorrect`) need one thing more: the tail a restart takes from the
   log is a digest that was made (`DigestsMade`).
2. *The store invariant* (`StoreInvariant`): a request stands in the history of
   its own batch at the revision it makes (`Placed`), memory begins with what the
   file holds (`Behind`) and equals it from `Put` until the answer, with the
   request in it (`PutPersisted`). Without the last conjunct
   `LogNotAheadOfSnapshot` is not inductive: a `Put` whose write failed leaves
   memory ahead, and nothing else rules out that its events are logged. It gives
   `AppliedOnceHolds` and `LogNotAhead`; `SnapshotGrows` is the step lemma.
3. *Answers* (`AnswerInvariant`): what memory or the file answers is in the file.
   From it `AckedStaysDurable`, `AnswersMatch` and `LedgerImplemented`. These
   three assume `UniqueIds`, that no two requests share an id; the run `headerless`
   shows what happens otherwise. The assumption is the theorems', not the
   module's, for the service does not enforce it. (`AppliedOnce` and
   `AckedIsDurable` are proved only: `ImplementsLedger` implies them for the
   file, and the run checks that.)
4. *The log*: it only grows (`LogOnlyGrows`), and `VerifyChain` looks at nothing
   behind the event it stops at (`VerifyPrefix`), which gives `VerifiedStays`.
   `UnharmedVerifies` needs that while nothing went wrong the tail is the last
   digest, revisions have no gaps and the log has come to the current revision of
   every batch, less the one an operation is about to tell of (`Unbroken`).

`TransportProofs`, for every set of calls, ids and bodies (`DeliveryAssumption`,
`NobodyAssumption`, `BoundAssumption`). `EvidenceInv` says that the stored report has the evidence
of the call it came from; `SummaryKeeps`, that the summary writes totals only,
is the lemma under it. `EvidenceIsImmutable`, `RetryIsRefusedForItsClaim` and
`ExcessHasNote` follow. For `SuccessIsTruthful`, `SuccessInv` adds that a call on
its way to a review has agreed with the stored report, for what the handler
compared before the mutex cannot change behind it; it assumes `UniqueIds`.

What a report adds up to is proved for reports of any length, in two parts.
`TransportSummaryProofs` is about the loop alone: `IntervalsApart` carries the
comparison with the predecessor over to every pair, `AddIntervalAdds` says what a
turn adds, `OneMoreCounts` and `OneMoreDeviates` that the reference grows by the
same, because the next interval shares no minute with those before; `LoopCounts`
and from it `SummaryCounts` follow for the whole report, and `DeviationIsGreatest`
and `SeverityOfExcess` say what the deviation and the severity mean. An induction
over the length is an argument about the least length for which the claim
fails: `LeastNatural` (from well-foundedness of `<`) gives it, the turn before it
refutes it. `TransportProofs` then makes an invariant of it. `TotalsMatchIntervals`
alone is not inductive, for a review recomputes from what is stored: `TotalsInv`
adds that the stored report is `Acceptable`, that its severity is the one of
its totals, and `EvidenceInv`. `TotalsAreThoseOfTheIntervals`,
`StoredIntervalsAreApart` and `SeverityIsNotMilder` follow from it, and `TypeCorrect`
from `TypeInv`, the types on top of it. `SeverityCoversDeviation` keeps its
hypothesis in the theorem, that the extremes of the report cover its intervals;
the run has reports with and without it.

`RequestsProofs`, for every set of calls, readers and ids (`RequestAssumption`,
`NobodyAssumption`). In layers, each using those before: who is inside holds
the mutex (`HolderInv`); a call has its answer when it is done (`AnswerInv`), so
that a refused rejection stays known (`AnswersStay`); whoever is about to put has
staged the stored revision, otherwise batch and plan agree or the plan is
`Spoiled`, and a sealed batch has the digest of its own revision (`PutInv`); a call past the version check has named the plan of the
revision it expects, if that is still the stored one (`DecisionInv`). `PutInv`
and `DecisionInv` are kept together: only because the refused rejection has named
the plan it spoils can the exception be told from a lost decision. These four are
`ServiceInv`, which gives `NoUpdateIsLost`, `PlanAgreesOutsideTheMutex`,
`DecisionIsOnTheNamedPlan` and, with `UniqueIds`, `RetryIsRefusedForANewPlan`. The
log tells of every revision up to the stored one, less one while its event is to
come (`LogInv`), and a reader that was not overlapped has the stored batch still
(`ReadInv`: `OnlyOverlapTearsViews`, `OnlyOverlapFailsChecks`). The call that has begun to
write is the holder, so that every step is one of `AtomicService` or a stutter
(`AtomicStep`: `BodyIsOperation`, `SpoilingIsOperation`, `OnlyAnswered`, `Unmoved`;
`AtomicServiceImplemented`).

`RegistryProofs`, for every set of requests, ids, sites, depths and times and
any number of failed writes (`BodyAssumption`, `NormalAssumption`,
`NumberAssumption`): `RegistryInv` says of memory and file each that the cores are
`Apart`, and that every answer somebody knows, or may still be told (`Told`), has
its batch in both (`Kept`). `CoresStayApart`, `AcknowledgedBatchIsKept` and
`RetryIsOneBatch` follow, the last because a second batch for one request would
conflict with the first.

The listing needs `ListingInv` on top: the store is finite, so that its keys can
be sorted (`KeysCanBeSorted`, `SortedIsInOrder`); the cursor is behind everything
seen (`Placed`); what was seen is in order; and a batch that was there all the time and
has not been seen comes behind the cursor, and so on a later page (`Covered`). `RestFollowsCursor` says that what is left of the sorted keys behind
the cursor is what is greater than it, with the hypothesis `TextInOrder` on the
keys concerned, and `TurnFollows` that one page keeps all three, whatever was
created, advanced or lost since the page before. `ListingIsInOrder`,
`SteadyBatchIsListed` and `TypeCorrect` follow.

Each invariant and each action property of the passing runs, and both refinements,
is stated by a theorem. Model-checked only: the violations, and liveness
(`EveryCallReturns`, `ChecksSettle`), which rests on fairness and ENABLED. The pure
rules of `RiskRules` are used by the theorems, not compared with a second
definition.

## 5. Not modelled

* Views that format one copy of a batch: plan differences, observation and risk
  summaries, the counts beside a listing, `Events`.
* `AssessIntegrity`, whose grade is overwritten before anything reads it.
* `internal/store/{backup,idempotency,index,transaction,validate}.go`,
  `workflow/{commands,idempotency,remediation}.go`, `audit/events.go`,
  `httpapi/{codec,routes}.go`: nothing calls them.
* Creation bodies that carry more than the registration fields.
* Decoding, routing and status codes of the HTTP layer, flags and self-check:
  they keep no state.
* Payload sizes (the 64 KB line limit of the log scanner), float rounding,
  digests of an older form, tampering with the files, and renames the
  operating system loses.

## 6. Plan

Left, in the order of their worth:

1. `CorrectObservation` and `SubmitRemediation` in Requests, whose writes go
   through shared slices rather than the plan: the same races by another path.
2. One refinement that connects Requests with Durability, so that the readers
   also meet failed writes and restarts, and `AtomicService` with `Ledger`.
