---------------------------- MODULE BatchWorkflow ----------------------------
(***************************************************************************)
(* One sample batch and every operation of workflow.Service that changes   *)
(* it, from the registration of its transport to the sealed release        *)
(* report.  Each operation runs under the service mutex and is one action; *)
(* a call the code refuses changes nothing and is no step, except the one  *)
(* refusal that does change the batch (RejectWithoutReason below).         *)
(*                                                                         *)
(* An operation names the revision it expects and is refused unless that   *)
(* is the batch's, so a step is always taken at the current revision.      *)
(* Guards on inputs that are only logged (operator, review and correction  *)
(* reasons, notes, overdue reasons, due dates) restrict nothing else and   *)
(* are left out: a client that supplies them always exists.  So are        *)
(* fields nothing reads back: execution counters, gate reasons, ids, times.*)
(*                                                                         *)
(* "asSent" in observations and tasks, and remediated, are history: what   *)
(* the properties say about records the service took over unexamined.      *)
(***************************************************************************)
EXTENDS RiskRules

CONSTANTS
    Person,           \* identified people: authors, approvers, reviewers...
    NoOne,            \* the empty identity "", which some checks let through
    Nil,              \* Go's nil pointer
    TaskId,           \* remediation task ids
    TransportReports, \* the transport reports clients send
    StagePlans,       \* the stage lists of the thaw plans clients send
    Readings,         \* the readings clients send for a stage
    SentCorrections,  \* the corrections they send along with a reading
    TaskLists,        \* the lists of remediation tasks clients send
    MaxRevision       \* bound: a batch takes no operation at this revision

Actor == Person \cup {NoOne}

\* "other" stands for every string no gate tests for.
TaskStatus == {"pending", "submitted", "passed", "rejected", "other"}

\* A task as a client sends it, in whatever state, by and verified by whomever.
TaskDraft == [id : TaskId, status : TaskStatus \cup {""},
              submittedBy : Actor, verifiedBy : Actor]

\* "asSent": no submission and no verdict has changed the task since.
Task == [id : TaskId, status : TaskStatus,
         submittedBy : Actor, verifiedBy : Actor, asSent : BOOLEAN]

Plan == [version : Nat, author : Actor, approver : Actor,
         status : {"pending", "approved", "rejected"}, stages : Seq(Stage)]

\* "released": the decision is "pass" and no retest failed.
ReleaseReview == [reviewer : Person, released : BOOLEAN]

Status == {"draft", "awaiting_plan", "plan_pending", "thawing",
           "review", "remediation", "sealed"}

\* The table of domain.TransitionAllowed, which no operation consults.
TransitionAllowed(from, to) ==
    <<from, to>> \in
        {<<"draft", "awaiting_plan">>, <<"awaiting_plan", "plan_pending">>,
         <<"plan_pending", "thawing">>, <<"plan_pending", "awaiting_plan">>,
         <<"thawing", "review">>, <<"review", "remediation">>,
         <<"review", "sealed">>, <<"remediation", "review">>,
         <<"remediation", "sealed">>}

AuditType ==
    {"batch.created", "transport.assessed", "transport.reviewed",
     "risk.changed", "plan.created", "plan.approved", "plan.rejected",
     "observation.recorded", "observation.corrected", "remediation.created",
     "remediation.submitted", "remediation.verified", "release.reviewed"}

ASSUME PersonAssumption == NoOne \notin Person

ASSUME NilAssumption ==
    /\ Nil \notin Transport
    /\ Nil \notin Plan
    /\ Nil \notin RiskAssessment
    /\ Nil \notin ReleaseReview
    /\ Nil \notin Reading

\* What the request decoder and the validation of plans let through.
ASSUME InputAssumption ==
    /\ TransportReports \subseteq Transport
    /\ StagePlans \subseteq Seq(Stage) \ {<<>>}
    /\ Readings \subseteq Reading
    /\ SentCorrections \subseteq Reading
    /\ TaskLists \subseteq Seq(TaskDraft)
    /\ MaxRevision \in Nat \ {0}

VARIABLES
    status,       \* IceCoreBatch.Status
    revision,     \* IceCoreBatch.Revision
    transport,    \* the transport report with its review decisions, or Nil
    risk,         \* the stored risk assessment, or Nil
    plan,         \* the current thaw plan, or Nil
    planHistory,  \* every plan version, the current one last
    observations, \* the effective observation of each stage done so far
    paused,       \* Execution.Paused
    tasks,        \* the remediation tasks
    review,       \* the last release review, or Nil
    remediated,   \* history: the stages there when the last open task passed
    events        \* the audit events the last step appended

evidence == <<transport, risk>>
plans    == <<plan, planHistory>>
gate     == <<status, paused>>
vars     == <<status, revision, transport, risk, plan, planHistory,
              observations, paused, tasks, review, remediated, events>>

\* Every field keeps to the values the service and its readers tell apart, and
\* whatever status a client gave a task, it has one.
TypeOK ==
    /\ status \in Status
    /\ revision \in 1..MaxRevision
    /\ transport \in Transport \cup {Nil}
    /\ risk \in RiskAssessment \cup {Nil}
    /\ plan \in Plan \cup {Nil}
    /\ planHistory \in Seq(Plan)
    /\ observations \in Seq(Observation)
    /\ paused \in BOOLEAN
    /\ tasks \in Seq(Task)
    /\ review \in ReleaseReview \cup {Nil}
    /\ remediated \subseteq Nat
    /\ events \in Seq(AuditType)

-----------------------------------------------------------------------------
(* Committing an operation *)

\* store.Put raises the revision by one and audit.Append records the events.
Commit(types) ==
    /\ revision < MaxRevision
    /\ revision' = revision + 1
    /\ events' = types

Grade(r) == IF r = Nil THEN "" ELSE r.grade

\* The bug of evaluating the risk before the observation is stored.
Reassess_StaleObservations(t, obs) ==
    risk' = EvaluateRisk(t, observations, revision + 1)

\* The assessment of the evidence as the operation leaves it.
Reassess(t, obs) == risk' = EvaluateRisk(t, obs, revision + 1)

WithRiskChange(type) ==
    IF Grade(risk') # Grade(risk) THEN <<type, "risk.changed">> ELSE <<type>>

-----------------------------------------------------------------------------
(* Registration and transport *)

\* CreateBatch stores a draft at revision 1, with what the body carried: the
\* registration fields, it is assumed here.  What it checks is in Registry.
Init ==
    /\ status = "draft"
    /\ revision = 1
    /\ transport = Nil
    /\ risk = Nil
    /\ plan = Nil
    /\ planHistory = <<>>
    /\ observations = <<>>
    /\ paused = FALSE
    /\ tasks = <<>>
    /\ review = Nil
    /\ remediated = {}
    /\ events = <<"batch.created">>

RegisterTransport(t) ==
    /\ status # "sealed"
    /\ transport = Nil
    /\ t.exceeded => t.note
    /\ transport' = t
    /\ Reassess(t, observations)
    /\ status' = "awaiting_plan"
    /\ Commit(WithRiskChange("transport.assessed"))
    /\ UNCHANGED <<plans, observations, paused, tasks, review, remediated>>

\* Supplements, or withdraws, the review evidence, in every state but the
\* sealed one.  SummarizeTransport is run again on totals set to zero, which
\* leaves what was measured and drops the totals the client had sent.
ReviewTransport(disposition, qualityApproved, dualReviewed) ==
    /\ transport # Nil
    /\ status # "sealed"
    /\ transport.measured.exceeded => transport.note
    /\ transport' = [transport EXCEPT !.factors = transport.measured.factors,
                                      !.exceeded = transport.measured.exceeded,
                                      !.disposition = disposition,
                                      !.qualityApproved = qualityApproved,
                                      !.dualReviewed = dualReviewed]
    /\ Reassess(transport', observations)
    /\ Commit(WithRiskChange("transport.reviewed"))
    /\ UNCHANGED <<gate, plans, observations, tasks, review, remediated>>

-----------------------------------------------------------------------------
(* Thaw plan *)

\* The bug of asking for a cleared assessment in whatever status.
CanCreatePlan_AnyStatus == risk # Nil /\ risk.unmet = {}

CanCreatePlan ==
    /\ status = "awaiting_plan"
    /\ risk # Nil
    /\ risk.unmet = {}

\* Nothing asks for an author, and an approver the client names is kept until
\* the decision overwrites it.
CreatePlan(author, approver, stages) ==
    LET p == [version |-> Len(planHistory) + 1, author |-> author,
              approver |-> approver, status |-> "pending", stages |-> stages]
    IN  /\ CanCreatePlan
        /\ plan' = p
        /\ planHistory' = Append(planHistory, p)
        /\ status' = "plan_pending"
        /\ Commit(<<"plan.created">>)
        /\ UNCHANGED <<evidence, observations, paused, tasks, review,
                       remediated>>

MayDecide(approver) ==
    /\ plan # Nil
    /\ status = "plan_pending"
    /\ approver # plan.author

Decided(approver, decision) ==
    [plan EXCEPT !.approver = approver, !.status = decision]

\* The bug of leaving the decision out of the version history.
RecordDecision_CurrentOnly(p) == plan' = p /\ UNCHANGED planHistory

RecordDecision(p) ==
    /\ plan' = p
    /\ planHistory' = [planHistory EXCEPT ![Len(planHistory)] = p]

ApprovePlan(approver) ==
    /\ MayDecide(approver)
    /\ RecordDecision(Decided(approver, "approved"))
    /\ status' = "thawing"
    /\ Commit(<<"plan.approved">>)
    /\ UNCHANGED <<evidence, observations, paused, tasks, review, remediated>>

RejectPlan(approver) ==
    /\ MayDecide(approver)
    /\ RecordDecision(Decided(approver, "rejected"))
    /\ status' = "awaiting_plan"
    /\ Commit(<<"plan.rejected">>)
    /\ UNCHANGED <<evidence, observations, paused, tasks, review, remediated>>

\* A rejection without a reason is refused, but only after the decision was
\* written through b.Plan, a pointer into the stored batch: the refused call
\* leaves the stored plan rejected, at the same revision and with no event.
RejectWithoutReason(approver) ==
    /\ MayDecide(approver)
    /\ plan' = Decided(approver, "rejected")
    /\ events' = <<>>
    /\ UNCHANGED <<gate, revision, evidence, planHistory, observations, tasks,
                   review, remediated>>

-----------------------------------------------------------------------------
(* Staged observations *)

CanObserve == plan # Nil /\ plan.status = "approved" /\ status = "thawing"

\* The bug of an off-by-one in the number of stages left.
ThawIncomplete_OffByOne(obs) == Len(obs) <= Len(plan.stages)

ThawIncomplete(obs) == Len(obs) < Len(plan.stages)

\* The reading r, and the last correction v its client sent along (Nil: none).
\* The reading is what is examined, the correction what takes effect.
AddObservation(r, v) ==
    /\ CanObserve
    /\ LET stage == plan.stages[Len(observations) + 1]
           o     == Observed(stage, r)
       IN  /\ observations' =
                Append(observations, IF v = Nil THEN o ELSE SentAlong(stage, v))
           /\ status' = IF Anomalous(o) \/ ~ThawIncomplete(observations')
                        THEN "review" ELSE status
           /\ paused' = (paused \/ Anomalous(o))
    /\ Reassess(transport, observations')
    /\ Commit(WithRiskChange("observation.recorded"))
    /\ UNCHANGED <<transport, plans, tasks, review, remediated>>

\* The bug of looking at the last stage only.
ResumeOrHold_LatestOnly(obs) ==
    LET held == Anomalous(obs[Len(obs)])
    IN  /\ status' = IF held THEN "review"
                     ELSE IF ThawIncomplete(obs) THEN "thawing" ELSE status
        /\ paused' = IF held THEN TRUE
                     ELSE IF ThawIncomplete(obs) THEN FALSE ELSE paused

\* After a correction: any anomaly left pauses the batch in review; none left
\* resumes an unfinished thaw; a finished one stays as it is, paused or not.
ResumeOrHold(obs) ==
    \/ /\ AnyAnomaly(obs)
       /\ status' = "review"
       /\ paused' = TRUE
    \/ /\ ~AnyAnomaly(obs)
       /\ ThawIncomplete(obs)
       /\ status' = "thawing"
       /\ paused' = FALSE
    \/ /\ ~AnyAnomaly(obs)
       /\ ~ThawIncomplete(obs)
       /\ UNCHANGED gate

CorrectObservation(i, r) ==
    /\ status # "sealed"
    /\ observations' =
         [observations EXCEPT ![i] = Corrected(plan.stages[i], @, r)]
    /\ ResumeOrHold(observations')
    /\ remediated' = remediated \ {i}
    /\ Reassess(transport, observations')
    /\ Commit(WithRiskChange("observation.corrected"))
    /\ UNCHANGED <<transport, plans, tasks, review>>

-----------------------------------------------------------------------------
(* Remediation *)

NewTask(draft, taskStatus) ==
    [id |-> draft.id, status |-> taskStatus, submittedBy |-> draft.submittedBy,
     verifiedBy |-> draft.verifiedBy, asSent |-> TRUE]

UnderReview == status \in {"review", "remediation"}

SentStatus(draft) == IF draft.status = "" THEN "pending" ELSE draft.status

\* Keeps a status the client gave a task; an empty list is accepted too.
AddRemediation(drafts) ==
    /\ UnderReview
    /\ tasks' = tasks \o [i \in DOMAIN drafts |->
                            NewTask(drafts[i], SentStatus(drafts[i]))]
    /\ status' = "remediation"
    /\ Commit(<<"remediation.created">>)
    /\ UNCHANGED <<evidence, plans, observations, paused, review, remediated>>

\* Tasks are looked up by id: the first match is the one changed.
FirstWithId(i) == \A j \in 1..(i - 1) : tasks[j].id # tasks[i].id

\* In any status of the batch, the sealed one included.
SubmitRemediation(i, submitter) ==
    /\ FirstWithId(i)
    /\ submitter # NoOne
    /\ tasks' = [tasks EXCEPT ![i].status = "submitted",
                              ![i].submittedBy = submitter,
                              ![i].asSent = FALSE]
    /\ Commit(<<"remediation.submitted">>)
    /\ UNCHANGED <<gate, evidence, plans, observations, review, remediated>>

\* The bug of letting the submitter verify the own task.
MayVerify_Self(i, reviewer) == reviewer # NoOne /\ tasks[i].status = "submitted"

MayVerify(i, reviewer) ==
    /\ reviewer # NoOne
    /\ reviewer # tasks[i].submittedBy
    /\ tasks[i].status = "submitted"

\* The bug of storing the decision as the new status.
Verdict_DecisionAsStatus(pass) == IF pass THEN "pass" ELSE "reject"

Verdict(pass) == IF pass THEN "passed" ELSE "rejected"

\* The bug of waiting for the tasks under way only.
AllPassed_OrPending(ts) ==
    \A i \in DOMAIN ts : ts[i].status \in {"passed", "pending"}

AllPassed(ts) == \A i \in DOMAIN ts : ts[i].status = "passed"

\* The bug of returning to review with the first task passed.
LastVerdict_First(pass, ts) == pass

LastVerdict(pass, ts) == pass /\ AllPassed(ts)

\* The verdict that passes the last open task returns the batch to review and
\* lifts the pause, whatever status the batch was in.
VerifyRemediation(i, reviewer, pass) ==
    /\ FirstWithId(i)
    /\ MayVerify(i, reviewer)
    /\ tasks' = [tasks EXCEPT ![i].status = Verdict(pass),
                              ![i].verifiedBy = reviewer,
                              ![i].asSent = FALSE]
    /\ IF LastVerdict(pass, tasks')
       THEN status' = "review" /\ paused' = FALSE
       ELSE UNCHANGED gate
    /\ remediated' = IF AllPassed(tasks') THEN DOMAIN observations
                     ELSE remediated
    /\ Commit(<<"remediation.verified">>)
    /\ UNCHANGED <<evidence, plans, observations, review>>

-----------------------------------------------------------------------------
(* Release review *)

\* The stored assessment while it is of this revision, a fresh one otherwise.
CurrentRisk ==
    IF risk # Nil /\ risk.revision = revision THEN risk
    ELSE EvaluateRisk(transport, observations, revision)

StagesComplete == plan # Nil /\ Len(observations) = Len(plan.stages)

\* The bug of trusting that a finished thaw is a clean one.
ReleaseReady_IgnoresPause ==
    /\ status = "review"
    /\ plan # Nil /\ plan.status = "approved"
    /\ StagesComplete
    /\ CurrentRisk.unmet = {}
    /\ AllPassed(tasks)

\* The bug of skipping the preconditions once the plan was approved.
ReleaseReady_IgnoresRisk ==
    /\ status = "review"
    /\ plan # Nil /\ plan.status = "approved"
    /\ StagesComplete
    /\ ~paused
    /\ AllPassed(tasks)

ReleaseReady ==
    /\ status = "review"
    /\ plan # Nil /\ plan.status = "approved"
    /\ StagesComplete
    /\ ~paused
    /\ CurrentRisk.unmet = {}
    /\ AllPassed(tasks)

\* The bug of keeping only the approver out of the release review.
Independent_OfApprover(reviewer) ==
    reviewer # NoOne /\ (plan # Nil => reviewer # plan.approver)

Independent(reviewer) ==
    /\ reviewer # NoOne
    /\ plan # Nil => reviewer \notin {plan.author, plan.approver}

PassAccepted(reviewer) ==
    UnderReview /\ Independent(reviewer) /\ ReleaseReady

\* Review with decision "pass" and no failed retest.
Seal(reviewer) ==
    /\ PassAccepted(reviewer)
    /\ review' = [reviewer |-> reviewer, released |-> TRUE]
    /\ status' = "sealed"
    /\ Commit(<<"release.reviewed">>)
    /\ UNCHANGED <<evidence, plans, observations, paused, tasks, remediated>>

\* Review with any other decision, or a failed retest: the batch goes to
\* remediation, with new tasks or with those it already has.
SendBack(reviewer, drafts) ==
    /\ UnderReview
    /\ Independent(reviewer)
    /\ drafts # <<>> \/ tasks # <<>>
    /\ tasks' = tasks \o [i \in DOMAIN drafts |->
                            NewTask(drafts[i], "pending")]
    /\ review' = [reviewer |-> reviewer, released |-> FALSE]
    /\ status' = "remediation"
    /\ Commit(<<"release.reviewed">>)
    /\ UNCHANGED <<evidence, plans, observations, paused, remediated>>

\* ReleasePrecheck: the gates it reports, and "pass" among the allowed
\* decisions when none of them blocks.  (It does not look at the status of a
\* batch that is not sealed.)
PassOffered(reviewer) ==
    /\ status # "sealed"
    /\ plan # Nil /\ plan.status = "approved"
    /\ StagesComplete
    /\ transport # Nil /\ CurrentRisk.unmet = {}
    /\ ~paused
    /\ AllPassed(tasks)
    /\ Independent(reviewer)

-----------------------------------------------------------------------------
(* Specification *)

Next ==
    \/ \E t \in TransportReports : RegisterTransport(t)
    \/ \E d, q, r \in BOOLEAN : ReviewTransport(d, q, r)
    \/ \E p, q \in Actor, s \in StagePlans : CreatePlan(p, q, s)
    \/ \E p \in Actor : ApprovePlan(p)
    \/ \E p \in Actor : RejectPlan(p)
    \/ \E p \in Actor : RejectWithoutReason(p)
    \/ \E r \in Readings, v \in SentCorrections \cup {Nil} :
         AddObservation(r, v)
    \/ \E i \in DOMAIN observations, r \in Readings : CorrectObservation(i, r)
    \/ \E ds \in TaskLists : AddRemediation(ds)
    \/ \E i \in DOMAIN tasks, p \in Actor : SubmitRemediation(i, p)
    \/ \E i \in DOMAIN tasks, p \in Actor, pass \in BOOLEAN :
         VerifyRemediation(i, p, pass)
    \/ \E p \in Actor : Seal(p)
    \/ \E p \in Actor, ds \in TaskLists : SendBack(p, ds)

Spec == Init /\ [][Next]_vars

-----------------------------------------------------------------------------
(* Safety *)

\* AddObservation reads Plan.Stages at the index after the last observation
\* without a bound check: a batch that is thawing always has an approved plan
\* with a stage left, whatever corrections and remediation brought it back.
ThawingHasNextStage ==
    status = "thawing" =>
        /\ plan # Nil
        /\ plan.status = "approved"
        /\ Len(observations) < Len(plan.stages)

\* The gate of the execution: only a batch under review is paused, so nobody
\* records a stage, or holds a sealed batch, that is marked paused.
PausedOnlyUnderReview == paused => UnderReview

\* Separate names over the whole life of a batch: whoever approved the plan gave
\* another name than its author (or none, see ApprovedByTwo), and whoever
\* released a sealed batch gave one that is neither, even when a plan was
\* revised and decided several times in between.
NamesDiffer ==
    /\ plan # Nil /\ plan.status = "approved" => plan.approver # plan.author
    /\ status = "sealed" =>
           /\ plan # Nil /\ plan.status = "approved"
           /\ review # Nil /\ review.released
           /\ review.reviewer \notin {NoOne, plan.author, plan.approver}

\* No stage is thawed over an anomaly the service looked at, however often the
\* observations were corrected: what is anomalous while the batch is thawing is
\* a correction its client had sent along with a clean reading.
ThawingIsClean ==
    status = "thawing" =>
        \A i \in DOMAIN observations :
            Anomalous(observations[i]) => observations[i].asSent

\* An anomaly is not forgotten: the batch stays paused over it until it is
\* corrected or the last open task is passed while it is there.  A pass before
\* it was recorded, or over another stage before this one, is no excuse.
AnomalyWasRemediated ==
    ~paused =>
        \A i \in DOMAIN observations :
            Anomalous(observations[i]) =>
                observations[i].asSent \/ i \in remediated

\* CanCreatePlan, and ReleaseReady when the revision matches, read the stored
\* assessment instead of evaluating it again.  It is never stale: it is what
\* EvaluateRisk makes of the evidence the batch holds now.
RiskMatchesEvidence ==
    /\ transport = Nil <=> risk = Nil
    /\ transport # Nil =>
           risk = EvaluateRisk(transport, observations, risk.revision)

\* A verdict is somebody else's: a passed task is one its client sent passed,
\* with nothing done to it since, or was verified by a person with a name other
\* than that of whoever submitted it last.
PassedTasksVerifiedByAnother ==
    \A i \in DOMAIN tasks :
        tasks[i].status = "passed" /\ ~tasks[i].asSent =>
            tasks[i].verifiedBy \notin {NoOne, tasks[i].submittedBy}

\* The version history of the plan: versions count up from one, every
\* superseded version was rejected by somebody else than its author, and the
\* current plan is the last version, but for the refused rejection that edits
\* the pending plan in place.
HistoryRecordsDecisions ==
    /\ \A i \in DOMAIN planHistory : planHistory[i].version = i
    /\ \A i \in 1..(Len(planHistory) - 1) :
           /\ planHistory[i].status = "rejected"
           /\ planHistory[i].approver # planHistory[i].author
    /\ plan = Nil <=> planHistory = <<>>
    /\ plan # Nil =>
           LET last == planHistory[Len(planHistory)]
           IN  \/ plan = last
               \/ /\ status = "plan_pending"
                  /\ last.status = "pending"
                  /\ plan = [last EXCEPT !.status = "rejected",
                                         !.approver = plan.approver]

\* Review and ReleasePrecheck compute the release gate independently of each
\* other: what Review accepts, the precheck has offered.
PassAcceptedIsOffered ==
    \A p \in Actor : PassAccepted(p) => PassOffered(p)

-----------------------------------------------------------------------------
(* What a step may never do *)

\* A batch is sealed only when the evidence as it is at that moment meets the
\* preconditions of its grade, every stage of an approved plan is observed,
\* nothing is paused and no remediation task is open.
SealOnlyWhenCleared ==
    [][ status # "sealed" /\ status' = "sealed" =>
          /\ plan # Nil /\ plan.status = "approved"
          /\ Len(observations) = Len(plan.stages)
          /\ ~paused
          /\ EvaluateRisk(transport, observations, revision).unmet = {}
          /\ AllPassed(tasks) ]_vars

\* Whenever an operation moves the integrity grade, up or down, the audit log
\* gets a "risk.changed" event of the same revision.
GradeChangesAreAudited ==
    [][ Grade(risk') # Grade(risk) =>
          /\ revision' = revision + 1
          /\ \E i \in DOMAIN events' : events'[i] = "risk.changed" ]_vars

\* The plan that was approved is the plan that is executed and reported: no
\* operation replaces, edits or re-decides it afterwards.
ApprovedPlanIsFrozen ==
    [][ plan # Nil /\ plan.status = "approved" => UNCHANGED plans ]_vars

\* The status moves as the table of TransitionAllowed has it, although every
\* operation sets it on its own account, but for what the table leaves out: a
\* correction resumes the thaw, and a verdict on a sealed batch reopens it.
StatusFollowsTable ==
    [][ \/ status' = status
        \/ TransitionAllowed(status, status')
        \/ status' = "thawing" /\ UnderReview
        \/ status' = "review" /\ status = "sealed" ]_vars

\* A task that an earlier one with its id hides from the operations.
HiddenTaskOpen ==
    \E i \in DOMAIN tasks : ~FirstWithId(i) /\ tasks[i].status # "passed"

\* AddRemediation takes ids a task has already.  The open task they hide can
\* never be submitted or verified, and the batch never be released: nothing a
\* client may do brings it out of this dead end.
HiddenTaskBlocksRelease ==
    [][ HiddenTaskOpen => HiddenTaskOpen' /\ status' # "sealed" ]_vars

-----------------------------------------------------------------------------
(* What the documents and messages of the code say, and the code does not *)

\* "sealed batch immutable": nothing about a sealed batch ever changes.
SealedBatchImmutable == [][ status # "sealed" ]_vars

\* The precheck is the release gate: a decision "pass" among the allowed
\* decisions of a reviewer is accepted when that reviewer makes it.
OfferedPassIsAccepted ==
    \A p \in Actor : PassOffered(p) => PassAccepted(p)

\* Thaw plans are approved by two people: the one who wrote the plan, and
\* another one.
ApprovedByTwo ==
    plan # Nil /\ plan.status = "approved" =>
        NoOne \notin {plan.author, plan.approver} /\ plan.author # plan.approver

\* Validation leaves the batch alone: a call that changes anything of a batch
\* raises its revision.
EveryChangeIsRevisioned ==
    [][ revision' = revision + 1 ]_<<status, transport, risk, plan,
           planHistory, observations, paused, tasks, review>>

=============================================================================
