------------------------- MODULE BatchWorkflowProofs -------------------------
(***************************************************************************)
(* Proofs about BatchWorkflow, for every set of people, tasks, reports,    *)
(* plans and readings and for every bound on the revision.                 *)
(***************************************************************************)
EXTENDS BatchWorkflow, TLAPS

-----------------------------------------------------------------------------
(* What the rules and the helpers return *)

\* EvaluateRisk returns a graded assessment, whatever the evidence is.
LEMMA EvaluateRiskType ==
    ASSUME NEW t, NEW obs, NEW rev \in Nat
    PROVE  EvaluateRisk(t, obs, rev) \in RiskAssessment
<1> DEFINE grade == GradeOf(RiskScore(t, obs))
<1>1. grade \in Grades
  BY DEF GradeOf, Grades
<1>2. Required(grade) \subseteq Preconditions
  BY <1>1 DEF Required, Preconditions, Grades
<1>3. Required(grade) \ Supplied(t) \subseteq Preconditions
  BY <1>2
<1> QED BY <1>1, <1>3 DEF EvaluateRisk, RiskAssessment

\* The service keeps an observation with one of the known codes.
LEMMA ObservedType ==
    ASSUME NEW stage, NEW r \in Reading
    PROVE  Observed(stage, r) \in Observation
<1>1. DeviationCode(stage, r, r.hold = "short") \in DeviationCodes
  BY DEF DeviationCode, DeviationCodes, Reading
<1> QED BY <1>1 DEF Observed, Kept, LooksAbnormal, Observation, Reading

\* A correction sent along keeps the code its client gave it.
LEMMA SentAlongType ==
    ASSUME NEW stage, NEW v \in Reading
    PROVE  /\ SentAlong(stage, v) \in Observation
           /\ SentAlong(stage, v).asSent
<1>1. v.code \in DeviationCodes
  BY DEF DeviationCodes, Reading
<1> QED BY <1>1 DEF SentAlong, Kept, LooksAbnormal, Observation, Reading

\* So does a correction: the corrected observation has a known code again.
LEMMA CorrectedType ==
    ASSUME NEW stage, NEW r \in Reading, NEW before \in Observation
    PROVE  Corrected(stage, before, r) \in Observation
<1> DEFINE short == r.hold = "short" \/ (r.hold = "omitted" /\ before.holdShort)
<1>1. DeviationCode(stage, r, short) \in DeviationCodes
  BY DEF DeviationCode, DeviationCodes, Reading
<1>2. short \in BOOLEAN
  OBVIOUS
<1> QED BY <1>1, <1>2
        DEF Corrected, Kept, LooksAbnormal, Observation, Reading

\* One event, or one followed by "risk.changed", is what a step appends.
LEMMA EventsType ==
    ASSUME NEW type \in AuditType
    PROVE  /\ <<type>> \in Seq(AuditType)
           /\ <<type, "risk.changed">> \in Seq(AuditType)
<1>1. "risk.changed" \in AuditType
  BY DEF AuditType
<1> QED BY <1>1

\* A task is stored with the status it is given and the identities it names.
LEMMA NewTaskType ==
    ASSUME NEW draft \in TaskDraft, NEW st \in TaskStatus
    PROVE  /\ NewTask(draft, st) \in Task
           /\ NewTask(draft, st).asSent
BY DEF NewTask, TaskDraft, Task, Actor

\* The drafts of a task list carry what a client may send; a task without a
\* status is given one.
LEMMA DraftType ==
    ASSUME NEW ds \in TaskLists
    PROVE  /\ ds \in Seq(TaskDraft)
           /\ \A i \in DOMAIN ds : /\ ds[i] \in TaskDraft
                                   /\ SentStatus(ds[i]) \in TaskStatus
<1>1. ds \in Seq(TaskDraft)
  BY InputAssumption
<1>2. \A i \in DOMAIN ds : ds[i] \in TaskDraft
  BY <1>1
<1>3. "pending" \in TaskStatus
  BY DEF TaskStatus
<1> QED BY <1>1, <1>2, <1>3 DEF TaskDraft, SentStatus

\* A review decision changes the evidence, never its kind: none is lost.
LEMMA ReviewedType ==
    ASSUME NEW t \in Transport,
           NEW d \in BOOLEAN, NEW q \in BOOLEAN, NEW r \in BOOLEAN
    PROVE  [t EXCEPT !.factors = t.measured.factors,
                     !.exceeded = t.measured.exceeded,
                     !.disposition = d, !.qualityApproved = q,
                     !.dualReviewed = r] \in Transport
BY DEF Transport

\* A new plan, and a decided one, are plans.
LEMMA PlanType ==
    ASSUME NEW n \in Nat, NEW p \in Actor, NEW q \in Actor,
           NEW stages \in StagePlans
    PROVE  [version |-> n, author |-> p, approver |-> q,
            status |-> "pending", stages |-> stages] \in Plan
<1>1. stages \in Seq(Stage)
  BY InputAssumption
<1> QED BY <1>1 DEF Plan

\* A decision changes the approver and the status of a plan, nothing else.
LEMMA DecidedType ==
    ASSUME NEW p \in Actor, NEW decision \in {"approved", "rejected"},
           plan \in Plan
    PROVE  Decided(p, decision) \in Plan
BY DEF Decided, Plan

\* The last version of the history can be replaced by any plan.
LEMMA HistoryType ==
    ASSUME NEW h \in Seq(Plan), NEW p \in Plan
    PROVE  /\ Append(h, p) \in Seq(Plan)
           /\ [h EXCEPT ![Len(h)] = p] \in Seq(Plan)
<1>1. Append(h, p) \in Seq(Plan)
  OBVIOUS
<1>2. h \in [1..Len(h) -> Plan]
  OBVIOUS
<1>3. [h EXCEPT ![Len(h)] = p] \in [1..Len(h) -> Plan]
  BY <1>2
<1> QED BY <1>1, <1>3

-----------------------------------------------------------------------------
(* Type correctness *)

\* A new batch holds only values of the right kinds.
LEMMA TypeInit == Init => TypeOK
<1>1. "batch.created" \in AuditType
  BY DEF AuditType
<1>2. <<"batch.created">> \in Seq(AuditType)
  BY <1>1, EventsType
<1>3. 1 \in 1..MaxRevision
  BY InputAssumption
<1>4. \A S : <<>> \in Seq(S)
  OBVIOUS
<1> QED BY <1>2, <1>3, <1>4 DEF Init, TypeOK, Status

\* One step, or none, keeps the types.
LEMMA TypeStep == TypeOK /\ [Next]_vars => TypeOK'
<1> SUFFICES ASSUME TypeOK, [Next]_vars PROVE TypeOK'
  OBVIOUS
<1> USE DEF TypeOK, evidence, plans, gate
<1> DEFINE Committed == /\ revision' \in 1..MaxRevision
                        /\ events' \in Seq(AuditType)
<1>1. \A type \in AuditType : Commit(<<type>>) => Committed
  BY EventsType, InputAssumption DEF Commit
<1>2. \A type \in AuditType : Commit(WithRiskChange(type)) => Committed
  BY EventsType, InputAssumption DEF Commit, WithRiskChange
<1>3. \A t, obs : Reassess(t, obs) => risk' \in RiskAssessment
  BY EvaluateRiskType, InputAssumption DEF Reassess
<1> HIDE DEF Committed
<1>4. ASSUME NEW t \in TransportReports, RegisterTransport(t)
      PROVE  TypeOK'
  <2>1. t \in Transport
    BY InputAssumption
  <2>2. "transport.assessed" \in AuditType
    BY DEF AuditType
  <2>3. Committed
    BY <1>2, <1>4, <2>2 DEF RegisterTransport
  <2> QED BY <1>3, <1>4, <2>1, <2>3
          DEF RegisterTransport, Status, Committed
<1>5. ASSUME NEW d \in BOOLEAN, NEW q \in BOOLEAN, NEW r \in BOOLEAN,
             ReviewTransport(d, q, r)
      PROVE  TypeOK'
  <2>1. transport' \in Transport
    BY <1>5, ReviewedType DEF ReviewTransport
  <2>2. "transport.reviewed" \in AuditType
    BY DEF AuditType
  <2>3. Committed
    BY <1>2, <1>5, <2>2 DEF ReviewTransport
  <2> QED BY <1>3, <1>5, <2>1, <2>3 DEF ReviewTransport, Committed
<1>6. ASSUME NEW p \in Actor, NEW q \in Actor, NEW s \in StagePlans,
             CreatePlan(p, q, s)
      PROVE  TypeOK'
  <2>1. Len(planHistory) + 1 \in Nat
    OBVIOUS
  <2>2. plan' \in Plan
    BY <1>6, <2>1, PlanType DEF CreatePlan
  <2>3. planHistory' \in Seq(Plan)
    BY <1>6, <2>2, HistoryType DEF CreatePlan
  <2>4. "plan.created" \in AuditType
    BY DEF AuditType
  <2>5. Committed
    BY <1>1, <1>6, <2>4 DEF CreatePlan
  <2> QED BY <1>6, <2>2, <2>3, <2>5 DEF CreatePlan, Status, Committed
<1>7. ASSUME NEW p \in Actor, NEW st \in {"approved", "rejected"},
             MayDecide(p)
      PROVE  Decided(p, st) \in Plan
  BY <1>7, DecidedType DEF MayDecide
<1>8. ASSUME NEW p \in Actor, ApprovePlan(p)
      PROVE  TypeOK'
  <2>1. plan' \in Plan
    BY <1>7, <1>8 DEF ApprovePlan, RecordDecision
  <2>2. planHistory' \in Seq(Plan)
    BY <1>8, <2>1, HistoryType DEF ApprovePlan, RecordDecision
  <2>3. "plan.approved" \in AuditType
    BY DEF AuditType
  <2>4. Committed
    BY <1>1, <1>8, <2>3 DEF ApprovePlan
  <2> QED BY <1>8, <2>1, <2>2, <2>4 DEF ApprovePlan, Status, Committed
<1>9. ASSUME NEW p \in Actor, RejectPlan(p)
      PROVE  TypeOK'
  <2>1. plan' \in Plan
    BY <1>7, <1>9 DEF RejectPlan, RecordDecision
  <2>2. planHistory' \in Seq(Plan)
    BY <1>9, <2>1, HistoryType DEF RejectPlan, RecordDecision
  <2>3. "plan.rejected" \in AuditType
    BY DEF AuditType
  <2>4. Committed
    BY <1>1, <1>9, <2>3 DEF RejectPlan
  <2> QED BY <1>9, <2>1, <2>2, <2>4 DEF RejectPlan, Status, Committed
<1>10. ASSUME NEW p \in Actor, RejectWithoutReason(p)
       PROVE  TypeOK'
  <2>1. plan' \in Plan
    BY <1>7, <1>10 DEF RejectWithoutReason
  <2>2. events' \in Seq(AuditType)
    BY <1>10 DEF RejectWithoutReason
  <2> QED BY <1>10, <2>1, <2>2 DEF RejectWithoutReason
<1>11. ASSUME NEW r \in Readings, NEW v \in SentCorrections \cup {Nil},
              AddObservation(r, v)
       PROVE  TypeOK'
  <2>1. r \in Reading
    BY InputAssumption
  <2> DEFINE stage == plan.stages[Len(observations) + 1]
             kept == IF v = Nil THEN Observed(stage, r) ELSE SentAlong(stage, v)
  <2>2. observations' \in Seq(Observation)
    <3>1. v # Nil => v \in Reading
      BY InputAssumption
    <3>2. kept \in Observation
      BY <2>1, <3>1, ObservedType, SentAlongType
    <3>3. observations' = Append(observations, kept)
      BY <1>11 DEF AddObservation
    <3> HIDE DEF kept
    <3> QED BY <3>2, <3>3
  <2>3. status' \in Status /\ paused' \in BOOLEAN
    BY <1>11 DEF AddObservation, Status
  <2>4. "observation.recorded" \in AuditType
    BY DEF AuditType
  <2>5. Committed
    BY <1>2, <1>11, <2>4 DEF AddObservation
  <2> QED BY <1>3, <1>11, <2>2, <2>3, <2>5 DEF AddObservation, Committed
<1>12. ASSUME NEW i \in DOMAIN observations, NEW r \in Readings,
              CorrectObservation(i, r)
       PROVE  TypeOK'
  <2>1. r \in Reading
    BY InputAssumption
  <2>2. Corrected(plan.stages[i], observations[i], r) \in Observation
    BY <2>1, CorrectedType
  <2>3. observations' \in Seq(Observation)
    BY <1>12, <2>2 DEF CorrectObservation
  <2>4. status' \in Status /\ paused' \in BOOLEAN
    BY <1>12 DEF CorrectObservation, ResumeOrHold, Status
  <2>5. "observation.corrected" \in AuditType
    BY DEF AuditType
  <2>6. Committed
    BY <1>2, <1>12, <2>5 DEF CorrectObservation
  <2> QED BY <1>3, <1>12, <2>3, <2>4, <2>6
          DEF CorrectObservation, Committed
<1>13. ASSUME NEW ds \in TaskLists, AddRemediation(ds)
       PROVE  TypeOK'
  <2> DEFINE new == [i \in DOMAIN ds |-> NewTask(ds[i], SentStatus(ds[i]))]
  <2>1. \A i \in DOMAIN ds : NewTask(ds[i], SentStatus(ds[i])) \in Task
    BY DraftType, NewTaskType
  <2>2. new \in [1..Len(ds) -> Task]
    BY <2>1, DraftType
  <2>3. tasks' \in Seq(Task)
    BY <1>13, <2>2 DEF AddRemediation
  <2>4. "remediation.created" \in AuditType
    BY DEF AuditType
  <2>5. Committed
    BY <1>1, <1>13, <2>4 DEF AddRemediation
  <2> QED BY <1>13, <2>3, <2>5 DEF AddRemediation, Status, Committed
<1>14. ASSUME NEW i \in DOMAIN tasks, NEW p \in Actor,
              SubmitRemediation(i, p)
       PROVE  TypeOK'
  <2> tasks[i] \in Task
    OBVIOUS
  <2>1. [tasks[i] EXCEPT !.status = "submitted", !.submittedBy = p,
                         !.asSent = FALSE] \in Task
    BY DEF Task, TaskStatus
  <2>2. tasks' = [tasks EXCEPT ![i] =
                    [tasks[i] EXCEPT !.status = "submitted",
                                     !.submittedBy = p,
                                     !.asSent = FALSE]]
    BY <1>14 DEF SubmitRemediation
  <2>3. tasks' \in Seq(Task)
    BY <2>1, <2>2
  <2>4. "remediation.submitted" \in AuditType
    BY DEF AuditType
  <2>5. Committed
    BY <1>1, <1>14, <2>4 DEF SubmitRemediation
  <2> QED BY <1>14, <2>3, <2>5 DEF SubmitRemediation, Committed
<1>15. ASSUME NEW i \in DOMAIN tasks, NEW p \in Actor, NEW pass \in BOOLEAN,
              VerifyRemediation(i, p, pass)
       PROVE  TypeOK'
  <2> tasks[i] \in Task
    OBVIOUS
  <2>1. [tasks[i] EXCEPT !.status = Verdict(pass), !.verifiedBy = p,
                         !.asSent = FALSE] \in Task
    BY DEF Task, TaskStatus, Verdict
  <2>2. tasks' = [tasks EXCEPT ![i] =
                    [tasks[i] EXCEPT !.status = Verdict(pass),
                                     !.verifiedBy = p,
                                     !.asSent = FALSE]]
    BY <1>15 DEF VerifyRemediation
  <2>3. tasks' \in Seq(Task)
    BY <2>1, <2>2
  <2>4. status' \in Status /\ paused' \in BOOLEAN
    BY <1>15 DEF VerifyRemediation, Status
  <2>5. "remediation.verified" \in AuditType
    BY DEF AuditType
  <2>6. Committed
    BY <1>1, <1>15, <2>5 DEF VerifyRemediation
  <2> QED BY <1>15, <2>3, <2>4, <2>6 DEF VerifyRemediation, Committed
<1> DEFINE released == "release.reviewed"
<1>16. released \in AuditType
  BY DEF AuditType
<1>17. ASSUME NEW p \in Actor, Seal(p)
       PROVE  TypeOK'
  <2>1. p \in Person
    BY <1>17 DEF Seal, PassAccepted, Independent, Actor
  <2>2. review' \in ReleaseReview
    BY <1>17, <2>1 DEF Seal, ReleaseReview
  <2>3. Committed
    BY <1>1, <1>16, <1>17 DEF Seal
  <2> QED BY <1>17, <2>2, <2>3 DEF Seal, Status, Committed
<1>18. ASSUME NEW p \in Actor, NEW ds \in TaskLists, SendBack(p, ds)
       PROVE  TypeOK'
  <2> DEFINE new == [i \in DOMAIN ds |-> NewTask(ds[i], "pending")]
  <2>1. p \in Person
    BY <1>18 DEF SendBack, Independent, Actor
  <2>2. review' \in ReleaseReview
    BY <1>18, <2>1 DEF SendBack, ReleaseReview
  <2>3. \A i \in DOMAIN ds : NewTask(ds[i], "pending") \in Task
    BY DraftType, NewTaskType DEF TaskStatus
  <2>4. new \in [1..Len(ds) -> Task]
    BY <2>3, DraftType
  <2>5. tasks' \in Seq(Task)
    BY <1>18, <2>4 DEF SendBack
  <2>6. Committed
    BY <1>1, <1>16, <1>18 DEF SendBack
  <2> QED BY <1>18, <2>2, <2>5, <2>6 DEF SendBack, Status, Committed
<1>19. CASE UNCHANGED vars
  BY <1>19 DEF vars
<1> QED
  BY <1>4, <1>5, <1>6, <1>8, <1>9, <1>10, <1>11, <1>12, <1>13, <1>14,
     <1>15, <1>17, <1>18, <1>19 DEF Next

\* Every operation leaves the batch with the kinds of values its readers know:
\* a status, task status, grade or code outside the lists never gets in.
THEOREM TypeCorrect == Spec => []TypeOK
BY TypeInit, TypeStep, PTL DEF Spec

-----------------------------------------------------------------------------
(* The inductive invariant *)

Approved == plan # Nil /\ plan.status = "approved"

Executing == status \in {"thawing", "review", "remediation", "sealed"}

\* The status alone says whether the transport is registered and the plan is
\* approved; a plan needs transport evidence and has stages; observations and
\* tasks need an approved plan.
PhaseInv ==
    /\ status = "draft" <=> transport = Nil
    /\ Executing <=> Approved
    /\ plan # Nil => transport # Nil /\ Len(plan.stages) > 0
    /\ Len(observations) > 0 => Approved
    /\ Len(tasks) > 0 => Approved

IInv ==
    /\ TypeOK
    /\ PhaseInv
    /\ ThawingHasNextStage
    /\ ThawingIsClean
    /\ PausedOnlyUnderReview
    /\ AnomalyWasRemediated
    /\ NamesDiffer
    /\ RiskMatchesEvidence

\* A new batch satisfies the invariant.
LEMMA IInvInit == Init => IInv
<1> SUFFICES ASSUME Init PROVE IInv
  OBVIOUS
<1>1. TypeOK
  BY TypeInit
<1>2. PhaseInv
  BY DEF Init, PhaseInv, Executing, Approved
<1>3. ThawingHasNextStage /\ ThawingIsClean /\ PausedOnlyUnderReview
  BY DEF Init, ThawingHasNextStage, ThawingIsClean, PausedOnlyUnderReview
<1>4. AnomalyWasRemediated
  BY DEF Init, AnomalyWasRemediated
<1>5. NamesDiffer /\ RiskMatchesEvidence
  BY DEF Init, NamesDiffer, RiskMatchesEvidence
<1> QED BY <1>1, <1>2, <1>3, <1>4, <1>5 DEF IInv

\* An assessment made by the step is that of the evidence it leaves.
LEMMA ReassessFresh ==
    ASSUME revision \in Nat, NEW t, NEW obs, Reassess(t, obs)
    PROVE  /\ risk' # Nil
           /\ risk' = EvaluateRisk(t, obs, risk'.revision)
<1>1. risk' = EvaluateRisk(t, obs, revision + 1)
  BY DEF Reassess
<1>2. risk'.revision = revision + 1
  BY <1>1 DEF EvaluateRisk
<1>3. risk' \in RiskAssessment
  BY <1>1, EvaluateRiskType
<1> QED BY <1>1, <1>2, <1>3, NilAssumption

\* The part of the invariant that needs no sequence reasoning: the phases, the
\* gate, the four eyes and the assessment.
Safe ==
    /\ PhaseInv
    /\ ThawingHasNextStage
    /\ PausedOnlyUnderReview
    /\ NamesDiffer
    /\ RiskMatchesEvidence

\* One step, or none, preserves the inductive invariant.
LEMMA SafeStep == TypeOK /\ Safe /\ [Next]_vars => Safe'
<1> SUFFICES ASSUME TypeOK, Safe, [Next]_vars PROVE Safe'
  OBVIOUS
<1>1. /\ transport \in Transport \cup {Nil}
      /\ plan \in Plan \cup {Nil}
      /\ observations \in Seq(Observation)
      /\ tasks \in Seq(Task)
      /\ revision \in Nat
  BY InputAssumption DEF TypeOK
<1>2. Nil \notin Transport /\ Nil \notin Plan
  BY NilAssumption
<1> USE DEF Safe, PhaseInv, Executing, Approved, ThawingHasNextStage,
            PausedOnlyUnderReview, UnderReview, NamesDiffer,
            RiskMatchesEvidence, evidence, plans, gate
<1>3. ASSUME NEW t \in TransportReports, RegisterTransport(t)
      PROVE  Safe'
  <2>1. t \in Transport
    BY InputAssumption
  <2>2. risk' # Nil /\ risk' = EvaluateRisk(t, observations, risk'.revision)
    BY <1>1, <1>3, ReassessFresh DEF RegisterTransport
  <2> QED BY <1>2, <1>3, <2>1, <2>2 DEF RegisterTransport
<1>4. ASSUME NEW d \in BOOLEAN, NEW q \in BOOLEAN, NEW r \in BOOLEAN,
             ReviewTransport(d, q, r)
      PROVE  Safe'
  <2>1. transport' \in Transport
    BY <1>1, <1>4, ReviewedType DEF ReviewTransport
  <2>2. /\ risk' # Nil
        /\ risk' = EvaluateRisk(transport', observations, risk'.revision)
    BY <1>1, <1>4, ReassessFresh DEF ReviewTransport
  <2> QED BY <1>2, <1>4, <2>1, <2>2 DEF ReviewTransport
<1>5. ASSUME NEW p \in Actor, NEW q \in Actor, NEW s \in StagePlans,
             CreatePlan(p, q, s)
      PROVE  Safe'
  <2>1. Len(planHistory) + 1 \in Nat
    BY DEF TypeOK
  <2>2. plan' \in Plan /\ plan'.status = "pending" /\ plan'.stages = s
    BY <1>5, <2>1, PlanType DEF CreatePlan
  <2>3. Len(s) > 0
    BY InputAssumption
  <2>4. transport # Nil
    BY <1>5 DEF CreatePlan, CanCreatePlan
  <2> QED BY <1>2, <1>5, <2>2, <2>3, <2>4 DEF CreatePlan, CanCreatePlan
<1>6. ASSUME NEW p \in Actor, NEW decision \in {"approved", "rejected"},
             MayDecide(p), plan' = Decided(p, decision)
      PROVE  /\ plan' # Nil
             /\ plan'.status = decision
             /\ plan'.stages = plan.stages
             /\ plan'.author = plan.author
             /\ plan'.approver = p
             /\ p # plan.author
             /\ observations = <<>> /\ tasks = <<>>
  <2>1. plan \in Plan /\ plan' \in Plan
    BY <1>1, <1>6, DecidedType DEF MayDecide
  <2>2. observations = <<>> /\ tasks = <<>>
    BY <1>1, <1>6 DEF MayDecide
  <2> QED BY <1>2, <1>6, <2>1, <2>2 DEF MayDecide, Decided, Plan
<1>7. ASSUME NEW p \in Actor, ApprovePlan(p)
      PROVE  Safe'
  BY <1>6, <1>7 DEF ApprovePlan, RecordDecision, MayDecide
<1>8. ASSUME NEW p \in Actor, RejectPlan(p)
      PROVE  Safe'
  BY <1>6, <1>8 DEF RejectPlan, RecordDecision, MayDecide
<1>9. ASSUME NEW p \in Actor, RejectWithoutReason(p)
      PROVE  Safe'
  BY <1>6, <1>9 DEF RejectWithoutReason, MayDecide
<1>10. ASSUME NEW r \in Readings, NEW v \in SentCorrections \cup {Nil},
              AddObservation(r, v)
       PROVE  Safe'
  <2>1. /\ risk' # Nil
        /\ risk' = EvaluateRisk(transport, observations', risk'.revision)
    BY <1>1, <1>10, ReassessFresh DEF AddObservation
  <2>2. RiskMatchesEvidence'
    BY <1>10, <2>1 DEF AddObservation, CanObserve
  <2>3. Safe!1' /\ Safe!2' /\ Safe!3' /\ Safe!4'
    BY <1>1, <1>10 DEF AddObservation, CanObserve, ThawIncomplete
  <2> QED BY <2>2, <2>3
<1>11. ASSUME NEW i \in DOMAIN observations, NEW r \in Readings,
              CorrectObservation(i, r)
       PROVE  Safe'
  <2>1. /\ risk' # Nil
        /\ risk' = EvaluateRisk(transport, observations', risk'.revision)
    BY <1>1, <1>11, ReassessFresh DEF CorrectObservation
  <2>2. RiskMatchesEvidence'
    BY <1>1, <1>11, <2>1 DEF CorrectObservation
  <2>3. Safe!1' /\ Safe!2' /\ Safe!3' /\ Safe!4'
    BY <1>1, <1>11 DEF CorrectObservation, ResumeOrHold, ThawIncomplete
  <2> QED BY <2>2, <2>3
<1>12. ASSUME NEW ds \in TaskLists, AddRemediation(ds)
       PROVE  Safe'
  BY <1>12 DEF AddRemediation
<1>13. ASSUME NEW i \in DOMAIN tasks, NEW p \in Actor,
              SubmitRemediation(i, p)
       PROVE  Safe'
  BY <1>1, <1>13 DEF SubmitRemediation
<1>14. ASSUME NEW i \in DOMAIN tasks, NEW p \in Actor, NEW pass \in BOOLEAN,
              VerifyRemediation(i, p, pass)
       PROVE  Safe'
  BY <1>1, <1>14 DEF VerifyRemediation
<1>15. ASSUME NEW p \in Actor, Seal(p)
       PROVE  Safe'
  <2>1. review' # Nil /\ review'.released /\ review'.reviewer = p
    <3>1. p \in Person
      BY <1>15 DEF Seal, PassAccepted, Independent, Actor
    <3>2. review' \in ReleaseReview
      BY <1>15, <3>1 DEF Seal, ReleaseReview
    <3> QED BY <1>15, <3>2, NilAssumption DEF Seal
  <2> QED BY <1>15, <2>1
          DEF Seal, PassAccepted, ReleaseReady, Independent
<1>16. ASSUME NEW p \in Actor, NEW ds \in TaskLists, SendBack(p, ds)
       PROVE  Safe'
  BY <1>16 DEF SendBack
<1>17. CASE UNCHANGED vars
  BY <1>17 DEF vars
<1> QED
  BY <1>3, <1>4, <1>5, <1>7, <1>8, <1>9, <1>10, <1>11, <1>12, <1>13,
     <1>14, <1>15, <1>16, <1>17 DEF Next

-----------------------------------------------------------------------------
(* Anomalies *)

AnomalyInv == ThawingIsClean /\ AnomalyWasRemediated

\* No step forgets an anomaly: the pause is lifted when the last one is
\* corrected, or by the verdict that passes the last open task.
LEMMA AnomalyStep == TypeOK /\ Safe /\ AnomalyInv /\ [Next]_vars => AnomalyInv'
<1> SUFFICES ASSUME TypeOK, Safe, AnomalyInv, [Next]_vars
             PROVE  AnomalyInv'
  OBVIOUS
<1>1. observations \in Seq(Observation)
  BY DEF TypeOK
<1>2. ASSUME observations = <<>>, UNCHANGED observations
      PROVE  AnomalyInv'
  BY <1>2 DEF AnomalyInv, ThawingIsClean, AnomalyWasRemediated
<1>3. ASSUME status' = status \/ status' # "thawing",
             UNCHANGED <<observations, paused, remediated>>
      PROVE  AnomalyInv'
  BY <1>3 DEF AnomalyInv, ThawingIsClean, AnomalyWasRemediated
<1>4. ~Approved => observations = <<>>
  BY <1>1 DEF Safe, PhaseInv
<1>5. ASSUME NEW t \in TransportReports, RegisterTransport(t)
      PROVE  AnomalyInv'
  BY <1>2, <1>4, <1>5 DEF RegisterTransport, Safe, PhaseInv, Approved
<1>6. ASSUME NEW p \in Actor, NEW q \in Actor, NEW s \in StagePlans,
             CreatePlan(p, q, s)
      PROVE  AnomalyInv'
  BY <1>2, <1>4, <1>6
     DEF CreatePlan, CanCreatePlan, Safe, PhaseInv, Executing
<1>7. ASSUME NEW p \in Actor,
             ApprovePlan(p) \/ RejectPlan(p) \/ RejectWithoutReason(p)
      PROVE  AnomalyInv'
  BY <1>2, <1>4, <1>7
     DEF ApprovePlan, RejectPlan, RejectWithoutReason, MayDecide, Safe,
         PhaseInv, Executing
<1>8. ASSUME NEW r \in Readings, NEW v \in SentCorrections \cup {Nil},
             AddObservation(r, v)
      PROVE  AnomalyInv'
  <2> DEFINE stage == plan.stages[Len(observations) + 1]
             o     == Observed(stage, r)
             kept  == IF v = Nil THEN o ELSE SentAlong(stage, v)
  <2>1. kept = o \/ kept.asSent
    BY InputAssumption, SentAlongType
  <2>2. /\ observations' = Append(observations, kept)
        /\ Anomalous(o) => status' = "review" /\ paused'
    BY <1>8 DEF AddObservation
  <2>3. \A i \in DOMAIN observations :
           Anomalous(observations[i]) => observations[i].asSent
    BY <1>8 DEF AddObservation, CanObserve, AnomalyInv, ThawingIsClean
  <2> HIDE DEF kept, o
  <2>4. ASSUME ~Anomalous(o), NEW i \in DOMAIN observations',
               Anomalous(observations'[i])
        PROVE  observations'[i].asSent
    <3>1. CASE i = Len(observations) + 1
      BY <1>1, <2>1, <2>2, <2>4, <3>1
    <3>2. CASE i # Len(observations) + 1
      <4>1. i \in DOMAIN observations /\ observations'[i] = observations[i]
        BY <1>1, <2>2, <3>2
      <4> QED BY <2>3, <2>4, <4>1
    <3> QED BY <3>1, <3>2
  <2> QED BY <2>2, <2>4 DEF AnomalyInv, ThawingIsClean, AnomalyWasRemediated
<1>9. ASSUME NEW i \in DOMAIN observations, NEW r \in Readings,
             CorrectObservation(i, r)
      PROVE  AnomalyInv'
  <2>1. AnyAnomaly(observations') => status' = "review" /\ paused'
    <3>1. CASE AnyAnomaly(observations')
      BY <1>9, <3>1 DEF CorrectObservation, ResumeOrHold
    <3>2. CASE ~AnyAnomaly(observations')
      BY <3>2
    <3> QED BY <3>1, <3>2
  <2> QED BY <2>1 DEF AnomalyInv, ThawingIsClean, AnomalyWasRemediated,
                      AnyAnomaly
<1>10. ASSUME NEW i \in DOMAIN tasks, NEW p \in Actor, NEW pass \in BOOLEAN,
              VerifyRemediation(i, p, pass)
       PROVE  AnomalyInv'
  <2>1. UNCHANGED observations /\ remediated' \in {DOMAIN observations, remediated}
    BY <1>10 DEF VerifyRemediation
  <2>2. CASE LastVerdict(pass, tasks')
    <3>1. status' = "review" /\ remediated' = DOMAIN observations
      BY <1>10, <2>2 DEF VerifyRemediation, LastVerdict
    <3> QED BY <2>1, <3>1 DEF AnomalyInv, ThawingIsClean, AnomalyWasRemediated
  <2>3. CASE ~LastVerdict(pass, tasks')
    <3>1. UNCHANGED <<status, paused>>
      BY <1>10, <2>3 DEF VerifyRemediation, gate
    <3> QED BY <2>1, <3>1 DEF AnomalyInv, ThawingIsClean, AnomalyWasRemediated
  <2> QED BY <2>2, <2>3
<1>11. ASSUME \/ \E d, q, r \in BOOLEAN : ReviewTransport(d, q, r)
              \/ \E ds \in TaskLists : AddRemediation(ds)
              \/ \E i \in DOMAIN tasks, p \in Actor : SubmitRemediation(i, p)
              \/ \E p \in Actor : Seal(p)
              \/ \E p \in Actor, ds \in TaskLists : SendBack(p, ds)
       PROVE  AnomalyInv'
  BY <1>3, <1>11
     DEF ReviewTransport, AddRemediation, SubmitRemediation, Seal, SendBack,
         gate
<1>12. CASE UNCHANGED vars
  BY <1>3, <1>12 DEF vars
<1> QED
  BY <1>5, <1>6, <1>7, <1>8, <1>9, <1>10, <1>11, <1>12 DEF Next

-----------------------------------------------------------------------------
(* The theorems *)

\* Phase, separation of duties and risk assessment agree in every reachable
\* state: the inductive invariant the theorems below draw on.
THEOREM Invariant == Spec => []IInv
<1>1. IInv /\ [Next]_vars => IInv'
  BY TypeStep, SafeStep, AnomalyStep DEF IInv, Safe, AnomalyInv
<1> QED BY IInvInit, <1>1, PTL DEF Spec

\* AddObservation never indexes past the stages of the plan.
THEOREM StageIndexInBounds == Spec => []ThawingHasNextStage
<1>1. IInv => ThawingHasNextStage
  BY DEF IInv
<1> QED BY Invariant, <1>1, PTL

\* Nothing is thawed over an anomaly the service examined, whatever corrections
\* were made.
THEOREM NoThawOverAnomaly == Spec => []ThawingIsClean
<1>1. IInv => ThawingIsClean
  BY DEF IInv
<1> QED BY Invariant, <1>1, PTL

\* The pause is a matter of the review phase alone.
THEOREM PauseBelongsToReview == Spec => []PausedOnlyUnderReview
<1>1. IInv => PausedOnlyUnderReview
  BY DEF IInv
<1> QED BY Invariant, <1>1, PTL

\* The pause over an anomaly is lifted by its correction, or by the verdict that
\* passes the last open task while it is there.
THEOREM AnomalyIsRemediated == Spec => []AnomalyWasRemediated
<1>1. IInv => AnomalyWasRemediated
  BY DEF IInv
<1> QED BY Invariant, <1>1, PTL

\* The approver gives another name than the author, the releasing reviewer one
\* that is neither.
THEOREM SeparationOfDuties == Spec => []NamesDiffer
<1>1. IInv => NamesDiffer
  BY DEF IInv
<1> QED BY Invariant, <1>1, PTL

\* The stored risk assessment is the one the evidence calls for.
THEOREM RiskIsCurrent == Spec => []RiskMatchesEvidence
<1>1. IInv => RiskMatchesEvidence
  BY DEF IInv
<1> QED BY Invariant, <1>1, PTL

\* Whoever Review lets release a batch has been offered to by the precheck.
THEOREM AcceptedIsOffered == Spec => []PassAcceptedIsOffered
<1>1. IInv => PassAcceptedIsOffered
  BY DEF IInv, PhaseInv, PassAcceptedIsOffered, PassAccepted, PassOffered,
         ReleaseReady, UnderReview
<1> QED BY Invariant, <1>1, PTL

\* While the revisions agree the stored assessment is the current one, so a
\* batch is sealed on the evidence it holds, not on an older assessment of it.
THEOREM SealRequiresClearance == Spec => SealOnlyWhenCleared
<1>1. IInv /\ [Next]_vars =>
        [ status # "sealed" /\ status' = "sealed" =>
            /\ plan # Nil /\ plan.status = "approved"
            /\ Len(observations) = Len(plan.stages)
            /\ ~paused
            /\ EvaluateRisk(transport, observations, revision).unmet = {}
            /\ AllPassed(tasks) ]_vars
  <2> SUFFICES ASSUME IInv, Next, status # "sealed", status' = "sealed"
               PROVE  /\ plan # Nil /\ plan.status = "approved"
                      /\ Len(observations) = Len(plan.stages)
                      /\ ~paused
                      /\ EvaluateRisk(transport, observations,
                                      revision).unmet = {}
                      /\ AllPassed(tasks)
    OBVIOUS
  <2>1. PICK p \in Actor : Seal(p)
    BY DEF Next, RegisterTransport, ReviewTransport, CreatePlan, ApprovePlan,
           RejectPlan, RejectWithoutReason, AddObservation,
           CorrectObservation, ResumeOrHold, AddRemediation,
           SubmitRemediation, VerifyRemediation, SendBack, gate
  <2>2. ReleaseReady
    BY <2>1 DEF Seal, PassAccepted
  <2>3. CurrentRisk = EvaluateRisk(transport, observations, revision)
    BY <2>2 DEF CurrentRisk, IInv, PhaseInv, RiskMatchesEvidence, ReleaseReady
  <2> QED BY <2>2, <2>3 DEF ReleaseReady, StagesComplete
<1> QED BY Invariant, <1>1, PTL DEF Spec, SealOnlyWhenCleared

\* Every change of the grade has its "risk.changed" event.
THEOREM GradeChangesAnnounced == Spec => GradeChangesAreAudited
<1>1. \A type : Grade(risk') # Grade(risk) =>
                  \E i \in DOMAIN WithRiskChange(type) :
                      WithRiskChange(type)[i] = "risk.changed"
  <2> SUFFICES ASSUME NEW type, Grade(risk') # Grade(risk)
               PROVE  \E i \in DOMAIN <<type, "risk.changed">> :
                          <<type, "risk.changed">>[i] = "risk.changed"
    BY DEF WithRiskChange
  <2>1. 2 \in DOMAIN <<type, "risk.changed">>
    OBVIOUS
  <2> QED BY <2>1
<1>2. [Next]_vars =>
        [ Grade(risk') # Grade(risk) =>
            /\ revision' = revision + 1
            /\ \E i \in DOMAIN events' : events'[i] = "risk.changed" ]_vars
  <2> SUFFICES ASSUME Next, Grade(risk') # Grade(risk)
               PROVE  /\ revision' = revision + 1
                      /\ \E i \in DOMAIN events' : events'[i] = "risk.changed"
    OBVIOUS
  <2>1. risk' # risk
    OBVIOUS
  <2>2. PICK type : Commit(WithRiskChange(type))
    BY <2>1
       DEF Next, RegisterTransport, ReviewTransport, CreatePlan, ApprovePlan,
           RejectPlan, RejectWithoutReason, AddObservation,
           CorrectObservation, AddRemediation, SubmitRemediation,
           VerifyRemediation, Seal, SendBack, evidence
  <2> QED BY <1>1, <2>2 DEF Commit
<1> QED BY <1>2, PTL DEF Spec, GradeChangesAreAudited

\* After its approval a plan is never edited, replaced or decided again.
THEOREM ApprovalIsFinal == Spec => ApprovedPlanIsFrozen
<1>1. IInv /\ [Next]_vars =>
        [ plan # Nil /\ plan.status = "approved" => UNCHANGED plans ]_vars
  <2> SUFFICES ASSUME IInv, Next, Approved PROVE UNCHANGED plans
    BY DEF Approved
  <2>1. Executing
    BY DEF IInv, PhaseInv
  <2> QED BY <2>1
       DEF Next, Executing, CreatePlan, CanCreatePlan, ApprovePlan,
           RejectPlan, RejectWithoutReason, MayDecide, RegisterTransport,
           ReviewTransport, AddObservation, CorrectObservation,
           AddRemediation, SubmitRemediation, VerifyRemediation, Seal,
           SendBack, plans
<1> QED BY Invariant, <1>1, PTL DEF Spec, ApprovedPlanIsFrozen

\* Every operation moves the status along the table, or along the two ways the
\* table leaves out.
THEOREM StatusKeepsToTable == Spec => StatusFollowsTable
<1> DEFINE Step == \/ status' = status
                   \/ TransitionAllowed(status, status')
                   \/ status' = "thawing" /\ UnderReview
                   \/ status' = "review" /\ status = "sealed"
<1>1. IInv /\ [Next]_vars => [Step]_vars
  <2> SUFFICES ASSUME IInv, Next PROVE Step
    OBVIOUS
  <2>1. /\ status \in Status
        /\ status = "draft" <=> transport = Nil
        /\ Executing <=> Approved
        /\ observations \in Seq(Observation) /\ tasks \in Seq(Task)
        /\ Len(observations) > 0 => Approved
        /\ Len(tasks) > 0 => Approved
    BY DEF IInv, TypeOK, PhaseInv
  <2> USE DEF TransitionAllowed, UnderReview
  <2>2. ASSUME NEW t \in TransportReports, RegisterTransport(t) PROVE Step
    BY <2>1, <2>2 DEF RegisterTransport
  <2>3. ASSUME NEW p \in Actor, NEW q \in Actor, NEW st \in StagePlans,
               CreatePlan(p, q, st)
        PROVE  Step
    BY <2>3 DEF CreatePlan, CanCreatePlan
  <2>4. ASSUME NEW p \in Actor, ApprovePlan(p) \/ RejectPlan(p) PROVE Step
    BY <2>4 DEF ApprovePlan, RejectPlan, MayDecide
  <2>5. ASSUME NEW r \in Readings, NEW v \in SentCorrections \cup {Nil},
               AddObservation(r, v)
        PROVE  Step
    BY <2>5 DEF AddObservation, CanObserve
  <2>6. ASSUME NEW i \in DOMAIN observations, NEW r \in Readings,
               CorrectObservation(i, r)
        PROVE  Step
    <3>1. status \in {"thawing", "review", "remediation"}
      BY <2>1, <2>6 DEF CorrectObservation, Executing
    <3> QED BY <2>6, <3>1 DEF CorrectObservation, ResumeOrHold, gate
  <2>7. ASSUME NEW i \in DOMAIN tasks, NEW p \in Actor, NEW pass \in BOOLEAN,
               VerifyRemediation(i, p, pass)
        PROVE  Step
    <3>1. Executing
      BY <2>1
    <3> QED BY <2>7, <3>1 DEF VerifyRemediation, Executing, gate
  <2>8. ASSUME NEW ds \in TaskLists, AddRemediation(ds) PROVE Step
    BY <2>8 DEF AddRemediation
  <2>9. ASSUME NEW p \in Actor, Seal(p) PROVE Step
    BY <2>9 DEF Seal, PassAccepted, ReleaseReady
  <2>10. ASSUME NEW p \in Actor, NEW ds \in TaskLists, SendBack(p, ds)
         PROVE  Step
    BY <2>10 DEF SendBack
  <2>11. ASSUME UNCHANGED status PROVE Step
    BY <2>11
  <2> QED
    BY <2>2, <2>3, <2>4, <2>5, <2>6, <2>7, <2>8, <2>9, <2>10, <2>11
       DEF Next, ReviewTransport, RejectWithoutReason, SubmitRemediation, gate
<1> QED BY Invariant, <1>1, PTL DEF Spec, StatusFollowsTable

-----------------------------------------------------------------------------
(* Verdicts and plan versions *)

\* Nobody's submission is passed by the submitter.
THEOREM VerdictIsIndependent == Spec => []PassedTasksVerifiedByAnother
<1> DEFINE Fair(task) == task.status = "passed" /\ ~task.asSent =>
                            task.verifiedBy \notin {NoOne, task.submittedBy}
<1>1. Init => PassedTasksVerifiedByAnother
  BY DEF Init, PassedTasksVerifiedByAnother
<1>2. TypeOK /\ PassedTasksVerifiedByAnother /\ [Next]_vars =>
        PassedTasksVerifiedByAnother'
  <2> SUFFICES ASSUME TypeOK, PassedTasksVerifiedByAnother, [Next]_vars
               PROVE  PassedTasksVerifiedByAnother'
    OBVIOUS
  <2> USE DEF PassedTasksVerifiedByAnother
  <2>1. tasks \in Seq(Task)
    BY DEF TypeOK
  <2>2. ASSUME UNCHANGED tasks PROVE PassedTasksVerifiedByAnother'
    BY <2>2
  <2>3. ASSUME NEW ds \in TaskLists, NEW st,
               tasks' = tasks \o [i \in DOMAIN ds |-> NewTask(ds[i], st[i])],
               \A i \in DOMAIN ds : st[i] \in TaskStatus
        PROVE  PassedTasksVerifiedByAnother'
    <3> DEFINE new == [i \in DOMAIN ds |-> NewTask(ds[i], st[i])]
    <3>1. \A i \in DOMAIN ds : NewTask(ds[i], st[i]) \in Task
      BY <2>3, DraftType, NewTaskType
    <3>2. new \in [1..Len(ds) -> Task]
      BY <3>1, DraftType
    <3>3. new \in Seq(Task)
      BY <3>2, DraftType
    <3>4. \A i \in DOMAIN new : Fair(new[i])
      BY DEF NewTask
    <3>5. \A i \in DOMAIN tasks : Fair(tasks[i])
      OBVIOUS
    <3>6. tasks' = tasks \o new
      BY <2>3
    <3> HIDE DEF new, Fair
    <3>7. \A i \in DOMAIN (tasks \o new) : Fair((tasks \o new)[i])
      BY <2>1, <3>3, <3>4, <3>5
    <3> QED BY <3>6, <3>7 DEF Fair
  <2>4. ASSUME NEW ds \in TaskLists, AddRemediation(ds)
        PROVE  PassedTasksVerifiedByAnother'
    <3> DEFINE st == [i \in DOMAIN ds |-> SentStatus(ds[i])]
    <3>1. \A i \in DOMAIN ds : st[i] \in TaskStatus
      BY DraftType
    <3>2. tasks' = tasks \o [i \in DOMAIN ds |-> NewTask(ds[i], st[i])]
      BY <2>4 DEF AddRemediation
    <3> QED BY <2>3, <3>1, <3>2
  <2>5. ASSUME NEW p \in Actor, NEW ds \in TaskLists, SendBack(p, ds)
        PROVE  PassedTasksVerifiedByAnother'
    <3> DEFINE st == [i \in DOMAIN ds |-> "pending"]
    <3>1. tasks' = tasks \o [i \in DOMAIN ds |-> NewTask(ds[i], st[i])]
      BY <2>5 DEF SendBack
    <3>2. \A i \in DOMAIN ds : st[i] \in TaskStatus
      BY DEF TaskStatus
    <3> QED BY <2>3, <3>1, <3>2
  <2>6. ASSUME NEW i \in DOMAIN tasks, NEW p \in Actor,
               SubmitRemediation(i, p)
        PROVE  PassedTasksVerifiedByAnother'
    <3>1. tasks[i] \in Task
      BY <2>1
    <3>2. /\ DOMAIN tasks' = DOMAIN tasks
          /\ tasks'[i].status = "submitted"
          /\ \A j \in DOMAIN tasks : j # i => tasks'[j] = tasks[j]
      BY <2>6, <3>1 DEF SubmitRemediation, Task
    <3> QED BY <3>2
  <2>7. ASSUME NEW i \in DOMAIN tasks, NEW p \in Actor, NEW pass \in BOOLEAN,
               VerifyRemediation(i, p, pass)
        PROVE  PassedTasksVerifiedByAnother'
    <3>1. tasks[i] \in Task
      BY <2>1
    <3>2. tasks' = [tasks EXCEPT ![i] =
                      [tasks[i] EXCEPT !.status = Verdict(pass),
                                       !.verifiedBy = p,
                                       !.asSent = FALSE]]
      BY <2>7 DEF VerifyRemediation
    <3>3. /\ DOMAIN tasks' = DOMAIN tasks
          /\ tasks'[i].verifiedBy = p
          /\ tasks'[i].submittedBy = tasks[i].submittedBy
          /\ \A j \in DOMAIN tasks : j # i => tasks'[j] = tasks[j]
      BY <3>1, <3>2 DEF Task
    <3>4. p \notin {NoOne, tasks[i].submittedBy}
      BY <2>7 DEF VerifyRemediation, MayVerify
    <3> QED BY <3>3, <3>4
  <2>8. CASE UNCHANGED vars
    BY <2>2, <2>8 DEF vars
  <2> QED
    BY <2>2, <2>4, <2>5, <2>6, <2>7, <2>8
       DEF Next, RegisterTransport, ReviewTransport, CreatePlan, ApprovePlan,
           RejectPlan, RejectWithoutReason, AddObservation,
           CorrectObservation, Seal
<1> QED BY <1>1, <1>2, TypeCorrect, PTL DEF Spec

\* What makes the version history inductive: a batch that awaits a new plan
\* holds a properly rejected one, a pending decision is about a version that
\* the history still records as pending.
DecisionInv ==
    /\ HistoryRecordsDecisions
    /\ status = "awaiting_plan" /\ plan # Nil =>
           plan.status = "rejected" /\ plan.approver # plan.author
    /\ status = "plan_pending" /\ plan # Nil =>
           planHistory[Len(planHistory)].status = "pending"

\* No step disturbs a recorded decision or leaves one out of the history.
LEMMA DecisionStep ==
    TypeOK /\ PhaseInv /\ DecisionInv /\ [Next]_vars => DecisionInv'
<1> SUFFICES ASSUME TypeOK, PhaseInv, DecisionInv, [Next]_vars
             PROVE  DecisionInv'
  OBVIOUS
<1>1. planHistory \in Seq(Plan) /\ plan \in Plan \cup {Nil}
  BY DEF TypeOK
<1>2. Nil \notin Plan
  BY NilAssumption
<1> USE DEF DecisionInv, HistoryRecordsDecisions
<1>3. ASSUME UNCHANGED plans,
             \/ status' = status
             \/ plan = Nil
             \/ /\ status \notin {"awaiting_plan", "plan_pending"}
                /\ status' \notin {"awaiting_plan", "plan_pending"}
      PROVE  DecisionInv'
  BY <1>3 DEF plans
<1>4. ASSUME NEW t \in TransportReports, RegisterTransport(t)
      PROVE  DecisionInv'
  BY <1>3, <1>4 DEF RegisterTransport, PhaseInv, plans
<1>5. ASSUME NEW p \in Actor, NEW q \in Actor, NEW s \in StagePlans,
             CreatePlan(p, q, s)
      PROVE  DecisionInv'
  <2>1. Len(planHistory) + 1 \in Nat
    BY <1>1
  <2>2. /\ plan' \in Plan
        /\ plan'.version = Len(planHistory) + 1
        /\ plan'.status = "pending"
    BY <1>5, <2>1, PlanType DEF CreatePlan
  <2>3. /\ planHistory' = Append(planHistory, plan')
        /\ status' = "plan_pending" /\ status = "awaiting_plan"
    BY <1>5 DEF CreatePlan, CanCreatePlan
  <2>4. /\ Len(planHistory') = Len(planHistory) + 1
        /\ planHistory'[Len(planHistory')] = plan'
        /\ planHistory' # <<>>
        /\ \A i \in 1..Len(planHistory) : planHistory'[i] = planHistory[i]
        /\ DOMAIN planHistory' = 1..(Len(planHistory) + 1)
    BY <1>1, <2>2, <2>3
  <2>5. \A i \in 1..Len(planHistory) :
           /\ planHistory[i].status = "rejected"
           /\ planHistory[i].approver # planHistory[i].author
    <3> SUFFICES ASSUME NEW i \in 1..Len(planHistory)
                 PROVE  /\ planHistory[i].status = "rejected"
                        /\ planHistory[i].approver # planHistory[i].author
      OBVIOUS
    <3>1. CASE i = Len(planHistory)
      <4>1. planHistory # <<>>
        BY <1>1, <3>1
      <4>2. plan # Nil
        BY <4>1
      <4>3. plan = planHistory[Len(planHistory)]
        BY <2>3, <4>2
      <4> QED BY <2>3, <3>1, <4>2, <4>3
    <3>2. CASE i # Len(planHistory)
      BY <1>1, <3>2
    <3> QED BY <3>1, <3>2
  <2>6. \A i \in 1..Len(planHistory) : planHistory[i].version = i
    BY <1>1
  <2>7. \A i \in DOMAIN planHistory' : planHistory'[i].version = i
    BY <1>1, <2>2, <2>4, <2>6
  <2>8. \A i \in 1..(Len(planHistory') - 1) :
           /\ planHistory'[i].status = "rejected"
           /\ planHistory'[i].approver # planHistory'[i].author
    BY <1>1, <2>4, <2>5
  <2> QED BY <1>2, <2>2, <2>3, <2>4, <2>7, <2>8
<1>6. ASSUME NEW p \in Actor, NEW decision \in {"approved", "rejected"},
             MayDecide(p)
      PROVE  /\ Decided(p, decision) \in Plan
             /\ Decided(p, decision).version = plan.version
             /\ Decided(p, decision).author = plan.author
             /\ Decided(p, decision).status = decision
             /\ Decided(p, decision).approver = p
             /\ p # plan.author
             /\ status = "plan_pending" /\ plan \in Plan /\ plan # Nil
             /\ planHistory # <<>> /\ plan.version = Len(planHistory)
  <2>1. /\ plan \in Plan /\ plan # Nil
        /\ status = "plan_pending" /\ p # plan.author
    BY <1>1, <1>6 DEF MayDecide
  <2>2. planHistory # <<>>
    BY <2>1
  <2>3. Len(planHistory) \in DOMAIN planHistory
    BY <1>1, <2>2
  <2>4. planHistory[Len(planHistory)] \in Plan
    BY <1>1, <2>3
  <2>5. plan.version = Len(planHistory)
    BY <2>1, <2>3, <2>4 DEF Plan
  <2>6. Decided(p, decision) \in Plan
    BY <2>1, DecidedType
  <2> QED BY <2>1, <2>2, <2>5, <2>6 DEF Decided, Plan
<1>7. ASSUME NEW p \in Actor, NEW decision \in {"approved", "rejected"},
             MayDecide(p), RecordDecision(Decided(p, decision)),
             status' = IF decision = "approved" THEN "thawing"
                       ELSE "awaiting_plan"
      PROVE  DecisionInv'
  <2>1. plan' = Decided(p, decision)
    BY <1>7 DEF RecordDecision
  <2>2. planHistory' = [planHistory EXCEPT ![Len(planHistory)] = plan']
    BY <1>7 DEF RecordDecision
  <2>3. Len(planHistory) \in 1..Len(planHistory)
    BY <1>1, <1>6, <1>7
  <2>4. /\ Len(planHistory') = Len(planHistory)
        /\ DOMAIN planHistory' = 1..Len(planHistory)
        /\ planHistory'[Len(planHistory)] = plan'
        /\ \A i \in 1..(Len(planHistory) - 1) : planHistory'[i] = planHistory[i]
    BY <1>1, <2>2, <2>3
  <2>5. planHistory' # <<>>
    BY <2>3, <2>4
  <2>6. \A i \in DOMAIN planHistory' : planHistory'[i].version = i
    <3> SUFFICES ASSUME NEW i \in 1..Len(planHistory)
                 PROVE  planHistory'[i].version = i
      BY <2>4
    <3>1. CASE i = Len(planHistory)
      BY <1>6, <1>7, <2>1, <2>4, <3>1
    <3>2. CASE i # Len(planHistory)
      BY <1>1, <2>4, <3>2
    <3> QED BY <3>1, <3>2
  <2>7. \A i \in 1..(Len(planHistory') - 1) :
           /\ planHistory'[i].status = "rejected"
           /\ planHistory'[i].approver # planHistory'[i].author
    BY <2>4
  <2>8. /\ plan' # Nil /\ status' # "plan_pending"
        /\ status' = "awaiting_plan" =>
              plan'.status = "rejected" /\ plan'.approver # plan'.author
    BY <1>2, <1>6, <1>7, <2>1
  <2> QED BY <2>4, <2>5, <2>6, <2>7, <2>8
<1>8. ASSUME NEW p \in Actor, ApprovePlan(p)
      PROVE  DecisionInv'
  BY <1>7, <1>8 DEF ApprovePlan
<1>9. ASSUME NEW p \in Actor, RejectPlan(p)
      PROVE  DecisionInv'
  BY <1>7, <1>9 DEF RejectPlan
<1>10. ASSUME NEW p \in Actor, RejectWithoutReason(p)
       PROVE  DecisionInv'
  <2> DEFINE last == planHistory[Len(planHistory)]
  <2>1. MayDecide(p)
    BY <1>10 DEF RejectWithoutReason
  <2>2. /\ plan' = [plan EXCEPT !.approver = p, !.status = "rejected"]
        /\ planHistory' = planHistory /\ status' = status
    BY <1>10 DEF RejectWithoutReason, Decided, gate
  <2>3. last \in Plan
    BY <1>1, <1>6, <2>1
  <2>4. last.status = "pending"
    BY <1>6, <2>1
  <2>5. plan' = [last EXCEPT !.status = "rejected", !.approver = p]
    <3>1. CASE plan = last
      BY <2>2, <2>3, <3>1 DEF Plan
    <3>2. CASE plan = [last EXCEPT !.status = "rejected",
                                   !.approver = plan.approver]
      BY <2>2, <2>3, <3>2 DEF Plan
    <3> QED BY <1>6, <2>1, <3>1, <3>2
  <2>6. plan' \in Plan /\ plan'.approver = p
    BY <1>6, <2>1, <2>2 DEF Decided, Plan
  <2> QED BY <1>2, <1>6, <2>1, <2>2, <2>4, <2>5, <2>6
<1>11. ASSUME UNCHANGED plans, status \in {"thawing", "review", "remediation"},
              status' \in {"thawing", "review", "remediation", "sealed"}
       PROVE  DecisionInv'
  BY <1>3, <1>11
<1>12. ASSUME NEW r \in Readings, NEW v \in SentCorrections \cup {Nil},
              AddObservation(r, v)
       PROVE  DecisionInv'
  BY <1>11, <1>12 DEF AddObservation, CanObserve, plans
<1>13. Len(observations) > 0 \/ Len(tasks) > 0 => Executing
  BY DEF PhaseInv
<1>14. ASSUME NEW i \in DOMAIN observations, NEW r \in Readings,
              CorrectObservation(i, r)
       PROVE  DecisionInv'
  <2>1. Len(observations) > 0
    BY DEF TypeOK
  <2>2. UNCHANGED plans /\ status # "sealed"
    BY <1>14 DEF CorrectObservation
  <2>3. status' \in {"thawing", "review", status}
    BY <1>14 DEF CorrectObservation, ResumeOrHold, gate
  <2> QED BY <1>11, <1>13, <2>1, <2>2, <2>3 DEF Executing
<1>15. ASSUME NEW i \in DOMAIN tasks, NEW p \in Actor, NEW pass \in BOOLEAN,
              VerifyRemediation(i, p, pass)
       PROVE  DecisionInv'
  <2>1. Len(tasks) > 0
    BY DEF TypeOK
  <2>2. UNCHANGED plans
    BY <1>15 DEF VerifyRemediation
  <2>3. status' \in {"review", status}
    BY <1>15 DEF VerifyRemediation, gate
  <2> QED BY <1>3, <1>13, <2>1, <2>2, <2>3 DEF Executing
<1>16. ASSUME \/ \E d, q, r \in BOOLEAN : ReviewTransport(d, q, r)
              \/ \E i \in DOMAIN tasks, p \in Actor : SubmitRemediation(i, p)
       PROVE  DecisionInv'
  <2>1. UNCHANGED plans /\ status' = status
    BY <1>16 DEF ReviewTransport, SubmitRemediation, gate
  <2> QED BY <1>3, <2>1
<1>17. ASSUME \/ \E ds \in TaskLists : AddRemediation(ds)
              \/ \E p \in Actor : Seal(p)
              \/ \E p \in Actor, ds \in TaskLists : SendBack(p, ds)
       PROVE  DecisionInv'
  <2>1. UNCHANGED plans /\ UnderReview /\ status' \in {"remediation", "sealed"}
    BY <1>17 DEF AddRemediation, Seal, SendBack, PassAccepted
  <2> QED BY <1>11, <2>1 DEF UnderReview
<1>18. CASE UNCHANGED vars
  BY <1>3, <1>18 DEF vars, plans
<1> QED
  BY <1>4, <1>5, <1>8, <1>9, <1>10, <1>12, <1>14, <1>15, <1>16, <1>17, <1>18
     DEF Next

\* The version history is complete and every superseded version was decided
\* by somebody else than its author.
THEOREM HistoryIsComplete == Spec => []HistoryRecordsDecisions
<1>1. Init => DecisionInv
  BY DEF Init, DecisionInv, HistoryRecordsDecisions
<1>2. IInv => TypeOK /\ PhaseInv
  BY DEF IInv
<1>3. DecisionInv => HistoryRecordsDecisions
  BY DEF DecisionInv
<1> QED BY Invariant, <1>1, <1>2, <1>3, DecisionStep, PTL DEF Spec

-----------------------------------------------------------------------------
(* Hidden tasks *)

\* A step on the first task of its id neither hides nor reveals an open task.
LEMMA FirstTaskStep ==
    ASSUME NEW k \in DOMAIN tasks, FirstWithId(k),
           tasks \in Seq(Task), tasks' \in Seq(Task),
           Len(tasks') = Len(tasks),
           \A j \in DOMAIN tasks : tasks'[j].id = tasks[j].id,
           \A j \in DOMAIN tasks : j # k => tasks'[j] = tasks[j]
    PROVE  HiddenTaskOpen' <=> HiddenTaskOpen
<1>1. DOMAIN tasks' = DOMAIN tasks /\ DOMAIN tasks = 1..Len(tasks)
  OBVIOUS
<1>2. \A i \in DOMAIN tasks : FirstWithId(i)' <=> FirstWithId(i)
  BY <1>1 DEF FirstWithId
<1>3. \A i \in DOMAIN tasks : ~FirstWithId(i) => tasks'[i] = tasks[i]
  OBVIOUS
<1> QED BY <1>1, <1>2, <1>3 DEF HiddenTaskOpen

\* Tasks that are added leave the hidden ones where they are.
LEMMA AddedTasksStep ==
    ASSUME NEW new \in Seq(Task), tasks \in Seq(Task), tasks' = tasks \o new,
           HiddenTaskOpen
    PROVE  HiddenTaskOpen'
<1>1. PICK i \in DOMAIN tasks : ~FirstWithId(i) /\ tasks[i].status # "passed"
  BY DEF HiddenTaskOpen
<1>2. \A j \in DOMAIN tasks : j \in DOMAIN tasks' /\ tasks'[j] = tasks[j]
  OBVIOUS
<1>3. \A j \in 1..(i - 1) : j \in DOMAIN tasks
  OBVIOUS
<1>4. ~FirstWithId(i)'
  BY <1>1, <1>2, <1>3 DEF FirstWithId
<1> QED BY <1>1, <1>2, <1>4 DEF HiddenTaskOpen

\* An open task that an earlier one hides stays open, and its batch unsealed.
THEOREM HiddenTaskIsDeadEnd == Spec => HiddenTaskBlocksRelease
<1> DEFINE Inv == status = "sealed" => ~HiddenTaskOpen
<1>1. Init => Inv
  BY DEF Init
<1>2. TypeOK /\ TypeOK' /\ Inv /\ [Next]_vars =>
        Inv' /\ (HiddenTaskOpen => HiddenTaskOpen' /\ status' # "sealed")
  <2> SUFFICES ASSUME TypeOK, TypeOK', Inv, [Next]_vars
               PROVE  /\ Inv'
                      /\ HiddenTaskOpen => HiddenTaskOpen' /\ status' # "sealed"
    OBVIOUS
  <2> DEFINE Done == /\ Inv'
                     /\ HiddenTaskOpen => HiddenTaskOpen' /\ status' # "sealed"
  <2>1. tasks \in Seq(Task) /\ tasks' \in Seq(Task)
    BY DEF TypeOK
  <2>2. ASSUME HiddenTaskOpen' <=> HiddenTaskOpen,
               status' = "sealed" => status = "sealed"
        PROVE  Done
    BY <2>2
  <2>3. ASSUME UNCHANGED tasks, status' = "sealed" => status = "sealed"
        PROVE  Done
    <3>1. HiddenTaskOpen' <=> HiddenTaskOpen
      BY <2>3 DEF HiddenTaskOpen, FirstWithId
    <3> QED BY <2>2, <2>3, <3>1
  <2>4. ASSUME NEW ds \in TaskLists, NEW st,
               tasks' = tasks \o [i \in DOMAIN ds |-> NewTask(ds[i], st[i])],
               \A i \in DOMAIN ds : st[i] \in TaskStatus,
               status' = "remediation"
        PROVE  Done
    <3> DEFINE new == [i \in DOMAIN ds |-> NewTask(ds[i], st[i])]
    <3>1. \A i \in DOMAIN ds : NewTask(ds[i], st[i]) \in Task
      BY <2>4, DraftType, NewTaskType
    <3>2. new \in [1..Len(ds) -> Task]
      BY <3>1, DraftType
    <3>3. new \in Seq(Task)
      BY <3>2, DraftType
    <3>4. HiddenTaskOpen => HiddenTaskOpen'
      BY <2>1, <2>4, <3>3, AddedTasksStep
    <3> QED BY <2>4, <3>4
  <2>5. ASSUME NEW k \in DOMAIN tasks, NEW task \in Task,
               FirstWithId(k), task.id = tasks[k].id,
               tasks' = [tasks EXCEPT ![k] = task],
               status' = "sealed" => status = "sealed"
        PROVE  Done
    <3>1. /\ Len(tasks') = Len(tasks)
          /\ \A j \in DOMAIN tasks : tasks'[j].id = tasks[j].id
          /\ \A j \in DOMAIN tasks : j # k => tasks'[j] = tasks[j]
      BY <2>1, <2>5
    <3>2. HiddenTaskOpen' <=> HiddenTaskOpen
      BY <2>1, <2>5, <3>1, FirstTaskStep
    <3> QED BY <2>2, <2>5, <3>2
  <2>6. ASSUME NEW ds \in TaskLists, AddRemediation(ds) PROVE Done
    <3> DEFINE st == [i \in DOMAIN ds |-> SentStatus(ds[i])]
    <3>1. \A i \in DOMAIN ds : st[i] \in TaskStatus
      BY DraftType
    <3>2. tasks' = tasks \o [i \in DOMAIN ds |-> NewTask(ds[i], st[i])]
      BY <2>6 DEF AddRemediation
    <3>3. status' = "remediation"
      BY <2>6 DEF AddRemediation
    <3> HIDE DEF st
    <3> QED BY <2>4, <3>1, <3>2, <3>3
  <2>7. ASSUME NEW p \in Actor, NEW ds \in TaskLists, SendBack(p, ds) PROVE Done
    <3> DEFINE st == [i \in DOMAIN ds |-> "pending"]
    <3>1. \A i \in DOMAIN ds : st[i] \in TaskStatus
      BY DEF TaskStatus
    <3>2. tasks' = tasks \o [i \in DOMAIN ds |-> NewTask(ds[i], st[i])]
      BY <2>7 DEF SendBack
    <3>3. status' = "remediation"
      BY <2>7 DEF SendBack
    <3> HIDE DEF st
    <3> QED BY <2>4, <3>1, <3>2, <3>3
  <2>8. ASSUME NEW k \in DOMAIN tasks, NEW p \in Actor, SubmitRemediation(k, p)
        PROVE  Done
    <3> DEFINE task == [tasks[k] EXCEPT !.status = "submitted",
                                        !.submittedBy = p, !.asSent = FALSE]
    <3>1. tasks[k] \in Task
      BY <2>1
    <3>2. task \in Task /\ task.id = tasks[k].id
      BY <3>1 DEF Task, TaskStatus
    <3>3. tasks' = [tasks EXCEPT ![k] = task]
      BY <2>1, <2>8, <3>1 DEF SubmitRemediation, Task
    <3> HIDE DEF task
    <3> QED BY <2>5, <2>8, <3>2, <3>3 DEF SubmitRemediation, gate
  <2>9. ASSUME NEW k \in DOMAIN tasks, NEW p \in Actor, NEW pass \in BOOLEAN,
               VerifyRemediation(k, p, pass)
        PROVE  Done
    <3> DEFINE task == [tasks[k] EXCEPT !.status = Verdict(pass),
                                        !.verifiedBy = p, !.asSent = FALSE]
    <3>1. tasks[k] \in Task
      BY <2>1
    <3>2. task \in Task /\ task.id = tasks[k].id
      BY <3>1 DEF Task, TaskStatus, Verdict
    <3>3. tasks' = [tasks EXCEPT ![k] = task]
      BY <2>1, <2>9, <3>1 DEF VerifyRemediation, Task
    <3>4. status' = "sealed" => status = "sealed"
      BY <2>9 DEF VerifyRemediation, gate
    <3> HIDE DEF task
    <3> QED BY <2>5, <2>9, <3>2, <3>3, <3>4 DEF VerifyRemediation
  <2>10. ASSUME NEW p \in Actor, Seal(p) PROVE Done
    <3>1. AllPassed(tasks) /\ UNCHANGED tasks
      BY <2>10 DEF Seal, PassAccepted, ReleaseReady
    <3>2. ~HiddenTaskOpen
      BY <3>1 DEF AllPassed, HiddenTaskOpen
    <3>3. ~HiddenTaskOpen'
      BY <3>1, <3>2 DEF HiddenTaskOpen, FirstWithId
    <3> QED BY <3>2, <3>3
  <2>11. ASSUME \/ \E t \in TransportReports : RegisterTransport(t)
                \/ \E d, q, r \in BOOLEAN : ReviewTransport(d, q, r)
                \/ \E p, q \in Actor, sp \in StagePlans : CreatePlan(p, q, sp)
                \/ \E p \in Actor : ApprovePlan(p)
                \/ \E p \in Actor : RejectPlan(p)
                \/ \E p \in Actor : RejectWithoutReason(p)
                \/ \E r \in Readings, v \in SentCorrections \cup {Nil} :
                     AddObservation(r, v)
                \/ \E i \in DOMAIN observations, r \in Readings :
                     CorrectObservation(i, r)
                \/ UNCHANGED vars
         PROVE  Done
    <3>1. UNCHANGED tasks /\ (status' = "sealed" => status = "sealed")
      BY <2>11 DEF RegisterTransport, ReviewTransport, CreatePlan, ApprovePlan,
           RejectPlan, RejectWithoutReason, AddObservation,
           CorrectObservation, ResumeOrHold, gate, vars
    <3> QED BY <2>3, <3>1
  <2> QED
    BY <2>6, <2>7, <2>8, <2>9, <2>10, <2>11 DEF Next
<1>3. TypeOK /\ TypeOK' /\ Inv /\ [Next]_vars =>
        [HiddenTaskOpen => HiddenTaskOpen' /\ status' # "sealed"]_vars
  BY <1>2
<1> QED BY <1>1, <1>2, <1>3, TypeCorrect, PTL DEF Spec, HiddenTaskBlocksRelease

=============================================================================
