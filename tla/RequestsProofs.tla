--------------------------- MODULE RequestsProofs ---------------------------
(***************************************************************************)
(* Proofs about Requests, for every set of calls, requests and readers:    *)
(* what the service mutex protects, what the readers that do without it    *)
(* may see, and that the operations are atomic to their clients.  That     *)
(* every call returns and that the checks settle is a matter of the runs.  *)
(***************************************************************************)
EXTENDS Requests, SequenceTheorems, TLAPS

-----------------------------------------------------------------------------
(* Who holds the mutex *)

Inside == {"body", "put", "append", "announce", "save"}

\* A call is inside if and only if it holds the mutex.
HolderInv ==
    /\ mutex \in Call \cup {Nobody}
    /\ pc \in [Call -> Steps]
    /\ \A c \in Call : pc[c] \in Inside <=> mutex = c

\* The steps of a call that is outside stay outside, with the mutex as it is.
\* The others are those of the holder, or make it one.
LEMMA CallSteps ==
    ASSUME HolderInv, NEW c \in Call
    PROVE  /\ Arrive(c) => /\ pc[c] = "idle" /\ mutex' = mutex
                           /\ pc' = [pc EXCEPT ![c] = "check"] \/
                              pc' = [pc EXCEPT ![c] = "enter"]
           /\ CheckVersion(c) => /\ pc[c] = "check" /\ mutex' = mutex
                                 /\ pc' = [pc EXCEPT ![c] = "enter"] \/
                                    pc' = [pc EXCEPT ![c] = "done"]
           /\ Enter(c) => /\ pc[c] = "enter" /\ mutex = Nobody /\ mutex' = c
                          /\ pc' = [pc EXCEPT ![c] = "body"]
           /\ Replay(c) \/ RefuseBody(c) \/ RejectWithoutReason(c) =>
                 /\ pc[c] = "body" /\ mutex = c /\ mutex' = Nobody
                 /\ pc' = [pc EXCEPT ![c] = "done"]
           /\ Body(c) => /\ pc[c] = "body" /\ mutex = c /\ mutex' = c
                         /\ pc' = [pc EXCEPT ![c] = "put"]
           /\ Put(c) => /\ pc[c] = "put" /\ mutex = c /\ mutex' = c
                        /\ pc' = [pc EXCEPT ![c] = "append"]
           /\ AppendEvent(c) => /\ pc[c] = "append" /\ mutex = c /\ mutex' = c
                                /\ pc' = [pc EXCEPT ![c] = "save"] \/
                                   pc' = [pc EXCEPT ![c] = "announce"]
           /\ Announce(c) => /\ pc[c] = "announce" /\ mutex = c /\ mutex' = c
                             /\ pc' = [pc EXCEPT ![c] = "save"]
           /\ Save(c) => /\ pc[c] = "save" /\ mutex = c /\ mutex' = Nobody
                         /\ pc' = [pc EXCEPT ![c] = "done"]
BY DEF HolderInv, Inside, Arrive, CheckVersion, Enter, MutexFree, Replay,
       RefuseBody, RejectWithoutReason, Refuse, Body, Put, AfterPut, AppendEvent, Announce, Save,
       Answer, GoTo, service

\* What readers do leaves service and calls alone.
LEMMA ReaderSteps ==
    ASSUME NEW r \in Reader,
           Finish(r) \/ \E question \in Question : Fetch(r, question)
    PROVE  UNCHANGED <<service, calls>>
BY DEF Finish, Encode, Precheck, Report, Verdict, Fetch

LEMMA HolderInit == Init => HolderInv
BY NobodyAssumption DEF Init, HolderInv, Inside, Steps

\* Nobody enters while the mutex is held, and whoever leaves releases it.
LEMMA HolderStep == HolderInv /\ [Next]_vars => HolderInv'
<1> SUFFICES ASSUME HolderInv, [Next]_vars PROVE HolderInv'
  OBVIOUS
<1>1. ASSUME NEW c \in Call, Arrive(c) \/ CheckVersion(c)
      PROVE  HolderInv'
  BY <1>1, CallSteps DEF HolderInv, Inside, Steps
<1>2. ASSUME NEW c \in Call, Enter(c) PROVE HolderInv'
  BY <1>2, CallSteps, NobodyAssumption DEF HolderInv, Inside, Steps
<1>3. ASSUME NEW c \in Call,
             Replay(c) \/ RefuseBody(c) \/ RejectWithoutReason(c) \/ Save(c)
      PROVE  HolderInv'
  BY <1>3, CallSteps, NobodyAssumption DEF HolderInv, Inside, Steps
<1>4. ASSUME NEW c \in Call,
             Body(c) \/ Put(c) \/ AppendEvent(c) \/ Announce(c)
      PROVE  HolderInv'
  BY <1>4, CallSteps DEF HolderInv, Inside, Steps
<1>5. CASE UNCHANGED <<service, calls>>
  BY <1>5 DEF HolderInv, service, calls
<1> QED
  BY <1>1, <1>2, <1>3, <1>4, <1>5, ReaderSteps DEF Next, Proceed, vars

-----------------------------------------------------------------------------
(* Answers *)

\* A call that is done has its answer, and no other has.
AnswerInv ==
    /\ answer \in [Call -> {"none", "ok", "replayed", "conflict", "refused"}]
    /\ \A c \in Call : answer[c] = "none" <=> pc[c] # "done"

LEMMA AnswerInit == Init => AnswerInv
BY DEF Init, AnswerInv

\* Only Answer writes answers, and it ends the call.
LEMMA AnswerStep == HolderInv /\ AnswerInv /\ [Next]_vars => AnswerInv'
<1> SUFFICES ASSUME HolderInv, AnswerInv, [Next]_vars PROVE AnswerInv'
  OBVIOUS
<1>1. ASSUME NEW c \in Call, NEW a \in {"ok", "replayed", "conflict", "refused"},
             Answer(c, a)
      PROVE  AnswerInv'
  BY <1>1 DEF AnswerInv, HolderInv, Answer, GoTo
<1>2. ASSUME NEW c \in Call, NEW step \in Steps \ {"done"}, pc[c] # "done",
             GoTo(c, step), answer' = answer
      PROVE  AnswerInv'
  BY <1>2 DEF AnswerInv, HolderInv, GoTo
<1>3. ASSUME NEW c \in Call,
             Replay(c) \/ RefuseBody(c) \/ RejectWithoutReason(c) \/ Save(c)
      PROVE  AnswerInv'
  BY <1>1, <1>3 DEF Replay, RefuseBody, RejectWithoutReason, Refuse, Save
<1>4. ASSUME NEW c \in Call, CheckVersion(c) PROVE AnswerInv'
  BY <1>1, <1>2, <1>4 DEF CheckVersion, Steps
<1>5. ASSUME NEW c \in Call, Arrive(c) PROVE AnswerInv'
  BY <1>2, <1>5 DEF Arrive, Steps
<1>6. ASSUME NEW c \in Call,
             Enter(c) \/ Body(c) \/ Put(c) \/ AppendEvent(c) \/ Announce(c)
      PROVE  AnswerInv'
  BY <1>2, <1>6 DEF Enter, Body, Put, AppendEvent, Announce, Steps
<1>7. CASE UNCHANGED calls
  BY <1>7 DEF AnswerInv, calls
<1> QED
  BY <1>3, <1>4, <1>5, <1>6, <1>7, ReaderSteps DEF Next, Proceed, vars

\* What was answered stays answered.
LEMMA AnswersStay ==
    ASSUME HolderInv, AnswerInv, [Next]_vars
    PROVE  /\ \A d \in Call : answer[d] = "refused" => answer'[d] = "refused"
           /\ \A n : Spoiled(n) => Spoiled(n)'
<1>1. ASSUME NEW c \in Call, NEW a, Answer(c, a), pc[c] # "done"
      PROVE  \A d \in Call : answer[d] = "refused" => answer'[d] = "refused"
  BY <1>1 DEF AnswerInv, Answer
<1>2. ASSUME NEW c \in Call, Arrive(c) \/ Enter(c) \/ Proceed(c)
      PROVE  \A d \in Call : answer[d] = "refused" => answer'[d] = "refused"
  BY <1>1, <1>2
     DEF Proceed, Arrive, CheckVersion, Enter, Replay, RefuseBody,
         RejectWithoutReason, Refuse, Body, Put, AppendEvent, Announce, Save
<1>3. \A d \in Call : answer[d] = "refused" => answer'[d] = "refused"
  BY <1>2, ReaderSteps DEF Next, vars, calls
<1>4. \A n : Spoiled(n) => Spoiled(n)'
  BY <1>3 DEF Spoiled, WithoutReason
<1> QED BY <1>3, <1>4

-----------------------------------------------------------------------------
(* The batch and its plans *)

\* The decision a reader finds in the plan a batch points to.
DecisionOf(plan, objects) ==
    IF plan = 0 THEN "none" ELSE objects[plan].decision

\* The holder of the mutex about to put the batch has staged the stored
\* revision, the one its client expected; what it staged agrees with the plan
\* objects.  At any other time the stored batch does, and a plan that is rejected
\* already while its decision is awaited is so by a call that was refused.
PutInv ==
    /\ batch \in Batch /\ staged \in Batch
    /\ plans \in Seq(Plan)
    /\ batch.plan \in 0..Len(plans)
    /\ staged.plan \in 0..Len(plans)
    /\ \A c \in Call : pc[c] = "put" =>
          /\ staged.revision = batch.revision
          /\ request[c].expected = batch.revision
          /\ Agree(staged.status, staged.plan, DecisionOf(staged.plan, plans))
          /\ staged.status = "plan_pending" =>
                 DecisionOf(staged.plan, plans) = "pending"
          /\ staged.status = "sealed" => staged.digest = batch.revision + 1
    /\ (\A c \in Call : pc[c] # "put") =>
          /\ Agree(batch.status, batch.plan, DecisionOf(batch.plan, plans))
          /\ /\ batch.status = "plan_pending"
             /\ DecisionOf(batch.plan, plans) = "rejected"
             => /\ plans[batch.plan].by \in Call
                /\ answer[plans[batch.plan].by] = "refused"
    /\ batch.status = "sealed" => batch.digest = batch.revision

\* What the operations do to the plan objects and stage.
LEMMA BodyCases ==
    ASSUME NEW c \in Call, Body(c)
    PROVE  /\ request[c].expected = batch.revision
           /\ UNCHANGED batch
           /\ staged'.revision = batch.revision
           /\ \/ /\ request[c].op = "CreatePlan"
                 /\ plans' = Append(plans, [decision |-> "pending", by |-> Nobody])
                 /\ staged' = [revision |-> batch.revision,
                               status |-> "plan_pending", plan |-> Len(plans) + 1,
                               digest |-> batch.digest]
              \/ /\ request[c].op = "Approve" /\ batch.status = "plan_pending"
                 /\ plans' = [plans EXCEPT ![batch.plan] =
                                [decision |-> "approved", by |-> c]]
                 /\ staged' = [revision |-> batch.revision,
                               status |-> "thawing", plan |-> batch.plan,
                               digest |-> batch.digest]
              \/ /\ request[c].op = "Reject" /\ request[c].reason
                 /\ batch.status = "plan_pending"
                 /\ plans' = [plans EXCEPT ![batch.plan] =
                                [decision |-> "rejected", by |-> c]]
                 /\ staged' = [revision |-> batch.revision,
                               status |-> "awaiting_plan", plan |-> batch.plan,
                               digest |-> batch.digest]
              \/ /\ request[c].op \notin Decision
                 /\ plans' = plans
                 /\ \/ batch.status = "thawing" /\ staged' =
                         [revision |-> batch.revision,
                          status |-> "review", plan |-> batch.plan,
                          digest |-> batch.digest]
                    \/ batch.status = "review" /\ staged' =
                         [revision |-> batch.revision,
                          status |-> "sealed", plan |-> batch.plan,
                          digest |-> batch.revision + 1]
<1>1. request[c] \in RequestShape
  BY RequestAssumption
<1>2. /\ request[c].expected = batch.revision
      /\ batch.status = StatusBefore(request[c].op)
      /\ plans' = PlansAfter(c)
      /\ staged' = [revision |-> batch.revision,
                    status |-> StatusAfter(request[c].op),
                    plan |-> IF request[c].op = "CreatePlan"
                             THEN Len(plans) + 1 ELSE batch.plan,
                    digest |-> IF request[c].op = "Review"
                               THEN batch.revision + 1 ELSE batch.digest]
      /\ ~WithoutReason(c)
      /\ UNCHANGED batch
  BY DEF Body, Accepted, Expected, NewVersion
<1>3. CASE request[c].op = "CreatePlan"
  BY <1>2, <1>3 DEF StatusAfter, PlansAfter, Decision
<1>4. CASE request[c].op = "Approve"
  BY <1>2, <1>4 DEF StatusBefore, StatusAfter, PlansAfter, Decision
<1>5. CASE request[c].op = "Reject"
  BY <1>1, <1>2, <1>5 DEF StatusBefore, StatusAfter, PlansAfter, Decision,
                          WithoutReason, RequestShape
<1>6. CASE request[c].op = "AddObservation"
  BY <1>2, <1>6 DEF StatusBefore, StatusAfter, PlansAfter, Decision
<1>7. CASE request[c].op = "Review"
  BY <1>2, <1>7 DEF StatusBefore, StatusAfter, PlansAfter, Decision
<1> QED BY <1>1, <1>3, <1>4, <1>5, <1>6, <1>7 DEF RequestShape, Op

\* The batch begins without a plan.
LEMMA PutInit == Init => PutInv
BY DEF Init, PutInv, Registered, FirstRevision, Batch, Status, Agree,
       DecisionOf, Steps

\* An operation writes plan objects that agree with what it stages, and the
\* objects of other plans as they were.
LEMMA PutBody ==
    ASSUME HolderInv, PutInv, NEW c \in Call, Body(c)
    PROVE  /\ staged' \in Batch
           /\ plans' \in Seq(Plan)
           /\ Len(plans') >= Len(plans)
           /\ staged'.plan \in 0..Len(plans')
           /\ staged'.revision = batch.revision
           /\ request[c].expected = batch.revision
           /\ Agree(staged'.status, staged'.plan, DecisionOf(staged'.plan, plans'))
           /\ staged'.status = "plan_pending" =>
                  DecisionOf(staged'.plan, plans') = "pending"
           /\ staged'.status = "sealed" => staged'.digest = batch.revision + 1
<1>1. Agree(batch.status, batch.plan, DecisionOf(batch.plan, plans))
  BY CallSteps DEF PutInv, HolderInv, Inside
<1>2. /\ batch \in Batch /\ batch.revision \in Nat
      /\ plans \in Seq(Plan) /\ Len(plans) \in Nat
      /\ batch.plan \in 0..Len(plans)
  BY DEF PutInv, Batch
<1>3. request[c].expected = batch.revision /\ staged'.revision = batch.revision
  BY BodyCases
<1>4. CASE /\ plans' = Append(plans, [decision |-> "pending", by |-> Nobody])
           /\ staged' = [revision |-> batch.revision,
                         status |-> "plan_pending", plan |-> Len(plans) + 1,
                         digest |-> batch.digest]
  <2>1. [decision |-> "pending", by |-> Nobody] \in Plan
    BY DEF Plan
  <2>2. /\ plans' \in Seq(Plan) /\ Len(plans') = Len(plans) + 1
        /\ plans'[Len(plans) + 1] = [decision |-> "pending", by |-> Nobody]
    BY <1>2, <1>4, <2>1
  <2>3. DecisionOf(staged'.plan, plans') = "pending"
    BY <1>2, <1>4, <2>2 DEF DecisionOf
  <2> QED BY <1>2, <1>3, <1>4, <2>2, <2>3 DEF Batch, Status, Agree
<1>5. ASSUME NEW d \in {"approved", "rejected"},
             batch.status = "plan_pending",
             plans' = [plans EXCEPT ![batch.plan] = [decision |-> d, by |-> c]],
             staged' = [revision |-> batch.revision,
                        status |-> IF d = "approved" THEN "thawing"
                                   ELSE "awaiting_plan",
                        plan |-> batch.plan, digest |-> batch.digest]
      PROVE  /\ staged' \in Batch
             /\ plans' \in Seq(Plan) /\ Len(plans') = Len(plans)
             /\ Agree(staged'.status, staged'.plan,
                      DecisionOf(staged'.plan, plans'))
  <2>1. batch.plan \in 1..Len(plans)
    BY <1>1, <1>2, <1>5 DEF Agree, DecisionOf
  <2>2. [decision |-> d, by |-> c] \in Plan
    BY <1>5 DEF Plan
  <2>3. /\ plans' \in Seq(Plan) /\ Len(plans') = Len(plans)
        /\ plans'[batch.plan] = [decision |-> d, by |-> c]
    BY <1>2, <1>5, <2>1, <2>2, ExceptSeq
  <2>4. DecisionOf(staged'.plan, plans') = d
    BY <1>2, <1>5, <2>1, <2>3 DEF DecisionOf
  <2> QED BY <1>2, <1>5, <2>3, <2>4 DEF Batch, Status, Agree
<1>6. CASE /\ plans' = plans
           /\ \/ batch.status = "thawing" /\ staged' =
                   [revision |-> batch.revision,
                    status |-> "review", plan |-> batch.plan,
                    digest |-> batch.digest]
              \/ batch.status = "review" /\ staged' =
                   [revision |-> batch.revision,
                    status |-> "sealed", plan |-> batch.plan,
                    digest |-> batch.revision + 1]
  BY <1>1, <1>2, <1>3, <1>6 DEF Batch, Status, Agree, DecisionOf
<1> QED BY <1>2, <1>3, <1>4, <1>5, <1>6, BodyCases

\* Copies of a request ask for the same.  Clients choose the ids.
UniqueIds ==
    \A c, d \in Call : request[c].id = request[d].id => request[c] = request[d]

\* A call has named the plan of the revision it expects, if that is still to be
\* reached or stored; a decision under way or recorded is on a plan that is.
DecisionInv ==
    /\ record \subseteq RequestId
    /\ \A c \in Call : pc[c] = "check" =>
          request[c].op \in Decision /\ request[c].expected <= batch.revision
    /\ \A c \in Call : pc[c] \in {"enter", "body"} /\ request[c].op \in Decision =>
          /\ request[c].expected <= batch.revision
          /\ request[c].expected = batch.revision => request[c].version = batch.plan
    /\ \A c \in Call : pc[c] = "put" => staged.plan >= batch.plan
    /\ \A c \in Call :
          /\ pc[c] \in {"put", "append", "announce", "save"}
          /\ request[c].op \in Decision
          => request[c].version \in 1..batch.plan
    /\ \A id \in record : \E d \in Call :
          /\ request[d].id = id
          /\ request[d].op \in Decision => request[d].version \in 1..batch.plan
    /\ DecisionHitsNamedVersion

\* A rejection without a reason finds the plan its client named, still pending,
\* and rejects it in place.
LEMMA SpoilingCases ==
    ASSUME HolderInv, PutInv, DecisionInv, NEW c \in Call, RejectWithoutReason(c)
    PROVE  /\ pc[c] = "body" /\ mutex = c
           /\ WithoutReason(c) /\ Expected(c) /\ request[c].id \notin record
           /\ batch.status = "plan_pending"
           /\ batch.plan \in 1..Len(plans) /\ request[c].version = batch.plan
           /\ plans' = [plans EXCEPT ![batch.plan] =
                          [decision |-> "rejected", by |-> c]]
           /\ plans' \in Seq(Plan) /\ Len(plans') = Len(plans)
           /\ plans'[batch.plan] = [decision |-> "rejected", by |-> c]
           /\ UNCHANGED <<batch, staged, record>>
           /\ Answer(c, "refused")
<1>1. /\ pc[c] = "body" /\ mutex = c
      /\ WithoutReason(c) /\ Expected(c) /\ request[c].id \notin record
      /\ batch.status = "plan_pending"
      /\ plans' = [plans EXCEPT ![batch.plan] =
                     [decision |-> "rejected", by |-> c]]
      /\ UNCHANGED <<batch, staged, record>>
      /\ Answer(c, "refused")
  BY CallSteps DEF RejectWithoutReason, Accepted, WithoutReason, StatusBefore,
                   PlansAfter, Refuse, Decision
<1>2. request[c].version = batch.plan
  BY <1>1 DEF DecisionInv, WithoutReason, Decision, Expected
<1>3. Agree(batch.status, batch.plan, DecisionOf(batch.plan, plans))
  BY <1>1 DEF PutInv, HolderInv, Inside
<1>4. batch.plan \in 1..Len(plans) /\ plans \in Seq(Plan)
  BY <1>1, <1>3 DEF PutInv, Agree, DecisionOf
<1>5. [decision |-> "rejected", by |-> c] \in Plan
  BY DEF Plan
<1>6. /\ plans' \in Seq(Plan) /\ Len(plans') = Len(plans)
      /\ plans'[batch.plan] = [decision |-> "rejected", by |-> c]
  BY <1>1, <1>4, <1>5, ExceptSeq
<1> QED BY <1>1, <1>2, <1>4, <1>6

\* Every step keeps batch and plan objects in agreement.
LEMMA PutStep ==
    HolderInv /\ AnswerInv /\ PutInv /\ DecisionInv /\ [Next]_vars => PutInv'
<1> SUFFICES ASSUME HolderInv, AnswerInv, PutInv, DecisionInv, [Next]_vars
             PROVE  PutInv'
  OBVIOUS
<1>1. /\ \A d \in Call : answer[d] = "refused" => answer'[d] = "refused"
      /\ \A n : Spoiled(n) => Spoiled(n)'
  BY AnswersStay
<1>2. ASSUME UNCHANGED <<batch, plans, staged>>,
             \A d \in Call : pc'[d] = "put" <=> pc[d] = "put"
      PROVE  PutInv'
  <2>1. \A st, n, d : Agree(st, n, d) => Agree(st, n, d)'
    BY <1>1 DEF Agree
  <2>2. /\ DecisionOf(batch.plan, plans)' = DecisionOf(batch.plan, plans)
        /\ DecisionOf(staged.plan, plans)' = DecisionOf(staged.plan, plans)
    BY <1>2 DEF DecisionOf
  <2> HIDE DEF DecisionOf, Agree
  <2>3. Agree(batch.status, batch.plan, DecisionOf(batch.plan, plans)) =>
            Agree(batch.status, batch.plan, DecisionOf(batch.plan, plans))'
    BY <1>1, <1>2, <2>2 DEF Agree
  <2>4. Agree(staged.status, staged.plan, DecisionOf(staged.plan, plans)) =>
            Agree(staged.status, staged.plan, DecisionOf(staged.plan, plans))'
    BY <1>1, <1>2, <2>2 DEF Agree
  <2> QED BY <1>1, <1>2, <2>2, <2>3, <2>4 DEF PutInv
<1>3. ASSUME NEW c \in Call, Arrive(c) \/ CheckVersion(c) \/ Enter(c)
      PROVE  PutInv'
  <2>1. UNCHANGED <<batch, plans, staged>>
    BY <1>3 DEF Arrive, CheckVersion, Enter, service
  <2>2. \A d \in Call : pc'[d] = "put" <=> pc[d] = "put"
    BY <1>3, CallSteps DEF HolderInv
  <2> QED BY <1>2, <2>1, <2>2
<1>4. ASSUME NEW c \in Call,
             Replay(c) \/ RefuseBody(c) \/ AppendEvent(c) \/ Announce(c) \/ Save(c)
      PROVE  PutInv'
  <2>1. UNCHANGED <<batch, plans, staged>>
    BY <1>4 DEF Replay, RefuseBody, AppendEvent, Announce, Save
  <2>2. \A d \in Call : pc'[d] = "put" <=> pc[d] = "put"
    BY <1>4, CallSteps DEF HolderInv
  <2> QED BY <1>2, <2>1, <2>2
<1>5. ASSUME NEW c \in Call, RejectWithoutReason(c) PROVE PutInv'
  <2>1. /\ batch.status = "plan_pending"
        /\ batch.plan \in 1..Len(plans) /\ request[c].version = batch.plan
        /\ plans' \in Seq(Plan) /\ Len(plans') = Len(plans)
        /\ plans'[batch.plan] = [decision |-> "rejected", by |-> c]
        /\ UNCHANGED <<batch, staged>>
        /\ WithoutReason(c) /\ Answer(c, "refused")
    BY <1>5, SpoilingCases
  <2>2. \A d \in Call : pc'[d] # "put"
    BY <1>5, CallSteps DEF HolderInv, Inside
  <2>3. answer'[c] = "refused"
    BY <2>1 DEF Answer, AnswerInv
  <2>4. Spoiled(batch.plan)'
    BY <2>1, <2>3 DEF Spoiled, WithoutReason
  <2>5. DecisionOf(batch.plan, plans)' = "rejected"
    BY <2>1 DEF DecisionOf
  <2>6. Agree(batch.status, batch.plan, DecisionOf(batch.plan, plans))'
    BY <2>1, <2>4, <2>5 DEF Agree
  <2> QED BY <2>1, <2>2, <2>3, <2>6 DEF PutInv
<1>6. ASSUME NEW c \in Call, Body(c) PROVE PutInv'
  <2>1. batch' = batch
    BY <1>6, BodyCases
  <2>2. pc'[c] = "put" /\ \A d \in Call : d # c => pc'[d] # "put"
    BY <1>6, CallSteps DEF HolderInv, Inside
  <2>3. /\ staged' \in Batch /\ plans' \in Seq(Plan)
        /\ Len(plans') >= Len(plans) /\ staged'.plan \in 0..Len(plans')
        /\ staged'.revision = batch.revision
        /\ request[c].expected = batch.revision
        /\ Agree(staged'.status, staged'.plan, DecisionOf(staged'.plan, plans'))
        /\ staged'.status = "plan_pending" =>
               DecisionOf(staged'.plan, plans') = "pending"
        /\ staged'.status = "sealed" => staged'.digest = batch.revision + 1
    BY <1>6, PutBody
  <2>4. batch \in Batch /\ batch.plan \in 0..Len(plans')
    BY <2>3 DEF PutInv, Batch
  <2>5. batch.status = "sealed" => batch.digest = batch.revision
    BY DEF PutInv
  <2>6. Agree(staged.status, staged.plan, DecisionOf(staged.plan, plans))'
    BY <1>1, <2>3 DEF Agree, DecisionOf
  <2>7. DecisionOf(staged.plan, plans)' = DecisionOf(staged'.plan, plans')
    BY DEF DecisionOf
  <2> QED BY <2>1, <2>2, <2>3, <2>4, <2>5, <2>6, <2>7 DEF PutInv
<1>7. ASSUME NEW c \in Call, Put(c) PROVE PutInv'
  <2>1. /\ batch' = [staged EXCEPT !.revision = batch.revision + 1]
        /\ UNCHANGED <<plans, staged>>
    BY <1>7 DEF Put
  <2>2. \A d \in Call : pc'[d] # "put"
    BY <1>7, CallSteps DEF HolderInv, Inside
  <2>3. /\ batch' \in Batch /\ batch'.revision = batch.revision + 1
        /\ batch'.status = staged.status /\ batch'.plan = staged.plan
        /\ batch'.digest = staged.digest
    BY <2>1 DEF PutInv, Batch
  <2>4. /\ Agree(staged.status, staged.plan, DecisionOf(staged.plan, plans))
        /\ staged.status = "plan_pending" =>
               DecisionOf(staged.plan, plans) = "pending"
        /\ staged.status = "sealed" => staged.digest = batch.revision + 1
    BY <1>7, CallSteps DEF PutInv
  <2>5. DecisionOf(batch.plan, plans)' = DecisionOf(staged.plan, plans)
    BY <2>1, <2>3 DEF DecisionOf
  <2>6. Agree(batch.status, batch.plan, DecisionOf(batch.plan, plans))'
    BY <1>1, <2>3, <2>4, <2>5 DEF Agree
  <2>7. /\ staged' \in Batch /\ plans' \in Seq(Plan)
        /\ staged'.plan \in 0..Len(plans') /\ batch'.plan \in 0..Len(plans')
    BY <2>1, <2>3 DEF PutInv
  <2> QED BY <2>2, <2>3, <2>4, <2>5, <2>6, <2>7 DEF PutInv
<1>8. CASE UNCHANGED <<service, calls>>
  BY <1>2, <1>8 DEF service, calls
<1> QED
  BY <1>3, <1>4, <1>5, <1>6, <1>7, <1>8, ReaderSteps DEF Next, Proceed, vars

-----------------------------------------------------------------------------
(* The revisions in the log *)

\* The last revision the log tells of: that of the batch, unless its holder has
\* yet to append the event.
Told(revision) ==
    revision = IF \E c \in Call : pc[c] = "append" THEN batch.revision - 1
               ELSE batch.revision

\* The log tells of every revision up to that one.
LogInv ==
    /\ log \in Seq(Nat) /\ log # <<>>
    /\ Continuous(log, log[Len(log)])
    /\ Told(log[Len(log)])
    /\ \A c \in Call : pc[c] \in {"append", "announce"} =>
          request[c].expected + 1 = batch.revision

\* An event of the last revision or of the next one continues the log.
LEMMA AppendContinues ==
    ASSUME NEW events \in Seq(Nat), events # <<>>,
           Continuous(events, events[Len(events)]),
           NEW e \in Nat, e \in {events[Len(events)], events[Len(events)] + 1}
    PROVE  /\ Append(events, e) \in Seq(Nat) /\ Append(events, e) # <<>>
           /\ Append(events, e)[Len(Append(events, e))] = e
           /\ Continuous(Append(events, e), e)
<1> DEFINE longer == Append(events, e)
           n == Len(events)
<1>1. n \in Nat \ {0} /\ DOMAIN events = 1..n
  BY EmptySeq, LenProperties
<1>2. /\ longer \in Seq(Nat) /\ Len(longer) = n + 1 /\ longer[n + 1] = e
      /\ DOMAIN longer = 1..(n + 1)
      /\ \A i \in 1..n : longer[i] = events[i]
  BY <1>1
<1>3. \A i \in 1..n : events[i] \in Nat
  BY <1>1
<1> HIDE DEF longer, n
<1>4. events[n] \in Nat /\ e \in {events[n], events[n] + 1}
  BY <1>1, <1>3 DEF n
<1>5. \A i \in 1..n : /\ events[i] \in {IF i = 1 THEN 0 ELSE events[i - 1],
                                        (IF i = 1 THEN 0 ELSE events[i - 1]) + 1}
                      /\ events[i] <= events[n]
  BY <1>1 DEF Continuous, n
<1>6. ASSUME NEW i \in 1..(n + 1)
      PROVE  /\ longer[i] \in {IF i = 1 THEN 0 ELSE longer[i - 1],
                                (IF i = 1 THEN 0 ELSE longer[i - 1]) + 1}
             /\ longer[i] <= e
  <2>1. CASE i = n + 1
    <3>1. i # 1 /\ longer[i] = e /\ longer[i - 1] = events[n]
      BY <1>1, <1>2, <2>1
    <3> QED BY <1>4, <3>1
  <2>2. CASE i \in 1..n
    <3>1. longer[i] = events[i] /\ (i # 1 => longer[i - 1] = events[i - 1])
      BY <1>1, <1>2, <2>2
    <3>2. longer[i] <= e
      BY <1>3, <1>4, <1>5, <2>2, <3>1
    <3> QED BY <1>5, <2>2, <3>1, <3>2
  <2> QED BY <1>1, <2>1, <2>2
<1> QED BY <1>1, <1>2, <1>6 DEF Continuous, longer

\* The log begins with creation and registration.
LEMMA LogInit == Init => LogInv
<1> SUFFICES ASSUME Init PROVE LogInv
  OBVIOUS
<1>1. log = <<1, 2>>
  BY DEF Init, FirstRevision
<1>2. log \in Seq(Nat) /\ Len(log) = 2 /\ DOMAIN log = 1..2
      /\ log[1] = 1 /\ log[2] = 2
  BY <1>1
<1>3. Continuous(log, 2)
  BY <1>2 DEF Continuous
<1> QED
  BY <1>2, <1>3 DEF Init, LogInv, Told, Registered, FirstRevision

\* The event of a revision is in the log before the next operation begins.
LEMMA LogStep ==
    HolderInv /\ PutInv /\ LogInv /\ [Next]_vars => LogInv'
<1> SUFFICES ASSUME HolderInv, PutInv, LogInv, [Next]_vars PROVE LogInv'
  OBVIOUS
<1>1. ASSUME UNCHANGED <<batch, log>>,
             \A d \in Call : /\ pc'[d] = "append" <=> pc[d] = "append"
                             /\ pc'[d] = "announce" <=> pc[d] = "announce"
      PROVE  LogInv'
  BY <1>1 DEF LogInv, Told
<1>2. ASSUME NEW c \in Call,
             \/ Arrive(c) \/ CheckVersion(c) \/ Enter(c)
             \/ Replay(c) \/ RefuseBody(c) \/ RejectWithoutReason(c)
             \/ Body(c) \/ Save(c)
      PROVE  LogInv'
  <2>1. UNCHANGED <<batch, log>>
    BY <1>2 DEF Arrive, CheckVersion, Enter, Replay, RefuseBody,
         RejectWithoutReason, Body, Save, service
  <2>2. \A d \in Call : /\ pc'[d] = "append" <=> pc[d] = "append"
                        /\ pc'[d] = "announce" <=> pc[d] = "announce"
    BY <1>2, CallSteps DEF HolderInv
  <2> QED BY <1>1, <2>1, <2>2
<1>3. batch.revision \in Nat
  BY DEF PutInv, Batch
<1>4. ASSUME NEW c \in Call, Put(c) PROVE LogInv'
  <2>1. /\ batch' = [staged EXCEPT !.revision = batch.revision + 1]
        /\ log' = log
    BY <1>4 DEF Put
  <2>2. batch'.revision = batch.revision + 1
    BY <2>1 DEF PutInv, Batch
  <2>3. request[c].expected = batch.revision
    BY <1>4, CallSteps DEF PutInv
  <2>4. /\ pc'[c] = "append"
        /\ \A d \in Call : d # c => pc'[d] \notin Inside
        /\ \A d \in Call : pc[d] # "append"
    BY <1>4, CallSteps DEF HolderInv, Inside
  <2> QED BY <1>3, <2>1, <2>2, <2>3, <2>4 DEF LogInv, Told, Inside
<1>5. ASSUME NEW c \in Call, AppendEvent(c) PROVE LogInv'
  <2>1. log' = Append(log, request[c].expected + 1) /\ batch' = batch
    BY <1>5 DEF AppendEvent
  <2>2. pc[c] = "append" /\ \A d \in Call : pc'[d] # "append"
    BY <1>5, CallSteps DEF HolderInv, Inside
  <2>3. \A d \in Call : pc'[d] = "announce" => d = c
    BY <1>5, CallSteps DEF HolderInv, Inside
  <2>4. /\ request[c].expected + 1 = batch.revision
        /\ log[Len(log)] = batch.revision - 1
    BY <2>2 DEF LogInv, Told
  <2>5. log[Len(log)] + 1 = batch.revision
    BY <1>3, <2>4
  <2>6. /\ log' \in Seq(Nat) /\ log' # <<>>
        /\ log'[Len(log')] = batch.revision
        /\ Continuous(log', batch.revision)
    BY <1>3, <2>1, <2>4, <2>5, AppendContinues DEF LogInv
  <2> QED BY <2>1, <2>2, <2>3, <2>4, <2>6 DEF LogInv, Told
<1>6. ASSUME NEW c \in Call, Announce(c) PROVE LogInv'
  <2>1. log' = Append(log, request[c].expected + 1) /\ batch' = batch
    BY <1>6 DEF Announce, AnnouncedRevision
  <2>2. /\ pc[c] = "announce"
        /\ \A d \in Call : pc[d] # "append" /\ pc'[d] \notin {"append", "announce"}
    BY <1>6, CallSteps DEF HolderInv, Inside
  <2>3. /\ request[c].expected + 1 = batch.revision
        /\ log[Len(log)] = batch.revision
    BY <2>2 DEF LogInv, Told
  <2>4. /\ log' \in Seq(Nat) /\ log' # <<>>
        /\ log'[Len(log')] = batch.revision
        /\ Continuous(log', batch.revision)
    BY <1>3, <2>1, <2>3, AppendContinues DEF LogInv
  <2> QED BY <2>1, <2>2, <2>4 DEF LogInv, Told
<1>7. CASE UNCHANGED <<service, calls>>
  BY <1>1, <1>7 DEF service, calls
<1> QED
  BY <1>2, <1>4, <1>5, <1>6, <1>7, ReaderSteps DEF Next, Proceed, vars

\* Without an operation inside the mutex the chain verifies, either way.
LEMMA QuietChainVerifies ==
    ASSUME HolderInv, LogInv, mutex = Nobody
    PROVE  VerifyChainSummary(batch.revision) /\ VerifyChain(batch.revision)
<1>1. log[Len(log)] = batch.revision /\ Continuous(log, batch.revision)
  BY NobodyAssumption DEF HolderInv, Inside, LogInv, Told
<1>2. Len(log) \in Nat \ {0} /\ DOMAIN log = 1..Len(log) /\ log \in Seq(Nat)
  BY EmptySeq, LenProperties DEF LogInv
<1>3. SubSeq(log, 1, Len(log)) = log
  BY <1>2, SubSeqFull
<1>4. VerifyChainSummary(batch.revision)
  BY <1>1 DEF VerifyChainSummary
<1>5. Len(log) \in DOMAIN log
  BY <1>2
<1>6. VerifyChain(batch.revision)
  BY <1>1, <1>3, <1>5 DEF VerifyChain
<1> QED BY <1>4, <1>6

-----------------------------------------------------------------------------
(* The decisions *)

LEMMA DecisionInit == Init => DecisionInv
BY DEF Init, DecisionInv, DecisionHitsNamedVersion

\* What a step that leaves batch and plans alone has to show.
LEMMA DecisionFrame ==
    ASSUME HolderInv, PutInv, DecisionInv,
           NEW c \in Call, NEW step \in Steps,
           UNCHANGED <<batch, plans, staged>>,
           pc' = [pc EXCEPT ![c] = step],
           step = "check" => request[c].op \in Decision /\
                             request[c].expected <= batch.revision,
           step = "enter" /\ request[c].op \in Decision =>
               /\ request[c].expected <= batch.revision
               /\ request[c].version = batch.plan,
           step = "body" => pc[c] = "enter",
           step \in {"append", "announce", "save"} =>
               pc[c] \in {"put", "append", "announce", "save"},
           step # "put",
           record' \subseteq RequestId,
           \A id \in record' : \/ id \in record
                               \/ id = request[c].id /\ pc[c] = "save"
    PROVE  DecisionInv'
<1>1. \A d \in Call : d # c => pc'[d] = pc[d]
  BY DEF HolderInv
<1>2. pc'[c] = step
  BY DEF HolderInv
<1>3. ASSUME NEW id \in record'
      PROVE  \E d \in Call :
                /\ request[d].id = id
                /\ request[d].op \in Decision => request[d].version \in 1..batch.plan
  BY <1>3 DEF DecisionInv
<1>4. DecisionHitsNamedVersion'
  BY DEF DecisionInv, DecisionHitsNamedVersion
<1> QED BY <1>1, <1>2, <1>3, <1>4 DEF DecisionInv

\* A decision reaches the body with the version it named, or is refused there.
LEMMA DecisionStep ==
    HolderInv /\ PutInv /\ DecisionInv /\ [Next]_vars => DecisionInv'
<1> SUFFICES ASSUME HolderInv, PutInv, DecisionInv, [Next]_vars
             PROVE  DecisionInv'
  OBVIOUS
<1>1. \A c \in Call : request[c] \in RequestShape
  BY RequestAssumption
<1>2. /\ batch.revision \in Nat /\ batch.plan \in 0..Len(plans)
      /\ plans \in Seq(Plan) /\ Len(plans) \in Nat
  BY DEF PutInv, Batch
<1>3. ASSUME NEW c \in Call, Arrive(c) PROVE DecisionInv'
  <2>1. /\ UNCHANGED <<batch, plans, staged, record>>
        /\ request[c].expected <= batch.revision
        /\ pc' = [pc EXCEPT ![c] = IF request[c].op \in Decision THEN "check"
                                   ELSE "enter"]
    BY <1>3 DEF Arrive, GoTo, service
  <2>2. CASE request[c].op \in Decision
    BY <2>1, <2>2, DecisionFrame DEF Steps, DecisionInv
  <2>3. CASE request[c].op \notin Decision
    BY <2>1, <2>3, DecisionFrame DEF Steps, DecisionInv
  <2> QED BY <2>2, <2>3
<1>4. ASSUME NEW c \in Call, CheckVersion(c) PROVE DecisionInv'
  <2>1. /\ UNCHANGED <<batch, plans, staged, record>>
        /\ pc[c] = "check"
        /\ \/ pc' = [pc EXCEPT ![c] = "done"]
           \/ /\ pc' = [pc EXCEPT ![c] = "enter"]
              /\ request[c].version = batch.plan
    BY <1>4 DEF CheckVersion, NamesCurrentPlan, GoTo, Answer, service
  <2>2. CASE pc' = [pc EXCEPT ![c] = "done"]
    BY <2>1, <2>2, DecisionFrame DEF Steps, DecisionInv
  <2>3. CASE pc' = [pc EXCEPT ![c] = "enter"] /\ request[c].version = batch.plan
    BY <2>1, <2>3, DecisionFrame DEF Steps, DecisionInv
  <2> QED BY <2>1, <2>2, <2>3
<1>5. ASSUME NEW c \in Call, Enter(c) PROVE DecisionInv'
  <2>1. UNCHANGED <<batch, plans, staged, record>>
    BY <1>5 DEF Enter
  <2> QED BY <1>5, <2>1, CallSteps, DecisionFrame DEF Steps, DecisionInv
<1>6. ASSUME NEW c \in Call, Replay(c) \/ RefuseBody(c)
      PROVE  DecisionInv'
  <2>1. UNCHANGED <<batch, plans, staged, record>>
    BY <1>6 DEF Replay, RefuseBody
  <2> QED BY <1>6, <2>1, CallSteps, DecisionFrame DEF Steps, DecisionInv
<1>7. ASSUME NEW c \in Call, AppendEvent(c) PROVE DecisionInv'
  <2>1. UNCHANGED <<batch, plans, staged, record>>
    BY <1>7 DEF AppendEvent
  <2>2. PICK step \in {"save", "announce"} : pc' = [pc EXCEPT ![c] = step]
    BY <1>7, CallSteps
  <2>3. pc[c] = "append" /\ step \in Steps
    BY <1>7, CallSteps DEF Steps
  <2> QED BY <2>1, <2>2, <2>3, DecisionFrame DEF DecisionInv
<1>8. ASSUME NEW c \in Call, Announce(c) PROVE DecisionInv'
  <2>1. UNCHANGED <<batch, plans, staged, record>>
    BY <1>8 DEF Announce
  <2> QED BY <1>8, <2>1, CallSteps, DecisionFrame DEF Steps, DecisionInv
<1>9. ASSUME NEW c \in Call, Save(c) PROVE DecisionInv'
  <2>1. /\ UNCHANGED <<batch, plans, staged>>
        /\ record' = record \cup {request[c].id}
    BY <1>9 DEF Save
  <2>2. record' \subseteq RequestId
    BY <1>1, <2>1 DEF DecisionInv, RequestShape
  <2> QED BY <1>9, <2>1, <2>2, CallSteps, DecisionFrame DEF Steps
<1>10. ASSUME NEW c \in Call, Body(c) PROVE DecisionInv'
  <2>1. /\ pc[c] = "body" /\ pc'[c] = "put"
        /\ \A d \in Call : d # c => pc'[d] = pc[d] /\ pc[d] \notin Inside
    BY <1>10, CallSteps DEF HolderInv, Inside
  <2>2. batch' = batch /\ record' = record /\ request[c].expected = batch.revision
    BY <1>10, BodyCases DEF Body
  <2>3. request[c].op \in Decision => request[c].version = batch.plan
    BY <2>1, <2>2 DEF DecisionInv
  <2>4. Agree(batch.status, batch.plan, DecisionOf(batch.plan, plans))
    BY <2>1 DEF PutInv, Inside
  <2>5. batch.status = "plan_pending" => batch.plan \in 1..Len(plans)
    BY <1>2, <2>4 DEF Agree, DecisionOf
  <2>6. request[c].op \in Decision => batch.status = "plan_pending"
    BY <1>10, BodyCases DEF Decision
  <2>7. staged'.plan >= batch.plan
    <3>1. staged'.plan \in {batch.plan, Len(plans) + 1}
      BY <1>10 DEF Body, NewVersion
    <3> QED BY <1>2, <3>1
  <2>8. DecisionHitsNamedVersion'
    <3>1. CASE plans' = Append(plans, [decision |-> "pending", by |-> Nobody])
      <4>1. /\ DOMAIN plans' = 1..(Len(plans) + 1)
            /\ DOMAIN plans = 1..Len(plans)
            /\ plans'[Len(plans) + 1].by = Nobody
            /\ \A v \in 1..Len(plans) : plans'[v] = plans[v]
        BY <1>2, <3>1
      <4> QED BY <1>2, <4>1 DEF DecisionInv, DecisionHitsNamedVersion
    <3>2. ASSUME NEW x, request[c].op \in Decision,
                 plans' = [plans EXCEPT ![batch.plan] = [decision |-> x, by |-> c]]
          PROVE  DecisionHitsNamedVersion'
      BY <1>2, <2>3, <2>5, <2>6, <3>2 DEF DecisionInv, DecisionHitsNamedVersion
    <3>3. CASE plans' = plans
      BY <3>3 DEF DecisionInv, DecisionHitsNamedVersion
    <3>4. \/ plans' = Append(plans, [decision |-> "pending", by |-> Nobody])
          \/ /\ request[c].op \in Decision
             /\ \E x : plans' = [plans EXCEPT ![batch.plan] =
                                    [decision |-> x, by |-> c]]
          \/ plans' = plans
      BY <1>10, BodyCases DEF Decision
    <3> QED BY <3>1, <3>2, <3>3, <3>4
  <2>9. request[c].op \in Decision => request[c].version \in 1..batch.plan
    BY <1>2, <2>3, <2>5, <2>6
  <2> QED BY <2>1, <2>2, <2>7, <2>8, <2>9 DEF DecisionInv, Inside
<1>11. ASSUME NEW c \in Call, Put(c) PROVE DecisionInv'
  <2>1. /\ batch' = [staged EXCEPT !.revision = batch.revision + 1]
        /\ UNCHANGED <<plans, record, staged>>
    BY <1>11 DEF Put
  <2>2. /\ batch'.revision = batch.revision + 1 /\ batch'.plan = staged.plan
        /\ staged.plan \in Nat
    BY <2>1 DEF PutInv, Batch
  <2>3. /\ pc[c] = "put" /\ pc'[c] = "append"
        /\ \A d \in Call : d # c => pc'[d] = pc[d] /\ pc[d] \notin Inside
    BY <1>11, CallSteps DEF HolderInv, Inside
  <2>4. batch'.plan >= batch.plan
    BY <2>2, <2>3 DEF DecisionInv
  <2>5. \A n \in 1..batch.plan : n \in 1..batch'.plan
    BY <1>2, <2>2, <2>4
  <2>6. \A d \in Call : request[d].expected <= batch.revision =>
            /\ request[d].expected <= batch'.revision
            /\ request[d].expected # batch'.revision
    BY <1>1, <1>2, <2>2 DEF RequestShape
  <2>7. DecisionHitsNamedVersion'
    BY <2>1 DEF DecisionInv, DecisionHitsNamedVersion
  <2>8. \A id \in record' : \E d \in Call :
          /\ request[d].id = id
          /\ request[d].op \in Decision => request[d].version \in 1..batch'.plan
    BY <2>1, <2>5 DEF DecisionInv
  <2> QED BY <2>1, <2>3, <2>5, <2>6, <2>7, <2>8 DEF DecisionInv, Inside
<1>12. ASSUME NEW c \in Call, RejectWithoutReason(c) PROVE DecisionInv'
  <2>1. /\ pc[c] = "body" /\ pc'[c] = "done"
        /\ \A d \in Call : d # c => pc'[d] = pc[d] /\ pc[d] \notin Inside
    BY <1>12, CallSteps DEF HolderInv, Inside
  <2>2. /\ UNCHANGED <<batch, record, staged>>
        /\ request[c].version = batch.plan
        /\ batch.plan \in 1..Len(plans)
        /\ plans' = [plans EXCEPT ![batch.plan] =
                       [decision |-> "rejected", by |-> c]]
    BY <1>12, SpoilingCases DEF RejectWithoutReason
  <2>3. DecisionHitsNamedVersion'
    BY <1>2, <2>2 DEF DecisionInv, DecisionHitsNamedVersion
  <2> QED BY <2>1, <2>2, <2>3 DEF DecisionInv, Inside
<1>13. CASE UNCHANGED <<service, calls>>
  BY <1>13 DEF DecisionInv, DecisionHitsNamedVersion, service, calls
<1> QED
  BY <1>3, <1>4, <1>5, <1>6, <1>7, <1>8, <1>9, <1>10, <1>11, <1>12, <1>13,
     ReaderSteps
     DEF Next, Proceed, vars

\* All of it holds in every state, and the theorems rest on it.
ServiceInv == HolderInv /\ PutInv /\ DecisionInv /\ AnswerInv

LEMMA ServiceInvariant == Spec => []ServiceInv
<1>1. Init => ServiceInv
  BY HolderInit, PutInit, DecisionInit, AnswerInit DEF ServiceInv
<1>2. ServiceInv /\ [Next]_vars => ServiceInv'
  BY HolderStep, PutStep, DecisionStep, AnswerStep DEF ServiceInv
<1> QED BY <1>1, <1>2, PTL DEF Spec

\* The revision an operation compared is the one it replaces.
THEOREM NoUpdateIsLost == Spec => []NoLostUpdate
<1>1. ServiceInv => NoLostUpdate
  BY DEF ServiceInv, HolderInv, Inside, PutInv, NoLostUpdate
<1> QED BY <1>1, ServiceInvariant, PTL

\* Whoever took the mutex to read would never see a plan at odds with its batch,
\* but for one that a refused rejection without a reason has left rejected.
THEOREM PlanAgreesOutsideTheMutex == Spec => []QuietStateAgrees
<1>1. ServiceInv => QuietStateAgrees
  BY NobodyAssumption
     DEF ServiceInv, HolderInv, Inside, PutInv, QuietStateAgrees, DecisionOf
<1> QED BY <1>1, ServiceInvariant, PTL

\* The comparison of versions outside the mutex is good enough, because the
\* revision is compared inside.
THEOREM DecisionIsOnTheNamedPlan == Spec => []DecisionHitsNamedVersion
<1>1. ServiceInv => DecisionHitsNamedVersion
  BY DEF ServiceInv, DecisionInv
<1> QED BY <1>1, ServiceInvariant, PTL

\* A retry of a recorded decision is kept from its replay by a newer plan only.
THEOREM RetryIsRefusedForANewPlan ==
    ASSUME UniqueIds PROVE Spec => RetryRefusedOnlyAfterNewVersion
<1>1. ServiceInv /\ [Next]_vars =>
        [\A c \in Call :
            /\ pc[c] = "check" /\ pc'[c] = "done"
            /\ request[c].id \in record
            => batch.plan > request[c].version]_vars
  <2> SUFFICES ASSUME ServiceInv, Next, NEW c \in Call, pc[c] = "check",
                      pc'[c] = "done", request[c].id \in record
               PROVE  batch.plan > request[c].version
    OBVIOUS
  <2> USE DEF ServiceInv
  <2>1. CheckVersion(c)
    BY CallSteps, ReaderSteps DEF Next, Proceed, HolderInv, calls
  <2>2. ~NamesCurrentPlan(c)
    BY <2>1 DEF CheckVersion, HolderInv, GoTo
  <2>3. PICK d \in Call :
          /\ request[d].id = request[c].id
          /\ request[d].op \in Decision => request[d].version \in 1..batch.plan
    BY DEF DecisionInv
  <2>4. request[d] = request[c]
    BY <2>3 DEF UniqueIds
  <2>5. request[c].version \in 1..batch.plan
    BY <2>3, <2>4 DEF DecisionInv
  <2>6. batch.plan \in Nat
    BY DEF PutInv, Batch
  <2> QED BY <2>2, <2>5, <2>6 DEF NamesCurrentPlan
<1> QED
  BY <1>1, ServiceInvariant, PTL DEF Spec, RetryRefusedOnlyAfterNewVersion

-----------------------------------------------------------------------------
(* The readers *)

\* A reader that no operation has overlapped has the stored batch still.  The
\* plan of the batch it has read stays, for plans are only added.
ReadInv ==
    /\ reading \in [Reader -> Reading]
    /\ \A r \in Reader :
          reading[r].step = "fetched" =>
              /\ reading[r].batch.plan \in 0..Len(plans)
              /\ reading[r].asked = "ReleaseReport" =>
                     reading[r].batch.status = "sealed"
    /\ \A r \in Reader :
          reading[r].step = "fetched" /\ ~reading[r].overlapped =>
              mutex = Nobody /\ reading[r].batch = batch
    /\ TornViewOverlapped
    /\ FailedCheckOverlapped

LEMMA ReadInit == Init => ReadInv
BY DEF Init, ReadInv, Reading, TornViewOverlapped, FailedCheckOverlapped

\* What a reader has after a step of its own, by its kind.
LEMMA ReadingCases ==
    ASSUME NEW x \in Reading
    PROVE  /\ x.step = "fetched" =>
                 x \in [step : {"fetched"}, asked : Question, batch : Batch,
                        overlapped : BOOLEAN]
           /\ x.step = "view" =>
                 x \in [step : {"view"}, batch : Batch, overlapped : BOOLEAN,
                        decision : {"none", "pending", "approved", "rejected"}]
BY DEF Reading

\* A reader is overtaken by an operation, or reads what agrees and verifies.
LEMMA ReadStep ==
    ServiceInv /\ LogInv /\ ReadInv /\ [Next]_vars => ReadInv'
<1> SUFFICES ASSUME ServiceInv, LogInv, ReadInv, [Next]_vars
             PROVE  ReadInv'
  OBVIOUS
<1> USE DEF ServiceInv
<1> \A n : Spoiled(n) => Spoiled(n)'
  BY AnswersStay
<1>1. batch \in Batch
  BY DEF PutInv
<1>2. ASSUME UNCHANGED <<batch, reading>>,
             Len(plans) \in Nat, Len(plans') \in Nat, Len(plans') >= Len(plans),
             mutex = Nobody => mutex' = Nobody
      PROVE  ReadInv'
  <2>1. \A n \in 0..Len(plans) : n \in 0..Len(plans')
    BY <1>2
  <2>2. TornViewOverlapped'
    BY <1>2 DEF ReadInv, TornViewOverlapped, Agree
  <2> QED BY <1>2, <2>1, <2>2 DEF ReadInv, FailedCheckOverlapped
<1>3. ASSUME NEW c \in Call, Arrive(c) \/ CheckVersion(c) PROVE ReadInv'
  <2>1. UNCHANGED <<batch, plans, reading>> /\ Len(plans) \in Nat
    BY <1>3 DEF Arrive, CheckVersion, service, PutInv
  <2> QED BY <1>2, <1>3, <2>1, CallSteps
<1>4. ASSUME NEW c \in Call,
             \/ Replay(c) \/ RefuseBody(c) \/ RejectWithoutReason(c)
             \/ AppendEvent(c) \/ Announce(c) \/ Save(c)
      PROVE  ReadInv'
  <2>1. /\ UNCHANGED <<batch, reading>>
        /\ Len(plans) \in Nat /\ Len(plans') = Len(plans)
    <3>1. CASE RejectWithoutReason(c)
      <4>1. Len(plans') = Len(plans) /\ UNCHANGED batch
        BY <3>1, SpoilingCases
      <4>2. UNCHANGED reading
        BY <3>1 DEF RejectWithoutReason
      <4> QED BY <4>1, <4>2 DEF PutInv
    <3>2. CASE ~RejectWithoutReason(c)
      BY <1>4, <3>2
         DEF Replay, RefuseBody, AppendEvent, Announce, Save, PutInv
    <3> QED BY <3>1, <3>2
  <2>2. mutex # Nobody
    BY <1>4, CallSteps, NobodyAssumption
  <2> QED BY <1>2, <2>1, <2>2
<1>5. ASSUME NEW c \in Call, Body(c) \/ Put(c) PROVE ReadInv'
  <2>1. mutex # Nobody /\ reading' = reading
    BY <1>5, CallSteps, NobodyAssumption DEF Body, Put
  <2>2. /\ Len(plans) \in Nat /\ Len(plans') \in Nat
        /\ Len(plans') >= Len(plans)
    BY <1>5, PutBody DEF PutInv, Put
  <2>3. \A n \in 0..Len(plans) : n \in 0..Len(plans')
    BY <2>2
  <2>4. TornViewOverlapped'
    BY <2>1 DEF ReadInv, TornViewOverlapped, Agree
  <2> QED BY <2>1, <2>3, <2>4 DEF ReadInv, FailedCheckOverlapped
<1>6. ASSUME NEW c \in Call, Enter(c) PROVE ReadInv'
  <2>1. reading' = [r \in Reader |-> IF reading[r].step = "fetched"
                                     THEN [reading[r] EXCEPT !.overlapped = TRUE]
                                     ELSE reading[r]]
    BY <1>6 DEF Enter, Overlap
  <2>2. ASSUME NEW r \in Reader, reading[r].step = "fetched"
        PROVE  /\ reading'[r] \in Reading
               /\ reading'[r].step = "fetched" /\ reading'[r].overlapped
    <3>1. reading[r] \in [step : {"fetched"}, asked : Question, batch : Batch,
                          overlapped : BOOLEAN]
      BY <2>2, ReadingCases DEF ReadInv
    <3>2. reading'[r] = [reading[r] EXCEPT !.overlapped = TRUE]
      BY <2>1, <2>2
    <3>3. /\ reading'[r] \in [step : {"fetched"}, asked : Question, batch : Batch,
                              overlapped : BOOLEAN]
          /\ reading'[r].step = "fetched" /\ reading'[r].overlapped
      BY <3>1, <3>2
    <3> QED BY <3>3 DEF Reading
  <2>3. ASSUME NEW r \in Reader, reading[r].step # "fetched"
        PROVE  reading'[r] = reading[r]
    BY <2>1, <2>3
  <2>4. reading' \in [Reader -> Reading]
    BY <2>1, <2>2, <2>3 DEF ReadInv
  <2>5. /\ plans' = plans
        /\ \A r \in Reader :
              reading'[r].step = "fetched" =>
                  /\ reading[r].step = "fetched"
                  /\ reading'[r].batch = reading[r].batch
                  /\ reading'[r].asked = reading[r].asked
    BY <1>6, <2>1, <2>3, ReadingCases DEF Enter, ReadInv
  <2>6. TornViewOverlapped'
    BY <2>2, <2>3 DEF ReadInv, TornViewOverlapped, Agree
  <2> QED
    BY <2>2, <2>3, <2>4, <2>5, <2>6 DEF ReadInv, FailedCheckOverlapped
<1>7. ASSUME NEW r \in Reader, NEW x \in Reading,
             reading' = [reading EXCEPT ![r] = x],
             UNCHANGED <<service, calls>>,
             x.step = "fetched" => x.batch = batch,
             x.step = "fetched" /\ x.asked = "ReleaseReport" =>
                 batch.status = "sealed",
             x.step = "fetched" /\ ~x.overlapped => mutex = Nobody,
             x.step = "view" /\ ~x.overlapped =>
                 Agree(x.batch.status, x.batch.plan, x.decision),
             x.step = "verdict" /\ ~x.overlapped => x.verified
      PROVE  ReadInv'
  <2>1. /\ reading' \in [Reader -> Reading] /\ reading'[r] = x
        /\ \A q \in Reader : q # r => reading'[q] = reading[q]
    BY <1>7 DEF ReadInv
  <2>2. UNCHANGED <<batch, plans, mutex>> /\ batch.plan \in 0..Len(plans)
    BY <1>7 DEF service, PutInv
  <2>3. TornViewOverlapped'
    <3> SUFFICES ASSUME NEW q \in Reader,
                        reading'[q].step = "view", ~reading'[q].overlapped
                 PROVE  Agree(reading[q].batch.status, reading[q].batch.plan,
                              reading[q].decision)'
      BY DEF TornViewOverlapped
    <3>1. CASE q = r
      BY <1>1, <1>7, <2>1, <3>1 DEF Agree
    <3>2. CASE q # r
      BY <2>1, <3>2 DEF ReadInv, TornViewOverlapped, Agree
    <3> QED BY <3>1, <3>2
  <2> QED BY <1>7, <2>1, <2>2, <2>3 DEF ReadInv, FailedCheckOverlapped
<1>8. ASSUME NEW r \in Reader, NEW question \in Question, Fetch(r, question)
      PROVE  ReadInv'
  <2> DEFINE x == [step |-> "fetched", asked |-> question, batch |-> batch,
                   overlapped |-> mutex # Nobody]
  <2>1. x \in Reading
    BY <1>1 DEF Reading
  <2>2. /\ reading' = [reading EXCEPT ![r] = x] /\ UNCHANGED <<service, calls>>
        /\ question = "ReleaseReport" => batch.status = "sealed"
    BY <1>8 DEF Fetch
  <2> QED BY <1>7, <2>1, <2>2
<1>9. ASSUME NEW r \in Reader, Encode(r) PROVE ReadInv'
  <2>1. reading[r] \in [step : {"fetched"}, asked : Question, batch : Batch,
                        overlapped : BOOLEAN]
    BY <1>9, ReadingCases DEF ReadInv, Encode, Asks
  <2> DEFINE b == reading[r].batch
             x == [step |-> "view", batch |-> b,
                   overlapped |-> reading[r].overlapped,
                   decision |-> DecisionOf(b.plan, plans)]
  <2>2. reading' = [reading EXCEPT ![r] = x] /\ UNCHANGED <<service, calls>>
    BY <1>9 DEF Encode, DecisionOf
  <2>3. DecisionOf(b.plan, plans) \in {"none", "pending", "approved", "rejected"}
    <3>1. b.plan \in 0..Len(plans) /\ plans \in Seq(Plan)
      BY <1>9 DEF ReadInv, PutInv, Encode, Asks
    <3>2. b.plan # 0 => plans[b.plan] \in Plan
      BY <3>1
    <3> QED BY <3>2 DEF DecisionOf, Plan
  <2>4. x \in Reading
    BY <2>1, <2>3 DEF Reading
  <2>5. ~x.overlapped => Agree(x.batch.status, x.batch.plan, x.decision)
    BY <2>1, NobodyAssumption DEF ReadInv, PutInv, HolderInv, Inside
  <2> QED BY <1>7, <2>2, <2>4, <2>5
<1>10. ASSUME NEW r \in Reader, Precheck(r) \/ Report(r) PROVE ReadInv'
  <2>1. reading[r] \in [step : {"fetched"}, asked : Question, batch : Batch,
                        overlapped : BOOLEAN]
    BY <1>10, ReadingCases DEF ReadInv, Precheck, Report, Asks
  <2> DEFINE b == reading[r].batch
  <2>2. PICK v : /\ Verdict(r, v)
                 /\ \/ v = VerifyChainSummary(b.revision)
                    \/ /\ reading[r].asked = "ReleaseReport"
                       /\ v = (b.digest = b.revision /\ VerifyChain(b.revision))
    BY <1>10 DEF Precheck, Report, Asks
  <2> DEFINE x == [step |-> "verdict", verified |-> v,
                   overlapped |-> reading[r].overlapped]
  <2>3. v \in BOOLEAN
    BY <2>2 DEF VerifyChainSummary, VerifyChain
  <2>4. x \in Reading
    BY <2>1, <2>3 DEF Reading
  <2>5. ASSUME ~x.overlapped PROVE x.verified
    <3>1. reading[r].step = "fetched" /\ ~reading[r].overlapped
      BY <1>10, <2>5 DEF Precheck, Report, Asks
    <3>2. mutex = Nobody /\ b = batch
      BY <3>1 DEF ReadInv
    <3>3. VerifyChainSummary(b.revision) /\ VerifyChain(b.revision)
      BY <3>2, QuietChainVerifies
    <3>4. reading[r].asked = "ReleaseReport" => b.digest = b.revision
      BY <3>1, <3>2 DEF ReadInv, PutInv
    <3> QED BY <2>2, <3>3, <3>4
  <2>6. reading' = [reading EXCEPT ![r] = x] /\ UNCHANGED <<service, calls>>
    BY <2>2 DEF Verdict
  <2> QED BY <1>7, <2>4, <2>5, <2>6
<1>11. CASE UNCHANGED vars
  BY <1>2, <1>11 DEF vars, service
<1> QED
  BY <1>3, <1>4, <1>5, <1>6, <1>8, <1>9, <1>10, <1>11
     DEF Next, Proceed, Finish

\* All of it holds in every state.
LEMMA ReadInvariant == Spec => [](ServiceInv /\ LogInv /\ ReadInv)
<1>1. ServiceInv => HolderInv /\ PutInv
  BY DEF ServiceInv
<1> QED BY <1>1, ServiceInvariant, LogInit, LogStep, ReadInit, ReadStep, PTL
        DEF Spec

\* Only an operation under way tears a view of the batch and its plan.
THEOREM OnlyOverlapTearsViews == Spec => []TornViewOverlapped
<1>1. ReadInv => TornViewOverlapped
  BY DEF ReadInv
<1> QED BY <1>1, ReadInvariant, PTL

\* Only an operation under way makes the verification of the chain fail.
THEOREM OnlyOverlapFailsChecks == Spec => []FailedCheckOverlapped
<1>1. ReadInv => FailedCheckOverlapped
  BY DEF ReadInv
<1> QED BY <1>1, ReadInvariant, PTL

-----------------------------------------------------------------------------
(* The refinement of AtomicService *)

\* Of the calls at most the holder of the mutex is under way.
LEMMA NobodyElseUnderway ==
    ASSUME HolderInv, NEW c \in Call, pc[c] \in Inside
    PROVE  /\ Underway \subseteq {c}
           /\ c \in Underway <=> pc[c] # "body"
           /\ (\E d \in Call : pc[d] = "put") <=> pc[c] = "put"
BY DEF HolderInv, Inside, Underway

\* The steps with nothing to show for them.
LEMMA Unmoved ==
    ASSUME UNCHANGED <<batch, plans, staged, record, answer>>,
           \A d \in Call : /\ pc'[d] = "put" <=> pc[d] = "put"
                           /\ d \in Underway' <=> d \in Underway
    PROVE  UNCHANGED Atomic!vars
<1>1. Current' = Current
  BY DEF Current
<1>2. Underway' = Underway
  BY DEF Underway
<1> QED BY <1>1, <1>2 DEF Atomic!vars

\* While the first write of an operation is being made, the whole of it is.
LEMMA BodyIsOperation ==
    ASSUME ServiceInv, NEW c \in Call, Body(c)
    PROVE  Atomic!Next
<1>1. /\ pc[c] = "body" /\ mutex = c
      /\ pc' = [pc EXCEPT ![c] = "put"]
      /\ request[c].id \notin record
      /\ UNCHANGED <<batch, record, answer>>
  BY CallSteps DEF ServiceInv, Body
<1>2. Underway = {} /\ Current = batch
  BY <1>1, NobodyElseUnderway DEF ServiceInv, Inside, Current
<1>3. Underway' = {c} /\ \E d \in Call : pc'[d] = "put"
  <2>1. pc'[c] = "put" /\ \A d \in Call \ {c} : pc'[d] = pc[d]
    BY <1>1 DEF ServiceInv, HolderInv
  <2> QED BY <1>2, <2>1 DEF Underway
<1>4. /\ staged' = [revision |-> batch.revision, status |-> staged'.status,
                    plan |-> staged'.plan, digest |-> staged'.digest]
      /\ Current' = [revision |-> batch.revision + 1,
                     status |-> staged'.status, plan |-> staged'.plan,
                     digest |-> staged'.digest]
  <2>1. staged' = [revision |-> batch.revision, status |-> staged'.status,
                   plan |-> staged'.plan, digest |-> staged'.digest]
    BY DEF Body
  <2>2. Current' = [staged' EXCEPT !.revision = batch.revision + 1]
    BY <1>1, <1>3 DEF Current
  <2> QED BY <2>1, <2>2
<1>5. answer[c] = "none"
  BY <1>1 DEF ServiceInv, AnswerInv
<1>6. ASSUME NEW op, request[c].op = op, batch.status = Atomic!StatusFor(op)
      PROVE  Atomic!Operate(c, op)
  <2>1. request[c].expected = batch.revision
    BY BodyCases
  <2> QED
    BY <1>1, <1>2, <1>3, <1>5, <1>6, <2>1 DEF Atomic!Operate, Atomic!Open
<1>7. Agree(batch.status, batch.plan, DecisionOf(batch.plan, plans))
  BY <1>1, CallSteps DEF ServiceInv, PutInv, HolderInv, Inside
<1>8. /\ plans \in Seq(Plan) /\ batch.plan \in 0..Len(plans)
      /\ Len(plans) \in Nat /\ DOMAIN plans = 1..Len(plans)
  BY DEF ServiceInv, PutInv
<1>9. batch.status \notin {"awaiting_plan"} =>
          /\ batch.plan \in DOMAIN plans
          /\ batch.status = "plan_pending" => Atomic!StillOpen(plans[batch.plan])
          /\ batch.status \in {"thawing", "review"} =>
                 plans[batch.plan].decision = "approved"
  <2>1. batch.status # "awaiting_plan" =>
          /\ batch.plan \in DOMAIN plans
          /\ batch.status = "plan_pending" =>
                 plans[batch.plan].decision \in {"pending", "rejected"}
          /\ batch.status \in {"thawing", "review"} =>
                 plans[batch.plan].decision = "approved"
    BY <1>7, <1>8 DEF Agree, DecisionOf
  <2>2. /\ batch.status = "plan_pending" /\ batch.plan # 0
        /\ plans[batch.plan].decision = "rejected"
        => answer[plans[batch.plan].by] = "refused"
    BY <1>1 DEF ServiceInv, PutInv, HolderInv, Inside, DecisionOf
  <2> QED BY <1>8, <2>1, <2>2 DEF Atomic!StillOpen
<1>10. request[c].op \in Decision => request[c].version = batch.plan
  BY <1>1, BodyCases DEF ServiceInv, DecisionInv
<1>11. /\ request[c].op \in Op
       /\ batch.status = StatusBefore(request[c].op)
       /\ plans' = PlansAfter(c)
       /\ staged'.status = StatusAfter(request[c].op)
       /\ staged'.plan = IF request[c].op = "CreatePlan"
                         THEN Len(plans) + 1 ELSE batch.plan
       /\ staged'.digest = IF request[c].op = "Review"
                           THEN request[c].expected + 1 ELSE batch.digest
  BY RequestAssumption DEF RequestShape, Body, Accepted, NewVersion
<1>12. CASE request[c].op = "CreatePlan"
  <2>1. batch.status = "awaiting_plan" /\ staged'.status = "plan_pending"
        /\ plans' = Append(plans, [decision |-> "pending", by |-> Nobody])
        /\ staged'.plan = Len(plans) + 1
    BY <1>11, <1>12 DEF StatusBefore, StatusAfter, PlansAfter, Decision
  <2>2. Atomic!Operate(c, "CreatePlan")
    BY <1>6, <1>12, <2>1 DEF Atomic!StatusFor
  <2>3. Atomic!CreatePlan(c)
    BY <1>2, <1>4, <1>11, <1>12, <2>1, <2>2
       DEF Atomic!CreatePlan, Atomic!Move, Atomic!Undecided
  <2> QED BY <2>3 DEF Atomic!Next
<1>13. CASE request[c].op = "Approve"
  <2>1. batch.status = "plan_pending" /\ staged'.status = "thawing"
        /\ plans' = [plans EXCEPT ![batch.plan] = [decision |-> "approved", by |-> c]]
        /\ staged'.plan = batch.plan
    BY <1>11, <1>13 DEF StatusBefore, StatusAfter, PlansAfter, Decision
  <2>2. Atomic!Operate(c, "Approve")
    BY <1>6, <1>13, <2>1 DEF Atomic!StatusFor
  <2>3. Atomic!Approve(c)
    BY <1>2, <1>4, <1>9, <1>10, <1>11, <1>13, <2>1, <2>2
       DEF Atomic!Approve, Atomic!Move, Atomic!Decide, Decision
  <2> QED BY <2>3 DEF Atomic!Next
<1>14. CASE request[c].op = "Reject"
  <2>1. batch.status = "plan_pending" /\ staged'.status = "awaiting_plan"
        /\ plans' = [plans EXCEPT ![batch.plan] = [decision |-> "rejected", by |-> c]]
        /\ staged'.plan = batch.plan
    BY <1>11, <1>14 DEF StatusBefore, StatusAfter, PlansAfter, Decision
  <2>2. Atomic!Operate(c, "Reject")
    BY <1>6, <1>14, <2>1 DEF Atomic!StatusFor
  <2>3. request[c].reason
    BY <1>14, BodyCases DEF Decision
  <2>4. Atomic!Reject(c)
    BY <1>2, <1>4, <1>9, <1>10, <1>11, <1>14, <2>1, <2>2, <2>3
       DEF Atomic!Reject, Atomic!Move, Atomic!Decide, Decision
  <2> QED BY <2>4 DEF Atomic!Next
<1>15. CASE request[c].op = "AddObservation"
  <2>1. batch.status = "thawing" /\ staged'.status = "review"
        /\ plans' = plans /\ staged'.plan = batch.plan
    BY <1>11, <1>15 DEF StatusBefore, StatusAfter, PlansAfter, Decision
  <2>2. Atomic!Operate(c, "AddObservation")
    BY <1>6, <1>15, <2>1 DEF Atomic!StatusFor
  <2>3. Atomic!AddObservation(c)
    BY <1>2, <1>4, <1>9, <1>11, <1>15, <2>1, <2>2
       DEF Atomic!AddObservation, Atomic!Execute, Atomic!Move
  <2> QED BY <2>3 DEF Atomic!Next
<1>16. CASE request[c].op = "Review"
  <2>1. batch.status = "review" /\ staged'.status = "sealed"
        /\ plans' = plans /\ staged'.plan = batch.plan
    BY <1>11, <1>16 DEF StatusBefore, StatusAfter, PlansAfter, Decision
  <2>2. Atomic!Operate(c, "Review")
    BY <1>6, <1>16, <2>1 DEF Atomic!StatusFor
  <2>3. Atomic!Review(c)
    BY <1>2, <1>4, <1>9, <1>11, <1>16, <2>1, <2>2, BodyCases
       DEF Atomic!Review, Atomic!Execute, Atomic!Move
  <2> QED BY <2>3 DEF Atomic!Next
<1> QED BY <1>11, <1>12, <1>13, <1>14, <1>15, <1>16 DEF Op

\* An answer changes nothing but itself.
LEMMA OnlyAnswered ==
    ASSUME ServiceInv, NEW c \in Call, pc[c] \in {"check", "body"},
           NEW a \in {"replayed", "conflict", "refused"},
           Answer(c, a), UNCHANGED <<batch, plans, staged, record>>
    PROVE  Atomic!Answer(c, a) /\ Atomic!Open(c)
<1>1. answer[c] = "none" /\ answer' = [answer EXCEPT ![c] = a]
  BY DEF ServiceInv, AnswerInv, Answer
<1>2. pc'[c] = "done" /\ \A d \in Call \ {c} : pc'[d] = pc[d]
  BY DEF Answer, GoTo, ServiceInv, HolderInv
<1>3. Underway' = Underway /\ c \notin Underway
  BY <1>2 DEF Underway
<1>4. Current' = Current
  BY <1>2 DEF Current
<1>5. {d \in Call : answer'[d] = "ok"} = {d \in Call : answer[d] = "ok"}
  BY <1>1 DEF ServiceInv, AnswerInv
<1> QED
  BY <1>1, <1>3, <1>4, <1>5 DEF Atomic!Answer, Atomic!Open

\* The refused rejection is one step, in which the plan changes.
LEMMA SpoilingIsOperation ==
    ASSUME ServiceInv, NEW c \in Call, RejectWithoutReason(c)
    PROVE  Atomic!Next
<1>1. /\ pc[c] = "body" /\ mutex = c
      /\ WithoutReason(c) /\ Expected(c) /\ request[c].id \notin record
      /\ batch.status = "plan_pending"
      /\ batch.plan \in 1..Len(plans) /\ request[c].version = batch.plan
      /\ plans' = [plans EXCEPT ![batch.plan] =
                     [decision |-> "rejected", by |-> c]]
      /\ UNCHANGED <<batch, staged, record>>
      /\ Answer(c, "refused")
  BY SpoilingCases DEF ServiceInv
<1>2. answer[c] = "none" /\ answer' = [answer EXCEPT ![c] = "refused"]
  BY <1>1 DEF ServiceInv, AnswerInv, Answer
<1>3. pc'[c] = "done" /\ \A d \in Call \ {c} : pc'[d] = pc[d]
  BY <1>1 DEF Answer, GoTo, ServiceInv, HolderInv
<1>4. Underway = {} /\ Current = batch
  BY <1>1, NobodyElseUnderway DEF ServiceInv, Inside, Current
<1>5. Underway' = {} /\ Current' = batch
  BY <1>1, <1>3, <1>4 DEF Underway, Current, ServiceInv, HolderInv, Inside
<1>6. {d \in Call : answer'[d] = "ok"} = {d \in Call : answer[d] = "ok"}
  BY <1>2 DEF ServiceInv, AnswerInv
<1>7. Atomic!StillOpen(plans[batch.plan]) /\ batch.plan \in DOMAIN plans
  <2>1. /\ Agree(batch.status, batch.plan, DecisionOf(batch.plan, plans))
        /\ DecisionOf(batch.plan, plans) = "rejected" =>
               answer[plans[batch.plan].by] = "refused"
    BY <1>1 DEF ServiceInv, PutInv, HolderInv, Inside
  <2>2. plans \in Seq(Plan)
    BY DEF ServiceInv, PutInv
  <2> QED BY <1>1, <2>1, <2>2 DEF Agree, DecisionOf, Atomic!StillOpen
<1>8. Atomic!Open(c)
  BY <1>2, <1>4 DEF Atomic!Open
<1>9. Atomic!RejectWithoutReason(c)
  BY <1>1, <1>2, <1>4, <1>5, <1>6, <1>7, <1>8
     DEF Atomic!RejectWithoutReason, Atomic!Decide, WithoutReason, Expected
<1> QED BY <1>9 DEF Atomic!Next

\* Each step is an operation, an answer, or none of the clients' business.
LEMMA AtomicStep == ServiceInv /\ [Next]_vars => [Atomic!Next]_(Atomic!vars)
<1> SUFFICES ASSUME ServiceInv, [Next]_vars
             PROVE  Atomic!Next \/ UNCHANGED Atomic!vars
  OBVIOUS
<1>1. \A c \in Call : request[c] \in RequestShape
  BY RequestAssumption
<1>2. batch.revision \in Nat
  BY DEF ServiceInv, PutInv, Batch
<1>3. ASSUME NEW c \in Call, Arrive(c) \/ Enter(c) PROVE UNCHANGED Atomic!vars
  <2>1. UNCHANGED <<batch, plans, staged, record, answer>>
    BY <1>3 DEF Arrive, Enter, service
  <2> QED
    BY <1>3, <2>1, CallSteps, Unmoved DEF ServiceInv, HolderInv, Underway
<1>4. ASSUME NEW c \in Call, AppendEvent(c) \/ Announce(c)
      PROVE  UNCHANGED Atomic!vars
  <2>1. UNCHANGED <<batch, plans, staged, record, answer>>
    BY <1>4 DEF AppendEvent, Announce
  <2> QED
    BY <1>4, <2>1, CallSteps, Unmoved DEF ServiceInv, HolderInv, Underway
<1>5. ASSUME NEW c \in Call, CheckVersion(c)
      PROVE  Atomic!Next \/ UNCHANGED Atomic!vars
  <2>1. pc[c] = "check" /\ UNCHANGED <<batch, plans, staged, record>>
    BY <1>5 DEF CheckVersion, service
  <2>2. CASE NamesCurrentPlan(c)
    <3>1. pc' = [pc EXCEPT ![c] = "enter"] /\ answer' = answer
      BY <1>5, <2>2 DEF CheckVersion, GoTo
    <3> QED
      BY <2>1, <3>1, Unmoved DEF ServiceInv, HolderInv, Underway
  <2>3. CASE ~NamesCurrentPlan(c)
    <3>1. Answer(c, "conflict")
      BY <1>5, <2>3 DEF CheckVersion
    <3>2. Atomic!Answer(c, "conflict") /\ Atomic!Open(c)
      BY <2>1, <3>1, OnlyAnswered
    <3>3. /\ request[c].op \in Decision /\ request[c].expected <= batch.revision
          /\ request[c].expected \in Nat
      BY <1>1, <2>1 DEF ServiceInv, DecisionInv, RequestShape
    <3>4. \/ request[c].expected # Current.revision
          \/ Current.plan = 0 \/ request[c].version # Current.plan
      <4>1. CASE \E d \in Call : pc[d] = "put"
        <5>1. Current.revision = batch.revision + 1
          BY <4>1 DEF Current, ServiceInv, PutInv, Batch
        <5> QED BY <1>2, <3>3, <5>1
      <4>2. CASE ~ \E d \in Call : pc[d] = "put"
        <5>1. Current = batch
          BY <4>2 DEF Current
        <5> QED BY <2>3, <5>1 DEF NamesCurrentPlan
      <4> QED BY <4>1, <4>2
    <3>5. Atomic!Conflict(c)
      BY <3>2, <3>3, <3>4 DEF Atomic!Conflict, Decision
    <3> QED BY <3>5 DEF Atomic!Next
  <2> QED BY <2>2, <2>3
<1>6. ASSUME NEW c \in Call, Replay(c) PROVE Atomic!Next
  <2>1. /\ pc[c] = "body" /\ request[c].id \in record
        /\ Answer(c, "replayed") /\ UNCHANGED <<batch, plans, staged, record>>
    BY <1>6 DEF Replay, Refuse
  <2>2. Atomic!Answer(c, "replayed") /\ Atomic!Open(c)
    BY <2>1, OnlyAnswered
  <2>3. Atomic!Replay(c)
    BY <2>1, <2>2 DEF Atomic!Replay
  <2> QED BY <2>3 DEF Atomic!Next
<1>7. ASSUME NEW c \in Call, RefuseBody(c) PROVE Atomic!Next
  <2>1. /\ pc[c] = "body" /\ ~Accepted(c)
        /\ Answer(c, IF Expected(c) THEN "refused" ELSE "conflict")
        /\ UNCHANGED <<batch, plans, staged, record>>
    BY <1>7 DEF RefuseBody, Refuse
  <2>2. Current = batch
    BY <2>1, NobodyElseUnderway DEF ServiceInv, Inside, Current
  <2>3. CASE Expected(c)
    <3>1. Answer(c, "refused")
      BY <2>1, <2>3
    <3>2. Atomic!Answer(c, "refused") /\ Atomic!Open(c)
      BY <2>1, <3>1, OnlyAnswered
    <3>3. request[c].expected = batch.revision
      BY <2>3 DEF Expected
    <3>4. batch.status # Atomic!StatusFor(request[c].op)
      BY <1>1, <2>1, <2>3
         DEF Accepted, StatusBefore, Atomic!StatusFor, Decision, RequestShape, Op
    <3>5. Atomic!Refuse(c)
      BY <2>2, <3>2, <3>3, <3>4 DEF Atomic!Refuse
    <3> QED BY <3>5 DEF Atomic!Next
  <2>4. CASE ~Expected(c)
    <3>1. Answer(c, "conflict")
      BY <2>1, <2>4
    <3>2. Atomic!Answer(c, "conflict") /\ Atomic!Open(c)
      BY <2>1, <3>1, OnlyAnswered
    <3>3. Atomic!Conflict(c)
      BY <2>2, <2>4, <3>2 DEF Atomic!Conflict, Expected
    <3> QED BY <3>3 DEF Atomic!Next
  <2> QED BY <2>3, <2>4
<1>8. ASSUME NEW c \in Call, Put(c) PROVE UNCHANGED Atomic!vars
  <2>1. /\ pc[c] = "put" /\ pc' = [pc EXCEPT ![c] = "append"]
        /\ batch' = [staged EXCEPT !.revision = batch.revision + 1]
        /\ UNCHANGED <<plans, record, answer>>
    BY <1>8, CallSteps DEF Put, ServiceInv
  <2>2. pc'[c] = "append" /\ \A d \in Call \ {c} : pc'[d] = pc[d] /\ pc[d] # "put"
    BY <2>1 DEF ServiceInv, HolderInv, Inside
  <2>3. Current' = Current
    BY <2>1, <2>2 DEF Current
  <2>4. Underway' = Underway
    BY <2>1, <2>2 DEF Underway
  <2> QED BY <2>1, <2>3, <2>4 DEF Atomic!vars
<1>9. ASSUME NEW c \in Call, Save(c) PROVE Atomic!Next
  <2>1. /\ pc[c] = "save" /\ pc' = [pc EXCEPT ![c] = "done"]
        /\ answer' = [answer EXCEPT ![c] = "ok"]
        /\ record' = record \cup {request[c].id}
        /\ UNCHANGED <<batch, plans, staged>>
    BY <1>9 DEF Save, Answer, GoTo
  <2>2. pc'[c] = "done" /\ \A d \in Call \ {c} : pc'[d] = pc[d]
    BY <2>1 DEF ServiceInv, HolderInv
  <2>3. Current' = Current
    BY <2>1, <2>2 DEF Current
  <2>4. Underway = {c} /\ Underway' = {}
    BY <2>1, <2>2, NobodyElseUnderway DEF ServiceInv, Inside, Underway
  <2>5. answer[c] = "none" /\ answer'[c] = "ok"
        /\ \A d \in Call \ {c} : answer'[d] = answer[d]
    BY <2>1 DEF ServiceInv, AnswerInv
  <2>6. /\ Underway' \cup {d \in Call : answer'[d] = "ok"}
             = Underway \cup {d \in Call : answer[d] = "ok"}
        /\ record' \cup {request[d].id : d \in Underway'}
             = record \cup {request[d].id : d \in Underway}
    BY <2>1, <2>4, <2>5
  <2>7. Atomic!Acknowledge(c)
    BY <2>1, <2>3, <2>4, <2>5, <2>6 DEF Atomic!Acknowledge, Atomic!Answer
  <2> QED BY <2>7 DEF Atomic!Next
<1>10. CASE UNCHANGED <<service, calls>>
  BY <1>10, Unmoved DEF service, calls, Underway
<1> QED
  BY <1>3, <1>4, <1>5, <1>6, <1>7, <1>8, <1>9, <1>10, BodyIsOperation,
     SpoilingIsOperation, ReaderSteps
     DEF Next, Proceed, vars

\* The steps under the mutex, and the comparison before it, amount to atomic
\* operations.
THEOREM AtomicServiceImplemented == Spec => ImplementsAtomicService
<1>1. Init => Atomic!Init
  <2> SUFFICES ASSUME Init PROVE Atomic!Init
    OBVIOUS
  <2>1. Underway = {} /\ Current = Registered
    BY DEF Init, Underway, Current
  <2>2. {c \in Call : answer[c] = "ok"} = {}
    BY DEF Init
  <2> QED BY <2>1, <2>2 DEF Init, Atomic!Init
<1>2. ServiceInv /\ [Next]_vars => [Atomic!Next]_(Atomic!vars)
  BY AtomicStep
<1> QED
  BY <1>1, <1>2, ServiceInvariant, PTL DEF Spec, ImplementsAtomicService, Atomic!Spec

\* Every variable keeps its type, and a batch never points past its plans.
THEOREM TypeCorrect == Spec => []TypeOK
<1>1. /\ HolderInv /\ PutInv /\ DecisionInv /\ LogInv /\ ReadInv
      /\ AnswerInv
      => TypeOK
  BY DEF TypeOK, HolderInv, PutInv, DecisionInv, LogInv, ReadInv, AnswerInv
<1>2. ServiceInv => HolderInv /\ PutInv /\ DecisionInv /\ AnswerInv
  BY DEF ServiceInv
<1> QED BY <1>1, <1>2, ServiceInvariant, ReadInvariant, PTL

=============================================================================
