--------------------------- MODULE AtomicService ---------------------------
(***************************************************************************)
(* What the service promises to clients that write to one batch at once:   *)
(* as if each operation were one step, in which the revision, the status   *)
(* and the plan version a client named are compared with what is stored,   *)
(* and a call is answered by what some such step did or found.  There is   *)
(* no mutex here, no order of writes and no step outside.  A call that is  *)
(* refused changes nothing, but for a rejection that does not say why: the *)
(* plan is rejected and stays open.  Requests implements all this.         *)
(***************************************************************************)
EXTENDS Naturals, Sequences

CONSTANTS
    Call,      \* requests that write, each sent once
    request,   \* what each call asks for
    Nobody,    \* no call
    Registered \* the batch before the first of them

VARIABLES
    batch,     \* revision, status, version of the current plan, digest
    plans,     \* the plans by version: the decision, and whose it is
    applied,   \* the calls that were carried out
    record,    \* the request ids that are answered without being carried out
    answer     \* what each call was answered

vars == <<batch, plans, applied, record, answer>>

Init ==
    /\ batch = Registered
    /\ plans = <<>>
    /\ applied = {}
    /\ record = {}
    /\ answer = [c \in Call |-> "none"]

-----------------------------------------------------------------------------
(* Operations *)

Open(c) == answer[c] = "none" /\ c \notin applied

Undecided == [decision |-> "pending", by |-> Nobody]

StatusFor(op) ==
    CASE op = "CreatePlan"            -> "awaiting_plan"
      [] op \in {"Approve", "Reject"} -> "plan_pending"
      [] op = "AddObservation"        -> "thawing"
      [] op = "Review"                -> "review"

\* The call finds the batch as its client saw it last, and this is the first
\* time its request is carried out.
Operate(c, op) ==
    /\ Open(c)
    /\ request[c].op = op
    /\ request[c].id \notin record
    /\ request[c].expected = batch.revision
    /\ batch.status = StatusFor(op)
    /\ applied' = applied \cup {c}
    /\ record' = record \cup {request[c].id}
    /\ UNCHANGED answer

\* The digest is taken of the revision that is sealed.
Move(status, plan) ==
    batch' = [revision |-> batch.revision + 1, status |-> status, plan |-> plan,
              digest |-> IF status = "sealed" THEN batch.revision + 1
                         ELSE batch.digest]

CreatePlan(c) ==
    /\ Operate(c, "CreatePlan")
    /\ Move("plan_pending", Len(plans) + 1)
    /\ plans' = Append(plans, Undecided)

\* A rejection that was refused does not count.
StillOpen(plan) ==
    \/ plan.decision = "pending"
    \/ plan.decision = "rejected" /\ answer[plan.by] = "refused"

\* The plan decided on is still open, and the one the client named.
Decide(c, decision) ==
    /\ batch.plan \in DOMAIN plans
    /\ StillOpen(plans[batch.plan])
    /\ request[c].version = batch.plan
    /\ plans' = [plans EXCEPT ![batch.plan] = [decision |-> decision, by |-> c]]

Approve(c) ==
    /\ Operate(c, "Approve")
    /\ Move("thawing", batch.plan)
    /\ Decide(c, "approved")

Reject(c) ==
    /\ request[c].reason
    /\ Operate(c, "Reject")
    /\ Move("awaiting_plan", batch.plan)
    /\ Decide(c, "rejected")

\* What comes after the plan builds on an approval.
Execute(c, op, after) ==
    /\ Operate(c, op)
    /\ batch.plan \in DOMAIN plans
    /\ plans[batch.plan].decision = "approved"
    /\ Move(after, batch.plan)
    /\ UNCHANGED plans

AddObservation(c) == Execute(c, "AddObservation", "review")

Review(c) == Execute(c, "Review", "sealed")

-----------------------------------------------------------------------------
(* Answers *)

Answer(c, a) ==
    /\ answer[c] = "none"
    /\ answer' = [answer EXCEPT ![c] = a]
    /\ UNCHANGED <<batch, plans, applied, record>>

Acknowledge(c) == c \in applied /\ Answer(c, "ok")

\* Another call with this id was carried out.
Replay(c) == Open(c) /\ request[c].id \in record /\ Answer(c, "replayed")

\* The batch or its plan is not the one the client means.
Conflict(c) ==
    /\ Open(c)
    /\ \/ request[c].expected # batch.revision
       \/ /\ request[c].op \in {"Approve", "Reject"}
          /\ batch.plan = 0 \/ request[c].version # batch.plan
    /\ Answer(c, "conflict")

\* It is, but is not in the status for this operation.
Refuse(c) ==
    /\ Open(c)
    /\ request[c].expected = batch.revision
    /\ batch.status # StatusFor(request[c].op)
    /\ Answer(c, "refused")

\* The one refusal that changes something.
RejectWithoutReason(c) ==
    /\ Open(c)
    /\ request[c].op = "Reject" /\ ~request[c].reason
    /\ request[c].id \notin record
    /\ request[c].expected = batch.revision
    /\ batch.status = "plan_pending"
    /\ Decide(c, "rejected")
    /\ answer' = [answer EXCEPT ![c] = "refused"]
    /\ UNCHANGED <<batch, applied, record>>

Next ==
    \E c \in Call :
        \/ CreatePlan(c) \/ Approve(c) \/ Reject(c)
        \/ AddObservation(c) \/ Review(c)
        \/ Acknowledge(c) \/ Replay(c) \/ Conflict(c) \/ Refuse(c)
        \/ RejectWithoutReason(c)

Spec == Init /\ [][Next]_vars

=============================================================================
