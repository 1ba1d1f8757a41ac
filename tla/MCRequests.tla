----------------------------- MODULE MCRequests -----------------------------
(***************************************************************************)
(* An instance of Requests for TLC: two clients decide on the first plan.  *)
(* The one who rejects it sends the request twice under its id, once       *)
(* without a reason; the plan is revised, or observed and released.        *)
(***************************************************************************)
EXTENDS Requests, TLC

CONSTANTS plan1, approve1, reject1, unsaid1, plan2, observe, seal,
          r1, r2, r3, r4, r5, r6, reader

Req(id, op, version, expected) ==
    [id |-> id, op |-> op, version |-> version, expected |-> expected,
     reason |-> TRUE]

NoReason(req) == [req EXCEPT !.reason = FALSE]

Sent ==
    plan1       :> Req(r1, "CreatePlan", 0, 2)
    @@ approve1 :> Req(r2, "Approve", 1, 3)
    @@ reject1  :> Req(r3, "Reject", 1, 3)
    @@ unsaid1  :> NoReason(Req(r3, "Reject", 1, 3))
    @@ plan2    :> Req(r4, "CreatePlan", 0, 4)
    @@ observe  :> Req(r5, "AddObservation", 0, 4)
    @@ seal     :> Req(r6, "Review", 0, 5)

=============================================================================
