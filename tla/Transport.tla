------------------------------ MODULE Transport ------------------------------
(***************************************************************************)
(* The transport evidence of one batch behind POST .../transport.  The     *)
(* handler reads the batch before it takes the service mutex: without a    *)
(* report it goes on to RegisterTransport, with one it compares the fields *)
(* the client sent with the stored ones and goes on to                     *)
(* ReviewTransportDecision.  Other calls can come in between.  A request   *)
(* that is sent again is a call of its own.                                *)
(*                                                                         *)
(* The two operations are atomic, for they run under the mutex; how they   *)
(* commit is the subject of Durability, what they do to grade and status   *)
(* that of BatchWorkflow.  Here are the totals.                            *)
(***************************************************************************)
EXTENDS TransportSummary

CONSTANTS
    Call,        \* requests on their way through the handler
    RequestId,   \* the values of X-Request-ID
    Deliveries,  \* what clients may send: functions from calls to bodies
    Nobody,      \* no call
    MaxRevision  \* bound: the revision no operation goes beyond

\* The fields the handler compares, if the client sent them.
ComparedFields == EvidenceFields \cup {"exceeded"}

Body ==
    [request : RequestId, expected : Nat, sends : SUBSET ComparedFields,
     report : Report, operator : BOOLEAN, reason : BOOLEAN]

ASSUME NobodyAssumption == Nobody \notin Call

ASSUME DeliveryAssumption == Deliveries \subseteq [Call -> Body]

ASSUME BoundAssumption == MaxRevision \in Nat \ {0}

\* A nil pointer, which has no fields.
NoReport == <<>>

VARIABLES
    transport,  \* the stored report
    revision,   \* of the batch
    status,     \* "open" until a plan is submitted, then "locked", "sealed"
    record,     \* the request ids with a recorded answer
    origin,     \* the call whose report was stored
    sent,       \* what each call sends
    pc,         \* where each call is
    answer      \* what each call was answered

batch == <<transport, revision, status, record, origin>>
vars  == <<batch, sent, pc, answer>>

Answers == {"none", "ok", "replayed", "different", "refused"}

\* Only a registered batch is past its first revision.
TypeOK ==
    /\ transport \in Report \cup {NoReport}
    /\ revision \in 1..MaxRevision
    /\ status \in {"open", "locked", "sealed"}
    /\ record \subseteq RequestId
    /\ origin \in Call \cup {Nobody}
    /\ sent \in [Call -> Body]
    /\ pc \in [Call -> {"idle", "register", "review", "done"}]
    /\ answer \in [Call -> Answers]
    /\ transport = NoReport =>
           revision = 1 /\ status = "open" /\ origin = Nobody

Init ==
    /\ transport = NoReport
    /\ revision = 1
    /\ status = "open"
    /\ record = {}
    /\ origin = Nobody
    /\ sent \in Deliveries
    /\ pc = [c \in Call |-> "idle"]
    /\ answer = [c \in Call |-> "none"]

-----------------------------------------------------------------------------
(* The handler, before the mutex *)

Answer(c, a) ==
    /\ pc' = [pc EXCEPT ![c] = "done"]
    /\ answer' = [answer EXCEPT ![c] = a]

\* The bug of comparing what the service computed as well.
Differs_Derived(b, t) ==
    \E f \in b.sends \cup {"severity"} : b.report[f] # t[f]

\* The bug of forgetting to compare the intervals.
Differs_NotIntervals(b, t) ==
    \E f \in b.sends \ {"intervals"} : b.report[f] # t[f]

\* A field the client sent is not as it is stored.
Differs(b, t) == \E f \in b.sends : b.report[f] # t[f]

\* The comparison comes before the service looks for a recorded answer.
ReadBatch(c) ==
    /\ pc[c] = "idle"
    /\ IF transport # NoReport /\ Differs(sent[c], transport)
       THEN Answer(c, "different")
       ELSE /\ pc' = [pc EXCEPT ![c] = IF transport = NoReport THEN "register"
                                       ELSE "review"]
            /\ UNCHANGED answer
    /\ UNCHANGED <<batch, sent>>

-----------------------------------------------------------------------------
(* The operations of the service, under the mutex *)

Answered(c) == sent[c].request \in record

\* The bug of trusting what the handler read.
Unregistered_Trusted == TRUE

Unregistered == transport = NoReport

\* The note is asked for by what was computed, not by what was claimed.
NoteSupplied(b, t) == t.exceeded => t.note

RegistrationAccepted(c) ==
    LET b == sent[c]
    IN  /\ status # "sealed"
        /\ Unregistered
        /\ revision = b.expected
        /\ Acceptable(b.report)
        /\ NoteSupplied(b, Summarized(b.report))

\* RegisterTransport keeps the totals the client sent and adds to them.
Registered(b) == [Summarized(b.report) EXCEPT !.reviews = 0]

\* The bug of adding to the totals of the registration.
Reset_Forgotten(t) == t

Reset(t) == [t EXCEPT !.low = 0, !.high = 0, !.deviation = 0, !.exposure = 0]

\* ReviewTransportDecision computes the totals anew.
Reviewed(t) == [Summarized(Reset(t)) EXCEPT !.reviews = @ + 1]

ReviewAccepted(c) ==
    LET b == sent[c]
    IN  /\ transport # NoReport
        /\ b.operator
        /\ status # "sealed"
        /\ status = "locked" => b.reason
        /\ revision = b.expected
        /\ Acceptable(transport)
        /\ NoteSupplied(b, Reviewed(transport))

\* A new revision of the batch, with its answer recorded.
Commit(c) ==
    /\ revision < MaxRevision
    /\ revision' = revision + 1
    /\ record' = record \cup {sent[c].request}
    /\ Answer(c, "ok")

\* A recorded request is answered from the record, at whichever operation the
\* handler called; a refused one changes nothing.
Replay(c) ==
    /\ pc[c] \in {"register", "review"}
    /\ Answered(c)
    /\ Answer(c, "replayed")
    /\ UNCHANGED <<batch, sent>>

Refuse(c) ==
    /\ ~Answered(c)
    /\ \/ pc[c] = "register" /\ ~RegistrationAccepted(c)
       \/ pc[c] = "review" /\ ~ReviewAccepted(c)
    /\ Answer(c, "refused")
    /\ UNCHANGED <<batch, sent>>

RegisterTransport(c) ==
    /\ pc[c] = "register"
    /\ ~Answered(c)
    /\ RegistrationAccepted(c)
    /\ transport' = Registered(sent[c])
    /\ origin' = c
    /\ Commit(c)
    /\ UNCHANGED <<status, sent>>

ReviewTransportDecision(c) ==
    /\ pc[c] = "review"
    /\ ~Answered(c)
    /\ ReviewAccepted(c)
    /\ transport' = Reviewed(transport)
    /\ Commit(c)
    /\ UNCHANGED <<status, origin, sent>>

\* The bug of not asking for the transport before the plan.
PlanPossible_Always == TRUE

PlanPossible == transport # NoReport

\* A plan is submitted, rejected, or carried out up to the seal, by the other
\* operations of the service, and a late remediation writes to a sealed batch or
\* takes it back to review: status and revision move, the report does not.
OtherOperation ==
    /\ PlanPossible
    /\ revision < MaxRevision
    /\ revision' = revision + 1
    /\ \/ status = "open" /\ status' = "locked"
       \/ status = "locked" /\ status' \in {"open", "locked", "sealed"}
       \/ status = "sealed" /\ status' \in {"locked", "sealed"}
    /\ UNCHANGED <<transport, record, origin, sent, pc, answer>>

Next ==
    \/ \E c \in Call :
          \/ ReadBatch(c)
          \/ Replay(c) \/ Refuse(c)
          \/ RegisterTransport(c) \/ ReviewTransportDecision(c)
    \/ OtherOperation

Spec == Init /\ [][Next]_vars

-----------------------------------------------------------------------------
(* Properties *)

\* What was measured is registered once and never changes, whichever calls
\* race through the handler and however often the report is reviewed.
EvidenceNeverChanges ==
    [][transport # NoReport =>
          transport' # NoReport /\ EvidenceOf(transport') = EvidenceOf(transport)]_vars

\* The totals the registration kept on top of what was measured.
Claimed ==
    IF transport.reviews = 0 THEN sent[origin].report
    ELSE Reset(sent[origin].report)

\* In every state the totals are those of the intervals, each counted once, on
\* top of what the client claimed until the first review drops it: no sequence
\* of reviews adds an interval twice or loses one.
TotalsMatchIntervals ==
    transport # NoReport /\ transport.intervals # <<>> =>
        LET ints == Range(transport.intervals)
        IN  /\ transport.low
                 = Claimed.low + Cardinality(MinutesBelow(transport, ints))
            /\ transport.high
                 = Claimed.high + Cardinality(MinutesAbove(transport, ints))
            /\ transport.exposure
                 = Claimed.exposure + Cardinality(DegreeMinutes(transport, ints))
            /\ transport.deviation
                 = Max({Claimed.deviation} \cup Excesses(transport, ints))

\* No minute of a stored report is counted twice: any two of its intervals are
\* apart, not only the neighbours SummarizeTransport compares.
IntervalsDisjoint ==
    transport # NoReport =>
        \A i, j \in DOMAIN transport.intervals :
            i # j => \/ transport.intervals[i].end <= transport.intervals[j].start
                     \/ transport.intervals[j].end <= transport.intervals[i].start

\* An excess, claimed or measured, never stands without the note that explains
\* it, so that RiskRules may take the note as evidence.
ExcessIsExplained == transport # NoReport /\ transport.exceeded => transport.note

\* The extremes a report gives for the whole transport reach as far as those of
\* its intervals.
ExtremesCover(t) ==
    \A i \in DOMAIN t.intervals :
        t.min <= t.intervals[i].min /\ t.intervals[i].max <= t.max

\* The severity is that of the worst temperature, provided the extremes cover
\* the intervals, which nothing checks: DeviationSeverity looks at the extremes
\* of the report although the deviation is that of the intervals.
SeverityCoversDeviation ==
    transport # NoReport /\ transport.exceeded /\ ExtremesCover(transport) =>
        \A x \in Excesses(transport, Range(transport.intervals)) :
            /\ x > 10 => transport.severity = "severe"
            /\ x > 3 => transport.severity \in {"moderate", "severe"}

\* Success, by whichever branch and after whichever race, tells the client that
\* what it measured is what is stored.
SuccessAgreesWithEvidence ==
    \A c \in Call : answer[c] \in {"ok", "replayed"} =>
        \A f \in sent[c].sends \cap EvidenceFields :
            transport # NoReport /\ sent[c].report[f] = transport[f]

\* A registration sent again is refused as different only for what the client
\* claimed of the excess, which the service computes itself: the comparison
\* comes before the record is looked up.
RetryDiffersOnlyInClaim ==
    [][\A c \in Call :
          /\ pc[c] = "idle" /\ pc'[c] = "done"
          /\ sent[c] = sent[origin]
          => /\ "exceeded" \in sent[c].sends
             /\ sent[c].report.exceeded # transport.exceeded]_vars

=============================================================================
