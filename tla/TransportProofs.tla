--------------------------- MODULE TransportProofs ---------------------------
(***************************************************************************)
(* Proofs about Transport, for every set of calls, request ids and bodies: *)
(* what was measured stays, whichever calls race through the handler, and  *)
(* the stored totals are those of the measured intervals, however many     *)
(* there are and however often they are reviewed.                          *)
(***************************************************************************)
EXTENDS Transport, TransportSummaryProofs

-----------------------------------------------------------------------------
(* What a summary keeps *)

\* A report, or what the service made of one: the measured fields of r.
Keeps(t, r) ==
    /\ EvidenceFields \cup {"exceeded"} \subseteq DOMAIN t
    /\ \A f \in EvidenceFields : t[f] = r[f]

\* SummarizeTransport writes to the totals, the excess and the severity only.
LEMMA SummaryKeeps ==
    ASSUME NEW t, EvidenceFields \cup {"exceeded"} \subseteq DOMAIN t
    PROVE  Keeps(Summarized(t), t)
<1>1. Keeps(WithTotals(t), t)
  <2>1. CASE t.intervals = <<>>
    BY <2>1 DEF WithTotals, Keeps, EvidenceFields
  <2>2. CASE t.intervals # <<>>
    <3> DEFINE s == Running(t)[Len(t.intervals)]
    <3>1. WithTotals(t) = [t EXCEPT !.low = s.low, !.high = s.high,
                             !.deviation = s.deviation, !.exposure = s.exposure,
                             !.exceeded = s.low > 0 \/ s.high > 0]
      BY <2>2 DEF WithTotals
    <3> HIDE DEF s
    <3> QED BY <3>1 DEF Keeps, EvidenceFields
  <2> QED BY <2>1, <2>2
<1> HIDE DEF WithTotals
<1>2. ASSUME NEW s, Keeps(s, t), NEW x PROVE Keeps([s EXCEPT !.severity = x], t)
  BY <1>2 DEF Keeps, EvidenceFields
<1> QED BY <1>1, <1>2 DEF Summarized

\* A registered report keeps what the client measured.
LEMMA RegisteredKeeps ==
    ASSUME NEW b \in Body
    PROVE  Keeps(Registered(b), b.report)
<1>1. b.report \in Report
  BY DEF Body
<1>2. EvidenceFields \cup {"exceeded"} \subseteq DOMAIN b.report
  BY <1>1 DEF Report, EvidenceFields
<1>3. Keeps(Summarized(b.report), b.report)
  BY <1>2, SummaryKeeps
<1>4. ASSUME NEW s, Keeps(s, b.report)
      PROVE  Keeps([s EXCEPT !.reviews = 0], b.report)
  BY <1>4 DEF Keeps, EvidenceFields
<1> QED BY <1>3, <1>4 DEF Registered

\* A reviewed report keeps what was stored.
LEMMA ReviewedKeeps ==
    ASSUME NEW t, NEW r, Keeps(t, r)
    PROVE  Keeps(Reviewed(t), r)
<1>1. Keeps(Reset(t), r)
  BY DEF Reset, Keeps, EvidenceFields
<1>2. Keeps(Summarized(Reset(t)), r)
  BY <1>1, SummaryKeeps DEF Keeps
<1>3. ASSUME NEW s, Keeps(s, r)
      PROVE  Keeps([s EXCEPT !.reviews = s.reviews + 1], r)
  BY <1>3 DEF Keeps, EvidenceFields
<1> QED BY <1>2, <1>3 DEF Reviewed

\* A report with fields is not the nil one.
LEMMA KeepsIsReport ==
    ASSUME NEW t, NEW r, Keeps(t, r)
    PROVE  t # NoReport
<1>1. "note" \in DOMAIN t
  BY DEF Keeps, EvidenceFields
<1>2. DOMAIN NoReport = {}
  BY DEF NoReport
<1> QED BY <1>1, <1>2

-----------------------------------------------------------------------------
(* The evidence *)

\* The stored report has the evidence of the call it came from, and a note if
\* it says that the range was exceeded.
EvidenceInv ==
    /\ sent \in [Call -> Body]
    /\ pc \in [Call -> {"idle", "register", "review", "done"}]
    /\ transport # NoReport =>
           /\ origin \in Call
           /\ Keeps(transport, sent[origin].report)
           /\ transport.exceeded => transport.note

\* Nothing is stored at first.
LEMMA EvidenceInit == Init => EvidenceInv
BY DeliveryAssumption DEF Init, EvidenceInv

\* A step registers a report, reviews the one that is stored, or leaves it.
LEMMA ReportStep ==
    ASSUME EvidenceInv, [Next]_vars
    PROVE  /\ sent' = sent
           /\ \/ UNCHANGED <<transport, origin>>
              \/ \E c \in Call : /\ transport = NoReport /\ origin' = c
                                 /\ Acceptable(sent[c].report)
                                 /\ transport' = Registered(sent[c])
                                 /\ transport'.exceeded => transport'.note
              \/ /\ transport # NoReport /\ UNCHANGED origin
                 /\ Acceptable(transport)
                 /\ transport' = Reviewed(transport)
                 /\ transport'.exceeded => transport'.note
<1>1. ASSUME NEW c \in Call, RegisterTransport(c)
      PROVE  /\ transport = NoReport /\ origin' = c /\ sent' = sent
             /\ Acceptable(sent[c].report)
             /\ transport' = Registered(sent[c])
             /\ transport'.exceeded => transport'.note
  <2>1. sent[c] \in Body
    BY DEF EvidenceInv
  <2> DEFINE s == Summarized(sent[c].report)
  <2>2. s.exceeded => s.note
    BY <1>1 DEF RegisterTransport, RegistrationAccepted, NoteSupplied
  <2>3. EvidenceFields \cup {"exceeded"} \subseteq DOMAIN s
    <3>1. sent[c].report \in Report
      BY <2>1 DEF Body
    <3>2. EvidenceFields \cup {"exceeded"} \subseteq DOMAIN sent[c].report
      BY <3>1 DEF Report, EvidenceFields
    <3> QED BY <3>2, SummaryKeeps DEF Keeps
  <2> HIDE DEF s
  <2>4. /\ [s EXCEPT !.reviews = 0].exceeded = s.exceeded
        /\ [s EXCEPT !.reviews = 0].note = s.note
    BY <2>3 DEF EvidenceFields
  <2>5. transport' = [s EXCEPT !.reviews = 0]
    BY <1>1 DEF RegisterTransport, Registered, s
  <2> QED
    BY <1>1, <2>2, <2>4, <2>5
       DEF RegisterTransport, RegistrationAccepted, Unregistered
<1>2. ASSUME NEW c \in Call, ReviewTransportDecision(c)
      PROVE  /\ transport # NoReport /\ UNCHANGED origin /\ sent' = sent
             /\ Acceptable(transport)
             /\ transport' = Reviewed(transport)
             /\ transport'.exceeded => transport'.note
  BY <1>2 DEF ReviewTransportDecision, ReviewAccepted, NoteSupplied
<1>3. ASSUME \/ \E c \in Call : ReadBatch(c) \/ Replay(c) \/ Refuse(c)
             \/ OtherOperation
             \/ UNCHANGED vars
      PROVE  UNCHANGED <<transport, origin, sent>>
  BY <1>3 DEF ReadBatch, Replay, Refuse, OtherOperation, vars, batch
<1> QED BY <1>1, <1>2, <1>3 DEF Next

\* No call leaves the handler's steps, and only its own step moves it.
LEMMA CallStep ==
    ASSUME EvidenceInv, [Next]_vars
    PROVE  /\ pc' \in [Call -> {"idle", "register", "review", "done"}]
           /\ \A c \in Call : pc[c] = "idle" /\ pc'[c] # "idle" => ReadBatch(c)
<1>1. ASSUME NEW c \in Call, ReadBatch(c)
      PROVE  \E step \in {"register", "review", "done"} :
                pc' = [pc EXCEPT ![c] = step]
  BY <1>1 DEF ReadBatch, Answer
<1>2. ASSUME NEW c \in Call,
             \/ Replay(c) \/ Refuse(c)
             \/ RegisterTransport(c) \/ ReviewTransportDecision(c)
      PROVE  pc[c] # "idle" /\ pc' = [pc EXCEPT ![c] = "done"]
  BY <1>2 DEF Replay, Refuse, RegisterTransport, ReviewTransportDecision,
              Commit, Answer
<1>3. ASSUME OtherOperation \/ UNCHANGED vars PROVE pc' = pc
  BY <1>3 DEF OtherOperation, vars
<1> QED BY <1>1, <1>2, <1>3 DEF Next, EvidenceInv

\* Every step keeps the evidence with its origin.
LEMMA EvidenceStep == EvidenceInv /\ [Next]_vars => EvidenceInv'
<1> SUFFICES ASSUME EvidenceInv, [Next]_vars PROVE EvidenceInv'
  OBVIOUS
<1>1. sent' = sent /\ pc' \in [Call -> {"idle", "register", "review", "done"}]
  BY ReportStep, CallStep
<1>2. CASE UNCHANGED <<transport, origin>>
  BY <1>1, <1>2 DEF EvidenceInv
<1>3. ASSUME NEW c \in Call, origin' = c, transport' = Registered(sent[c]),
             transport'.exceeded => transport'.note
      PROVE  EvidenceInv'
  <2>1. Keeps(transport', sent[c].report)
    BY <1>3, RegisteredKeeps DEF EvidenceInv
  <2> QED BY <1>1, <1>3, <2>1 DEF EvidenceInv
<1>4. ASSUME transport # NoReport, UNCHANGED origin,
             transport' = Reviewed(transport),
             transport'.exceeded => transport'.note
      PROVE  EvidenceInv'
  <2>1. Keeps(transport', sent[origin].report)
    BY <1>4, ReviewedKeeps DEF EvidenceInv
  <2> QED BY <1>1, <1>4, <2>1 DEF EvidenceInv
<1> QED BY <1>2, <1>3, <1>4, ReportStep

\* The stored report is always that of its origin.
LEMMA EvidenceInvariant == Spec => []EvidenceInv
BY EvidenceInit, EvidenceStep, PTL DEF Spec

\* An excess stands with its note, also when a review computes it anew.
THEOREM ExcessHasNote == Spec => []ExcessIsExplained
<1>1. EvidenceInv => ExcessIsExplained
  BY DEF EvidenceInv, ExcessIsExplained
<1> QED BY <1>1, EvidenceInvariant, PTL

\* The origin of a stored report, and with it the evidence, never changes.
LEMMA OriginStays ==
    ASSUME EvidenceInv, [Next]_vars, transport # NoReport
    PROVE  /\ transport' # NoReport /\ origin' = origin /\ sent' = sent
           /\ \A f \in EvidenceFields : transport'[f] = transport[f]
<1> DEFINE r == sent[origin].report
<1>1. Keeps(transport, r)
  BY DEF EvidenceInv
<1>2. origin' = origin /\ sent' = sent /\ Keeps(transport', r)
  <2>1. CASE UNCHANGED <<transport, origin>>
    BY <1>1, <2>1, ReportStep
  <2>2. CASE UNCHANGED origin /\ transport' = Reviewed(transport)
    BY <1>1, <2>2, ReportStep, ReviewedKeeps
  <2> QED BY <2>1, <2>2, ReportStep
<1>3. transport' # NoReport
  BY <1>2, KeepsIsReport
<1> QED BY <1>1, <1>2, <1>3 DEF Keeps

\* What was measured is never replaced or edited.
THEOREM EvidenceIsImmutable == Spec => EvidenceNeverChanges
<1>1. EvidenceInv /\ [Next]_vars =>
        [transport # NoReport =>
            /\ transport' # NoReport
            /\ EvidenceOf(transport') = EvidenceOf(transport)]_vars
  BY OriginStays DEF EvidenceOf
<1> QED BY <1>1, EvidenceInvariant, PTL DEF Spec, EvidenceNeverChanges

\* The comparison made before the record is looked up turns a retry away for
\* the excess it claims and for nothing else.
THEOREM RetryIsRefusedForItsClaim == Spec => RetryDiffersOnlyInClaim
<1>1. EvidenceInv /\ [Next]_vars =>
        [\A c \in Call :
            /\ pc[c] = "idle" /\ pc'[c] = "done"
            /\ sent[c] = sent[origin]
            => /\ "exceeded" \in sent[c].sends
               /\ sent[c].report.exceeded # transport.exceeded]_vars
  <2> SUFFICES ASSUME EvidenceInv, Next, NEW c \in Call,
                      pc[c] = "idle", pc'[c] = "done", sent[c] = sent[origin]
               PROVE  /\ "exceeded" \in sent[c].sends
                      /\ sent[c].report.exceeded # transport.exceeded
    OBVIOUS
  <2>1. ReadBatch(c)
    BY CallStep
  <2>2. transport # NoReport /\ Differs(sent[c], transport)
    BY <2>1 DEF ReadBatch, EvidenceInv
  <2>3. sent[c] \in Body /\ sent[c].sends \subseteq ComparedFields
    BY DEF EvidenceInv, Body
  <2>4. PICK f \in sent[c].sends : sent[c].report[f] # transport[f]
    BY <2>2 DEF Differs
  <2>5. f \notin EvidenceFields
    BY <2>2, <2>4 DEF EvidenceInv, Keeps
  <2> QED BY <2>3, <2>4, <2>5 DEF ComparedFields
<1> QED BY <1>1, EvidenceInvariant, PTL DEF Spec, RetryDiffersOnlyInClaim

-----------------------------------------------------------------------------
(* What success tells the client *)

\* Requests with one id are deliveries of one request.  Clients choose the ids.
UniqueIds ==
    \A d \in Deliveries : \A b, c \in Call :
        d[b].request = d[c].request => d[b] = d[c]

\* What a call sent of the evidence is what is stored.
Agrees(c) ==
    /\ transport # NoReport
    /\ \A f \in sent[c].sends \cap EvidenceFields :
          sent[c].report[f] = transport[f]

\* A call that goes on to a review agreed when the handler read the batch; a
\* recorded id is that of a call that succeeded.
SuccessInv ==
    /\ EvidenceInv
    /\ sent \in Deliveries
    /\ answer \in [Call -> Answers]
    /\ \A c \in Call : pc[c] # "done" => answer[c] = "none"
    /\ \A c \in Call : pc[c] = "review" => Agrees(c)
    /\ \A c \in Call : answer[c] \in {"ok", "replayed"} => Agrees(c)
    /\ \A id \in record : \E c \in Call : sent[c].request = id /\ answer[c] = "ok"

\* Nobody has been answered at first.
LEMMA SuccessInit == Init => SuccessInv
BY EvidenceInit DEF Init, SuccessInv, Answers

\* Agreement lasts, for the evidence does.
LEMMA AgreementLasts ==
    ASSUME EvidenceInv, [Next]_vars, NEW c \in Call, Agrees(c)
    PROVE  Agrees(c)'
<1>1. /\ transport' # NoReport /\ sent' = sent
      /\ \A f \in EvidenceFields : transport'[f] = transport[f]
  BY OriginStays DEF Agrees
<1> QED BY <1>1 DEF Agrees

\* Whoever is told of success agrees with what is stored then.
LEMMA SuccessStep ==
    ASSUME UniqueIds, SuccessInv, [Next]_vars PROVE SuccessInv'
<1>1. EvidenceInv /\ EvidenceInv' /\ sent' = sent
  BY EvidenceStep, ReportStep DEF SuccessInv
<1>2. \A c \in Call : Agrees(c) => Agrees(c)'
  BY <1>1, AgreementLasts
<1> USE DEF SuccessInv
<1>. pc \in [Call -> {"idle", "register", "review", "done"}]
  BY <1>1 DEF EvidenceInv
<1>3. ASSUME NEW c \in Call, NEW a \in Answers \ {"none"}, Answer(c, a),
             a \in {"ok", "replayed"} => Agrees(c)',
             record' = record \/ record' = record \cup {sent[c].request},
             record' # record => a = "ok",
             pc[c] # "done"
      PROVE  SuccessInv'
  <2>1. /\ pc' = [pc EXCEPT ![c] = "done"]
        /\ answer' = [answer EXCEPT ![c] = a]
    BY <1>3 DEF Answer
  <2>2. /\ sent' \in Deliveries
        /\ pc' \in [Call -> {"idle", "register", "review", "done"}]
        /\ answer' \in [Call -> Answers]
    BY <1>1, <2>1
  <2>3. /\ \A d \in Call : pc'[d] # "done" => answer'[d] = "none"
        /\ \A d \in Call : pc'[d] = "review" => Agrees(d)'
        /\ \A d \in Call : answer'[d] \in {"ok", "replayed"} => Agrees(d)'
    BY <1>2, <1>3, <2>1
  <2>4. ASSUME NEW id \in record'
        PROVE  \E d \in Call : sent'[d].request = id /\ answer'[d] = "ok"
    <3>1. CASE id \in record
      <4>1. PICK d \in Call : sent[d].request = id /\ answer[d] = "ok"
        BY <3>1
      <4>2. d # c
        BY <1>3, <4>1
      <4> QED BY <1>1, <2>1, <4>1, <4>2
    <3>2. CASE id \notin record
      <4>1. id = sent[c].request /\ a = "ok"
        BY <1>3, <2>4, <3>2
      <4> QED BY <1>1, <2>1, <4>1
    <3> QED BY <3>1, <3>2
  <2> QED BY <1>1, <2>2, <2>3, <2>4
<1>4. ASSUME NEW c \in Call, ReadBatch(c) PROVE SuccessInv'
  <2>1. CASE Answer(c, "different")
    BY <1>3, <1>4, <2>1 DEF ReadBatch, Answers, batch
  <2>2. CASE UNCHANGED answer
    <3>1. /\ pc' = [pc EXCEPT ![c] = IF transport = NoReport THEN "register"
                                     ELSE "review"]
          /\ transport = NoReport \/ ~Differs(sent[c], transport)
      BY <1>4, <2>2 DEF ReadBatch, Answer, Answers
    <3>2. UNCHANGED <<transport, record, sent, answer>>
      BY <1>4, <2>2 DEF ReadBatch, batch
    <3>3. transport # NoReport => Agrees(c)
      BY <3>1 DEF Differs, Agrees
    <3>4. \A d \in Call : pc'[d] = "review" => Agrees(d)'
      BY <1>2, <3>1, <3>3
    <3>5. pc[c] = "idle"
      BY <1>4 DEF ReadBatch
    <3> QED BY <1>1, <1>2, <3>1, <3>2, <3>4, <3>5
  <2> QED BY <1>4, <2>1, <2>2 DEF ReadBatch
<1>5. ASSUME NEW c \in Call, Replay(c) PROVE SuccessInv'
  <2>1. PICK d \in Call : sent[d].request = sent[c].request /\ answer[d] = "ok"
    BY <1>5 DEF Replay, Answered
  <2>2. sent[d] = sent[c]
    BY <2>1 DEF UniqueIds
  <2>3. Agrees(c)
    BY <2>1, <2>2 DEF Agrees
  <2> QED BY <1>2, <1>3, <1>5, <2>3 DEF Replay, Answers, batch
<1>6. ASSUME NEW c \in Call, Refuse(c) PROVE SuccessInv'
  BY <1>3, <1>6 DEF Refuse, Answers, batch
<1>7. ASSUME NEW c \in Call, RegisterTransport(c) PROVE SuccessInv'
  <2>1. Keeps(transport', sent[c].report) /\ sent' = sent
    BY <1>1, <1>7, RegisteredKeeps DEF RegisterTransport, EvidenceInv
  <2>2. Agrees(c)'
    BY <2>1, KeepsIsReport DEF Agrees, Keeps
  <2> QED BY <1>3, <1>7, <2>2 DEF RegisterTransport, Commit, Answers
<1>8. ASSUME NEW c \in Call, ReviewTransportDecision(c) PROVE SuccessInv'
  <2>1. Agrees(c)
    BY <1>8 DEF ReviewTransportDecision
  <2> QED
    BY <1>2, <1>3, <1>8, <2>1 DEF ReviewTransportDecision, Commit, Answers
<1>9. ASSUME UNCHANGED <<record, pc, answer>> PROVE SuccessInv'
  BY <1>1, <1>2, <1>9
<1>10. CASE OtherOperation
  BY <1>9, <1>10 DEF OtherOperation
<1>11. CASE UNCHANGED vars
  BY <1>9, <1>11 DEF vars, batch
<1> QED BY <1>4, <1>5, <1>6, <1>7, <1>8, <1>10, <1>11 DEF Next

\* Given unique request ids, success means that what the client measured is
\* what is stored, through whichever branch the answer came.
THEOREM SuccessIsTruthful ==
    ASSUME UniqueIds PROVE Spec => []SuccessAgreesWithEvidence
<1>1. SuccessInv /\ [Next]_vars => SuccessInv'
  BY SuccessStep
<1>2. SuccessInv => SuccessAgreesWithEvidence
  BY DEF SuccessInv, Agrees, SuccessAgreesWithEvidence
<1> QED BY SuccessInit, <1>1, <1>2, PTL DEF Spec

-----------------------------------------------------------------------------
(* What the totals come to *)

\* A registration counts the intervals on top of what the client claimed.
LEMMA RegisteredCounts ==
    ASSUME NEW b \in Body, Acceptable(b.report), NEW s, s = Registered(b)
    PROVE  /\ s \in Report /\ Acceptable(s) /\ s.reviews = 0
           /\ \A f \in EvidenceFields : s[f] = b.report[f]
           /\ s.severity = DeviationSeverity(s)
           /\ s.intervals # <<>> =>
                 /\ Counts(s, b.report, Range(s.intervals))
                 /\ Deviates(s, b.report, Range(s.intervals))
<1> DEFINE t == b.report
           u == Summarized(t)
<1>1. t \in Report
  BY DEF Body
<1>2. /\ u \in Report
      /\ \A f \in EvidenceFields \cup {"reviews"} : u[f] = t[f]
      /\ u.severity = DeviationSeverity(u)
      /\ t.intervals # <<>> => /\ Counts(u, t, Range(t.intervals))
                               /\ Deviates(u, t, Range(t.intervals))
  BY <1>1, SummaryCounts
<1>3. s = [u EXCEPT !.reviews = 0]
  BY DEF Registered
<1> HIDE DEF u
<1>4. /\ s \in Report /\ s.reviews = 0
      /\ s.low = u.low /\ s.high = u.high /\ s.deviation = u.deviation
      /\ s.exposure = u.exposure /\ s.exceeded = u.exceeded
      /\ s.severity = u.severity
      /\ s.allowedMin = u.allowedMin /\ s.allowedMax = u.allowedMax
      /\ s.min = u.min /\ s.max = u.max /\ s.intervals = u.intervals
      /\ s.note = u.note
  BY <1>2, <1>3 DEF Report
<1>5. \A f \in EvidenceFields : s[f] = u[f] /\ u[f] = t[f]
  BY <1>2, <1>4 DEF EvidenceFields
<1>6. s.intervals = t.intervals /\ s.allowedMin = t.allowedMin
      /\ s.allowedMax = t.allowedMax
  BY <1>5 DEF EvidenceFields
<1>7. Acceptable(s)
  BY <1>6 DEF Acceptable, ValidRange
<1>8. DeviationSeverity(s) = DeviationSeverity(u)
  BY <1>4 DEF DeviationSeverity
<1>9. s.intervals # <<>> => /\ Counts(s, t, Range(s.intervals))
                            /\ Deviates(s, t, Range(s.intervals))
  BY <1>2, <1>4, <1>6 DEF Counts, Deviates
<1> QED BY <1>2, <1>4, <1>5, <1>7, <1>8, <1>9

\* Without its totals a report is the same report.
LEMMA ResetIsReport ==
    ASSUME NEW t \in Report
    PROVE  /\ Reset(t) \in Report
           /\ \A f \in EvidenceFields \cup {"reviews"} : Reset(t)[f] = t[f]
<1> DEFINE zero == 0
<1>1. zero \in Int
  OBVIOUS
<1>2. Reset(t) = [t EXCEPT !.low = zero, !.high = zero, !.deviation = zero,
                           !.exposure = zero]
  BY DEF Reset
<1> HIDE DEF zero
<1> QED BY <1>1, <1>2 DEF Report, EvidenceFields

\* A review counts the intervals from zero.
LEMMA ReviewedCounts ==
    ASSUME NEW t \in Report, Acceptable(t), NEW s, s = Reviewed(t)
    PROVE  /\ s \in Report /\ Acceptable(s) /\ s.reviews # 0
           /\ \A f \in EvidenceFields : s[f] = t[f]
           /\ s.severity = DeviationSeverity(s)
           /\ s.intervals # <<>> =>
                 /\ Counts(s, Reset(t), Range(s.intervals))
                 /\ Deviates(s, Reset(t), Range(s.intervals))
<1> DEFINE z == Reset(t)
           u == Summarized(z)
<1>1. /\ z \in Report
      /\ \A f \in EvidenceFields \cup {"reviews"} : z[f] = t[f]
  BY ResetIsReport DEF EvidenceFields
<1>2. /\ z.intervals = t.intervals
      /\ z.allowedMin = t.allowedMin /\ z.allowedMax = t.allowedMax
  BY <1>1 DEF EvidenceFields
<1>3. Acceptable(z)
  BY <1>2 DEF Acceptable, ValidRange
<1> HIDE DEF z
<1>4. /\ u \in Report
      /\ \A f \in EvidenceFields \cup {"reviews"} : u[f] = z[f]
      /\ u.severity = DeviationSeverity(u)
      /\ z.intervals # <<>> => /\ Counts(u, z, Range(z.intervals))
                               /\ Deviates(u, z, Range(z.intervals))
  BY <1>1, <1>3, SummaryCounts
<1>5. s = [u EXCEPT !.reviews = u.reviews + 1]
  BY DEF Reviewed, z
<1> HIDE DEF u
<1>6. /\ s \in Report /\ s.reviews = u.reviews + 1
      /\ s.low = u.low /\ s.high = u.high /\ s.deviation = u.deviation
      /\ s.exposure = u.exposure /\ s.exceeded = u.exceeded
      /\ s.severity = u.severity
      /\ s.allowedMin = u.allowedMin /\ s.allowedMax = u.allowedMax
      /\ s.min = u.min /\ s.max = u.max /\ s.intervals = u.intervals
      /\ s.note = u.note
  <2>1. u.reviews \in Nat
    BY <1>4 DEF Report
  <2>2. u.reviews + 1 \in Nat
    BY <2>1
  <2> QED BY <1>4, <1>5, <2>2 DEF Report
<1>7. \A f \in EvidenceFields : s[f] = u[f] /\ u[f] = z[f] /\ z[f] = t[f]
  BY <1>1, <1>4, <1>6 DEF EvidenceFields
<1>8. /\ s.intervals = t.intervals /\ s.intervals = z.intervals
      /\ s.allowedMin = t.allowedMin /\ s.allowedMax = t.allowedMax
  BY <1>7 DEF EvidenceFields
<1>9. Acceptable(s)
  BY <1>8 DEF Acceptable, ValidRange
<1>10. DeviationSeverity(s) = DeviationSeverity(u)
  BY <1>6 DEF DeviationSeverity
<1>11. s.intervals # <<>> => /\ Counts(s, z, Range(s.intervals))
                             /\ Deviates(s, z, Range(s.intervals))
  BY <1>4, <1>6, <1>8 DEF Counts, Deviates
<1>12. s.reviews # 0
  <2>1. u.reviews \in Nat
    BY <1>4 DEF Report
  <2> QED BY <1>6, <2>1
<1> QED BY <1>4, <1>6, <1>7, <1>9, <1>10, <1>11, <1>12 DEF z

\* What is counted depends on the allowed range and the sums of t only.
LEMMA CountsAlike ==
    ASSUME NEW s, NEW t, NEW u, NEW ints, Counts(s, t, ints), Deviates(s, t, ints),
           u.allowedMin = t.allowedMin, u.allowedMax = t.allowedMax,
           u.low = t.low, u.high = t.high, u.deviation = t.deviation,
           u.exposure = t.exposure
    PROVE  Counts(s, u, ints) /\ Deviates(s, u, ints)
<1>1. /\ MinutesBelow(u, ints) = MinutesBelow(t, ints)
      /\ MinutesAbove(u, ints) = MinutesAbove(t, ints)
      /\ DegreeMinutes(u, ints) = DegreeMinutes(t, ints)
  BY DEF MinutesBelow, MinutesAbove, DegreeMinutes, DegreesOutside
<1>2. Excesses(u, ints) = Excesses(t, ints)
  BY DEF Excesses
<1> QED BY <1>1, <1>2 DEF Counts, Deviates

\* The stored report is one SummarizeTransport accepted, its severity is that of
\* its totals, and its totals are what its intervals count on top of what is
\* claimed.
TotalsInv ==
    /\ EvidenceInv
    /\ transport # NoReport =>
           /\ transport \in Report
           /\ Acceptable(transport)
           /\ transport.severity = DeviationSeverity(transport)
           /\ transport.intervals # <<>> =>
                 /\ Counts(transport, Claimed, Range(transport.intervals))
                 /\ Deviates(transport, Claimed, Range(transport.intervals))

\* Every step keeps the totals with the intervals.
LEMMA TotalsStep == TotalsInv /\ [Next]_vars => TotalsInv'
<1> SUFFICES ASSUME TotalsInv, [Next]_vars PROVE TotalsInv'
  OBVIOUS
<1>1. EvidenceInv /\ EvidenceInv' /\ sent' = sent
  BY EvidenceStep, ReportStep DEF TotalsInv
<1>2. CASE UNCHANGED <<transport, origin>>
  BY <1>1, <1>2 DEF TotalsInv, Claimed
<1>3. ASSUME NEW c \in Call, origin' = c, Acceptable(sent[c].report),
             transport' = Registered(sent[c])
      PROVE  TotalsInv'
  <2>1. sent[c] \in Body
    BY <1>1 DEF EvidenceInv
  <2>2. /\ transport' \in Report /\ Acceptable(transport')
        /\ transport'.reviews = 0
        /\ transport'.severity = DeviationSeverity(transport')
        /\ transport'.intervals # <<>> =>
              /\ Counts(transport', sent[c].report, Range(transport'.intervals))
              /\ Deviates(transport', sent[c].report, Range(transport'.intervals))
    BY <1>3, <2>1, RegisteredCounts
  <2>3. Claimed' = sent[c].report
    BY <1>1, <1>3, <2>2 DEF Claimed
  <2> QED BY <1>1, <2>2, <2>3 DEF TotalsInv
<1>4. ASSUME transport # NoReport, UNCHANGED origin, Acceptable(transport),
             transport' = Reviewed(transport)
      PROVE  TotalsInv'
  <2> DEFINE b == sent[origin].report
  <2>1. /\ transport' \in Report /\ Acceptable(transport')
        /\ transport'.reviews # 0
        /\ transport'.severity = DeviationSeverity(transport')
        /\ transport'.intervals # <<>> =>
              /\ Counts(transport', Reset(transport), Range(transport'.intervals))
              /\ Deviates(transport', Reset(transport), Range(transport'.intervals))
    BY <1>4, ReviewedCounts DEF TotalsInv
  <2>2. Claimed' = Reset(b)
    BY <1>1, <1>4, <2>1 DEF Claimed
  <2>3. /\ b.allowedMin = transport.allowedMin
        /\ b.allowedMax = transport.allowedMax
    BY <1>1, <1>4 DEF EvidenceInv, Keeps, EvidenceFields
  <2>4. b \in Report /\ transport \in Report
    BY <1>1, <1>4 DEF EvidenceInv, Body, TotalsInv
  <2> HIDE DEF b
  <2>5. /\ Reset(b).allowedMin = Reset(transport).allowedMin
        /\ Reset(b).allowedMax = Reset(transport).allowedMax
        /\ Reset(b).low = Reset(transport).low
        /\ Reset(b).high = Reset(transport).high
        /\ Reset(b).deviation = Reset(transport).deviation
        /\ Reset(b).exposure = Reset(transport).exposure
    BY <2>3, <2>4 DEF Reset, Report
  <2>6. transport'.intervals # <<>> =>
              /\ Counts(transport', Reset(b), Range(transport'.intervals))
              /\ Deviates(transport', Reset(b), Range(transport'.intervals))
    BY <2>1, <2>5, CountsAlike
  <2> QED BY <1>1, <2>1, <2>2, <2>6 DEF TotalsInv
<1> QED BY <1>1, <1>2, <1>3, <1>4, ReportStep

\* The totals are always those of the intervals.
LEMMA TotalsInvariant == Spec => []TotalsInv
<1>1. Init => TotalsInv
  BY EvidenceInit DEF Init, TotalsInv
<1> QED BY <1>1, TotalsStep, PTL DEF Spec

\* The evidence of what is claimed is that of the stored report.
LEMMA ClaimedIsReport ==
    ASSUME TotalsInv, transport # NoReport
    PROVE  /\ Claimed \in Report
           /\ Claimed.allowedMin = transport.allowedMin
           /\ Claimed.allowedMax = transport.allowedMax
<1> DEFINE b == sent[origin].report
<1>1. b \in Report
  BY DEF TotalsInv, EvidenceInv, Body
<1>2. b.allowedMin = transport.allowedMin /\ b.allowedMax = transport.allowedMax
  BY DEF TotalsInv, EvidenceInv, Keeps, EvidenceFields
<1> HIDE DEF b
<1>3. /\ Reset(b) \in Report
      /\ Reset(b).allowedMin = b.allowedMin
      /\ Reset(b).allowedMax = b.allowedMax
  BY <1>1, ResetIsReport DEF EvidenceFields
<1>4. Claimed = b \/ Claimed = Reset(b)
  BY DEF Claimed, b
<1> QED BY <1>1, <1>2, <1>3, <1>4

\* In every state the stored totals are those of the intervals, each minute and
\* each degree of a minute counted once, on top of what is still claimed: no
\* sequence of registrations, retries and reviews adds one twice or loses one.
THEOREM TotalsAreThoseOfTheIntervals == Spec => []TotalsMatchIntervals
<1>1. TotalsInv => TotalsMatchIntervals
  <2> SUFFICES ASSUME TotalsInv, transport # NoReport,
                      transport.intervals # <<>>
               PROVE  TotalsMatchIntervals
    BY DEF TotalsMatchIntervals
  <2> DEFINE ints == Range(transport.intervals)
  <2>1. /\ transport \in Report /\ transport.intervals \in Seq(Interval)
        /\ Counts(transport, Claimed, ints)
        /\ Deviates(transport, Claimed, ints)
    BY DEF TotalsInv, Report
  <2>2. /\ Claimed \in Report
        /\ Claimed.allowedMin = transport.allowedMin
        /\ Claimed.allowedMax = transport.allowedMax
    BY ClaimedIsReport
  <2>3. ints \in SUBSET Interval /\ IsFiniteSet(ints)
    BY <2>1, RangeIsFinite
  <2>4. /\ MinutesBelow(transport, ints) = MinutesBelow(Claimed, ints)
        /\ MinutesAbove(transport, ints) = MinutesAbove(Claimed, ints)
        /\ DegreeMinutes(transport, ints) = DegreeMinutes(Claimed, ints)
        /\ Excesses(transport, ints) = Excesses(Claimed, ints)
    <3> HIDE DEF ints
    <3> QED BY <2>2 DEF MinutesBelow, MinutesAbove, DegreeMinutes,
                        DegreesOutside, Excesses
  <2>5. transport.deviation
          = Max({Claimed.deviation} \cup Excesses(Claimed, ints))
    <3> HIDE DEF ints
    <3> QED BY <2>1, <2>2, <2>3, DeviationIsGreatest
  <2> QED BY <2>1, <2>4, <2>5 DEF Counts, TotalsMatchIntervals
<1> QED BY <1>1, TotalsInvariant, PTL

\* No minute of a stored report lies in two of its intervals, although each was
\* compared with its neighbour only.
THEOREM StoredIntervalsAreApart == Spec => []IntervalsDisjoint
<1>1. TotalsInv => IntervalsDisjoint
  <2> SUFFICES ASSUME TotalsInv, transport # NoReport,
                      NEW i \in DOMAIN transport.intervals,
                      NEW j \in DOMAIN transport.intervals, i # j
               PROVE  \/ transport.intervals[i].end <= transport.intervals[j].start
                      \/ transport.intervals[j].end <= transport.intervals[i].start
    BY DEF IntervalsDisjoint
  <2>1. transport \in Report /\ Acceptable(transport)
    BY DEF TotalsInv
  <2>2. transport.intervals \in Seq(Interval)
    BY <2>1 DEF Report
  <2>3. i < j \/ j < i
    BY <2>2
  <2> QED BY <2>1, <2>3, IntervalsApart
<1> QED BY <1>1, TotalsInvariant, PTL

\* Where the extremes of a report reach as far as its intervals, the stored
\* severity is not milder than the excess of any interval.
THEOREM SeverityIsNotMilder == Spec => []SeverityCoversDeviation
<1>1. TotalsInv => SeverityCoversDeviation
  BY SeverityOfExcess DEF TotalsInv, SeverityCoversDeviation, ExtremesCover
<1> QED BY <1>1, TotalsInvariant, PTL

-----------------------------------------------------------------------------
(* Types *)

\* TypeOK needs the totals: what a review computes is a report again because
\* the stored one is acceptable.
TypeInv == TotalsInv /\ TypeOK

\* Every step keeps the types.
LEMMA TypeStep == TypeInv /\ [Next]_vars => TypeInv'
<1> SUFFICES ASSUME TypeInv, [Next]_vars PROVE TypeInv'
  OBVIOUS
<1>1. /\ TotalsInv /\ TotalsInv' /\ EvidenceInv /\ EvidenceInv'
  BY TotalsStep DEF TypeInv, TotalsInv
<1>2. MaxRevision \in Nat
  BY BoundAssumption
<1>3. /\ transport' \in Report \cup {NoReport}
      /\ transport = NoReport \/ transport' # NoReport
      /\ origin' \in Call \cup {Nobody}
      /\ sent' \in [Call -> Body]
      /\ pc' \in [Call -> {"idle", "register", "review", "done"}]
  <2>1. transport = NoReport \/ transport' # NoReport
    BY <1>1, OriginStays
  <2>2. origin' \in Call \cup {Nobody}
    BY <1>1, ReportStep DEF TypeInv, TypeOK
  <2> QED BY <1>1, <2>1, <2>2 DEF TotalsInv, EvidenceInv
<1>4. ASSUME NEW c \in Call, NEW a \in Answers, Answer(c, a)
      PROVE  answer' \in [Call -> Answers]
  BY <1>4 DEF Answer, TypeInv, TypeOK
<1> USE DEF TypeInv, TypeOK
<1>5. ASSUME NEW c \in Call, ReadBatch(c) PROVE TypeInv'
  <2>1. answer' \in [Call -> Answers]
    BY <1>4, <1>5 DEF ReadBatch, Answers
  <2> QED BY <1>1, <1>3, <1>5, <2>1 DEF ReadBatch, batch
<1>6. ASSUME NEW c \in Call, Replay(c) \/ Refuse(c) PROVE TypeInv'
  <2>1. answer' \in [Call -> Answers]
    BY <1>4, <1>6 DEF Replay, Refuse, Answers
  <2> QED BY <1>1, <1>3, <1>6, <2>1 DEF Replay, Refuse, batch
<1>7. ASSUME NEW c \in Call, Commit(c), transport' # NoReport, status' = status
      PROVE  TypeInv'
  <2>1. answer' \in [Call -> Answers]
    BY <1>4, <1>7 DEF Commit, Answers
  <2>2. revision' \in 1..MaxRevision
    BY <1>2, <1>7 DEF Commit
  <2>3. record' \subseteq RequestId
    BY <1>1, <1>7 DEF Commit, EvidenceInv, Body
  <2> QED BY <1>1, <1>3, <1>7, <2>1, <2>2, <2>3
<1>8. ASSUME NEW c \in Call, RegisterTransport(c) PROVE TypeInv'
  <2>1. Keeps(transport', sent[c].report)
    BY <1>1, <1>8, RegisteredKeeps DEF RegisterTransport, EvidenceInv
  <2>2. transport' # NoReport
    BY <2>1, KeepsIsReport
  <2> QED BY <1>7, <1>8, <2>2 DEF RegisterTransport
<1>9. ASSUME NEW c \in Call, ReviewTransportDecision(c) PROVE TypeInv'
  <2>1. transport # NoReport
    BY <1>9 DEF ReviewTransportDecision, ReviewAccepted
  <2> QED BY <1>3, <1>7, <1>9, <2>1 DEF ReviewTransportDecision
<1>10. CASE OtherOperation
  <2>1. revision' \in 1..MaxRevision
    BY <1>2, <1>10 DEF OtherOperation
  <2>2. status' \in {"open", "locked", "sealed"}
    BY <1>10 DEF OtherOperation
  <2> QED BY <1>1, <1>3, <1>10, <2>1, <2>2 DEF OtherOperation, PlanPossible
<1>11. CASE UNCHANGED vars
  BY <1>1, <1>3, <1>11 DEF vars, batch
<1> QED BY <1>5, <1>6, <1>8, <1>9, <1>10, <1>11 DEF Next

\* Every variable keeps its type, and no batch moves on before its transport is
\* registered.
THEOREM TypeCorrect == Spec => []TypeOK
<1>1. Init => TypeInv
  <2>1. Init => TotalsInv
    BY EvidenceInit DEF Init, TotalsInv
  <2>2. Init => TypeOK
    BY BoundAssumption, DeliveryAssumption DEF Init, TypeOK, Answers
  <2> QED BY <2>1, <2>2 DEF TypeInv
<1>2. TypeInv => TypeOK
  BY DEF TypeInv
<1> QED BY <1>1, <1>2, TypeStep, PTL DEF Spec

=============================================================================
