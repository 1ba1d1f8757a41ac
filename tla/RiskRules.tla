------------------------------ MODULE RiskRules ------------------------------
(***************************************************************************)
(* The rules of internal/domain that decide what a batch's evidence means: *)
(* the risk factors of a transport report, the deviation code of a thaw    *)
(* observation, the risk score, its grade and the preconditions the grade  *)
(* brings.  Pure operators, no state.                                      *)
(*                                                                         *)
(* Temperatures, minutes and volumes appear only as the comparisons the    *)
(* rules make with them.  A transport report is the set of factors it      *)
(* triggers and whether each piece of evidence was supplied; a reading is  *)
(* whether it misses the stage's target, holds too short, melts too much.  *)
(***************************************************************************)
EXTENDS Naturals, Sequences, FiniteSets

TransportFactors ==
    {"low_exceeded_minutes", "high_exceeded_minutes",
     "max_deviation_c", "exposure_degree_minutes"}

\* "measured" is what the intervals or temperatures of the report give on
\* their own; a client can send totals of its own on top of them.
Transport ==
    [factors : SUBSET TransportFactors, exceeded : BOOLEAN,
     measured : [factors : SUBSET TransportFactors, exceeded : BOOLEAN],
     note : BOOLEAN, disposition : BOOLEAN, qualityApproved : BOOLEAN,
     dualReviewed : BOOLEAN]

\* A "warm" stage has a target above 10 C: each of its in-tolerance readings
\* (target +/- 2) is above the 8 C at which ObservationAnomaly raises an
\* anomaly.  ThawPlan.Validate accepts targets up to 20 C.
Stage == {"cold", "warm"}

\* "REPORTED" stands for a deviation code the recording client sent itself.
DeviationCodes ==
    {"", "REPORTED", "HOLD_INSUFFICIENT", "TEMP_OUT_OF_TOLERANCE",
     "MELTWATER_ABNORMAL", "SAMPLE_STATE_ABNORMAL"}

\* What a client sends for one stage.  "omitted" is a hold time <= 0.  A sample
\* is "abnormal" by its description, or by more than 8 C where the stage and
\* its tolerance leave that open.
Reading ==
    [hold : {"full", "short", "omitted"}, offTarget : BOOLEAN,
     meltHigh : BOOLEAN, abnormal : BOOLEAN, code : {"", "REPORTED"}]

\* What the service keeps of it: the effective observation of the stage.
\* "asSent": it is a correction its client sent along with the reading, which
\* no correction by the service has followed.
Observation ==
    [holdShort : BOOLEAN, meltHigh : BOOLEAN, abnormal : BOOLEAN,
     code : DeviationCodes, asSent : BOOLEAN]

-----------------------------------------------------------------------------
(* Observations *)

LooksAbnormal(stage, r) == r.abnormal \/ (stage = "warm" /\ ~r.offTarget)

\* The deviation code the service assigns: an off-target temperature hides a
\* short hold, either hides the client's own code, and only a reading with no
\* code yet is tested for meltwater and then for an abnormal sample.
DeviationCode(stage, r, short) ==
    IF r.offTarget THEN "TEMP_OUT_OF_TOLERANCE"
    ELSE IF short THEN "HOLD_INSUFFICIENT"
    ELSE IF r.code # "" THEN r.code
    ELSE IF r.meltHigh THEN "MELTWATER_ABNORMAL"
    ELSE IF LooksAbnormal(stage, r) THEN "SAMPLE_STATE_ABNORMAL"
    ELSE ""

Kept(stage, r, short, code, asSent) ==
    [holdShort |-> short, meltHigh |-> r.meltHigh,
     abnormal |-> LooksAbnormal(stage, r), code |-> code, asSent |-> asSent]

\* A first reading without a hold time is given the stage's own.
Observed(stage, r) ==
    LET short == r.hold = "short"
    IN  Kept(stage, r, short, DeviationCode(stage, r, short), FALSE)

\* A correction that came with the reading takes effect as its client sent it:
\* it is given neither a hold time nor a code.
SentAlong(stage, v) == Kept(stage, v, v.hold # "full", v.code, TRUE)

\* A correction without a hold time inherits the one it corrects.
Corrected(stage, before, r) ==
    LET short == r.hold = "short" \/ (r.hold = "omitted" /\ before.holdShort)
    IN  Kept(stage, r, short, DeviationCode(stage, r, short), FALSE)

\* What was given a code has one whenever it is anomalous; what took effect as
\* it was sent may be anomalous without.
Anomalous(o) == o.code # "" \/ o.meltHigh \/ o.abnormal

AnyAnomaly(obs) == \E i \in DOMAIN obs : Anomalous(obs[i])

-----------------------------------------------------------------------------
(* Risk *)

Grades == {"low", "medium", "high", "critical"}

Preconditions ==
    {"deviation_note", "disposition", "quality_approval", "dual_review"}

OnlyLooksAbnormal(o) == o.abnormal /\ ~o.meltHigh

\* Two points for every triggered transport factor, and for every observation
\* with a code or, without one, an abnormal sample; one for each with too much
\* meltwater.
RiskScore(t, obs) ==
    2 * Cardinality(t.factors)
    + 2 * Cardinality({i \in DOMAIN obs :
                         obs[i].code # "" \/ OnlyLooksAbnormal(obs[i])})
    + Cardinality({i \in DOMAIN obs : obs[i].meltHigh})

GradeOf(score) ==
    IF score >= 6 THEN "critical"
    ELSE IF score >= 4 THEN "high"
    ELSE IF score >= 2 THEN "medium"
    ELSE "low"

Required(grade) ==
    CASE grade = "low"      -> {}
      [] grade = "medium"   -> {"deviation_note"}
      [] grade = "high"     -> {"deviation_note", "dual_review"}
      [] OTHER              -> Preconditions

Supplied(t) ==
    {p \in Preconditions :
        \/ p = "deviation_note"   /\ t.note
        \/ p = "disposition"      /\ t.disposition
        \/ p = "quality_approval" /\ t.qualityApproved
        \/ p = "dual_review"      /\ t.dualReviewed}

RiskAssessment == [grade : Grades, unmet : SUBSET Preconditions, revision : Nat]

\* EvaluateRisk for a batch whose transport is registered.  ("Missing" is then
\* empty: registration refuses the 0..0 range it also stands for.)
EvaluateRisk(t, obs, rev) ==
    LET grade == GradeOf(RiskScore(t, obs))
    IN  [grade |-> grade, unmet |-> Required(grade) \ Supplied(t),
         revision |-> rev]

=============================================================================
